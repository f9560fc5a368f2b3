----------------------------- MODULE Ch34xWrite ------------------------------
(***************************************************************************)
(* The write path of the CH34x USB serial driver: a circular buffer        *)
(* (ch34x_buf), ch34x_write, ch34x_send and the completion handler of      *)
(* the one write URB, with the submission of all URBs by ch34x_open and    *)
(* their end in ch34x_close.                                               *)
(*                                                                         *)
(* Bytes are numbered in the order in which tty writes them.  What the     *)
(* code does with priv->lock held is one step; the clearing of             *)
(* write_urb_in_use and usb_submit_urb, which happen without the lock, are *)
(* steps of their own.  The USB core is external: it completes a URB with  *)
(* some status, and usb_kill_urb takes a URB back, refuses to submit it    *)
(* meanwhile, and waits for a handler that is running.                     *)
(***************************************************************************)
EXTENDS Naturals, Sequences

CONSTANTS RingSize,    \* CH34x_BUF_SIZE
          BulkOut,     \* port->bulk_out_size
          MaxBytes,    \* bound: bytes written
          MaxOpens,    \* bound: ch34x_open calls
          ChFaults     \* "submit": usb_submit_urb fails; "status": a write
                       \* ends with an error; "read": a read does

ASSUME Ch34xAssumption ==
    RingSize \in Nat \ {0, 1} /\ BulkOut \in Nat \ {0} /\ MaxBytes \in Nat /\ MaxOpens \in Nat

Sides == {"writer", "handler"}  \* who runs ch34x_send

VARIABLES ring, bufGet, bufPut, inUse,
          sendPc,      \* of each side
          urbData,     \* what the write URB carries
          urbs,        \* the URBs that are submitted: "write", "read", "int"
          refused,     \* the URBs that usb_kill_urb refuses to submit
          chState,     \* ch34x_open and ch34x_close
          delivered,   \* bytes that reached the device
          nextByte, opensLeft,
          lossy        \* data was dropped: an error, or a close

writeVars == <<ring, bufGet, bufPut, inUse, sendPc, urbData, urbs, refused, chState, delivered,
               nextByte, opensLeft, lossy>>
bufVars34 == <<ring, bufGet, bufPut>>

Smaller(a, b) == IF a < b THEN a ELSE b

-----------------------------------------------------------------------------
ch34x_buf_data_avail == (RingSize + bufPut - bufGet) % RingSize

(* One byte stays free: a full buffer is not mistaken for an empty one. *)
ch34x_buf_space_avail == (RingSize + bufGet - bufPut - 1) % RingSize

(* Where buf_put or buf_get is after count bytes from at on. *)
Wrapped(at, count) ==
    LET len == RingSize - at
    IN  IF count > len THEN count - len ELSE IF count < len THEN at + count ELSE 0

(* The bytes first .. first + count - 1, copied in one piece or two. *)
ch34x_buf_put(first, count) ==
    LET len == RingSize - bufPut
        piece(i) == IF i >= bufPut THEN i - bufPut ELSE i + len
    IN  /\ ring' = [i \in DOMAIN ring |-> IF piece(i) < count THEN first + piece(i) ELSE ring[i]]
        /\ bufPut' = Wrapped(bufPut, count)
        /\ UNCHANGED bufGet

(* What ch34x_buf_get copies. *)
Content(count) == [i \in 1 .. count |-> ring[(bufGet + i - 1) % RingSize]]

(* usb_submit_urb *)
MaySubmit(u) == u \notin refused
SubmitFails(u) == u \in refused \/ "submit" \in ChFaults

-----------------------------------------------------------------------------
(* ch34x_write *)
Write(count) ==
    /\ chState = "open" /\ sendPc["writer"] = "idle" /\ nextByte + count - 1 <= MaxBytes
    /\ ch34x_buf_put(nextByte, Smaller(count, ch34x_buf_space_avail))
    /\ nextByte' = nextByte + Smaller(count, ch34x_buf_space_avail)
    /\ sendPc' = [sendPc EXCEPT !["writer"] = "send"]
    /\ UNCHANGED <<inUse, urbData, urbs, refused, chState, delivered, opensLeft, lossy>>

(* ch34x_send, with the lock held *)
Send34(s) ==
    /\ sendPc[s] = "send"
    /\ IF inUse \/ ch34x_buf_data_avail = 0
       THEN sendPc' = [sendPc EXCEPT ![s] = "idle"] /\ UNCHANGED <<bufGet, inUse, urbData>>
       ELSE /\ urbData' = Content(Smaller(BulkOut, ch34x_buf_data_avail))
            /\ bufGet' = Wrapped(bufGet, Smaller(BulkOut, ch34x_buf_data_avail))
            /\ inUse' = TRUE
            /\ sendPc' = [sendPc EXCEPT ![s] = "submit"]
    /\ UNCHANGED <<ring, bufPut, urbs, refused, chState, delivered, nextByte, opensLeft, lossy>>

MutSubmit(s) ==
    /\ sendPc[s] = "submit" /\ sendPc' = [sendPc EXCEPT ![s] = "idle"]
    /\ \/ MaySubmit("write") /\ urbs' = urbs \cup {"write"} /\ UNCHANGED <<inUse, urbData, lossy>>
       \/ SubmitFails("write") /\ urbData' = <<>> /\ lossy' = TRUE /\ UNCHANGED <<urbs, inUse>>
    /\ UNCHANGED <<bufVars34, refused, chState, delivered, nextByte, opensLeft>>

(* ch34x_send, without it *)
Submit34(s) ==
    /\ sendPc[s] = "submit" /\ sendPc' = [sendPc EXCEPT ![s] = "idle"]
    /\ \/ MaySubmit("write") /\ urbs' = urbs \cup {"write"} /\ UNCHANGED <<inUse, urbData, lossy>>
       \/ SubmitFails("write") /\ inUse' = FALSE /\ urbData' = <<>> /\ lossy' = TRUE /\ UNCHANGED urbs
    /\ UNCHANGED <<bufVars34, refused, chState, delivered, nextByte, opensLeft>>

(* ch34x_write_bulk_callback.  After an error the URB is submitted again   *)
(* with a length of one byte.                                              *)
WriteDone ==
    /\ "write" \in urbs /\ sendPc["handler"] = "idle"
    /\ \/ /\ delivered' = delivered \o urbData /\ urbData' = <<>>
          /\ urbs' = urbs \ {"write"} /\ sendPc' = [sendPc EXCEPT !["handler"] = "clear"]
          /\ UNCHANGED lossy
       \/ /\ "status" \in ChFaults /\ MaySubmit("write")
          /\ urbData' = SubSeq(urbData, 1, 1) /\ lossy' = TRUE
          /\ UNCHANGED <<delivered, urbs, sendPc>>
       \/ /\ "status" \in ChFaults /\ SubmitFails("write")
          /\ urbData' = <<>> /\ lossy' = TRUE
          /\ urbs' = urbs \ {"write"} /\ sendPc' = [sendPc EXCEPT !["handler"] = "clear"]
          /\ UNCHANGED delivered
    /\ UNCHANGED <<bufVars34, inUse, refused, chState, nextByte, opensLeft>>

MutHandlerClear ==
    /\ sendPc["handler"] = "clear" /\ inUse' = FALSE
    /\ sendPc' = [sendPc EXCEPT !["handler"] = "idle"]
    /\ UNCHANGED <<bufVars34, urbData, urbs, refused, chState, delivered, nextByte, opensLeft, lossy>>

(* priv->write_urb_in_use = 0, then "send any buffered data" *)
HandlerClear ==
    /\ sendPc["handler"] = "clear" /\ inUse' = FALSE
    /\ sendPc' = [sendPc EXCEPT !["handler"] = "send"]
    /\ UNCHANGED <<bufVars34, urbData, urbs, refused, chState, delivered, nextByte, opensLeft, lossy>>

(* ch34x_read_bulk_callback and ch34x_read_int_callback submit their URB   *)
(* again; after an error other than -EPROTO the bulk read ends.            *)
ReadDone(u) ==
    /\ u \in urbs \cap {"read", "int"}
    /\ SubmitFails(u) \/ (u = "read" /\ "read" \in ChFaults)
    /\ urbs' = urbs \ {u}
    /\ UNCHANGED <<bufVars34, inUse, sendPc, urbData, refused, chState, delivered, nextByte, opensLeft,
                   lossy>>

-----------------------------------------------------------------------------
(* ch34x_open; what it does about the baud rate is in Ch34xLines. *)
OpenRead ==
    /\ chState = "closed" /\ opensLeft > 0 /\ opensLeft' = opensLeft - 1
    /\ \/ MaySubmit("read") /\ urbs' = urbs \cup {"read"} /\ chState' = "opening"
       \/ SubmitFails("read") /\ chState' = "closing" /\ UNCHANGED urbs
    /\ UNCHANGED <<bufVars34, inUse, sendPc, urbData, refused, delivered, nextByte, lossy>>

OpenInt ==
    /\ chState = "opening"
    /\ \/ MaySubmit("int") /\ urbs' = urbs \cup {"int"} /\ chState' = "open"
       \/ SubmitFails("int") /\ chState' = "closing" /\ UNCHANGED urbs
    /\ UNCHANGED <<bufVars34, inUse, sendPc, urbData, refused, delivered, nextByte, opensLeft, lossy>>

(* The tty layer closes the port after the last write returned. *)
Close ==
    /\ chState = "open" /\ sendPc["writer"] = "idle"
    /\ chState' = "closing"
    /\ UNCHANGED <<bufVars34, inUse, sendPc, urbData, urbs, refused, delivered, nextByte, opensLeft,
                   lossy>>

(* ch34x_close: "clear out any remaining data in the buffer" *)
CloseClear ==
    /\ chState = "closing" /\ chState' = "killInt"
    /\ bufGet' = bufPut
    /\ lossy' = (lossy \/ ch34x_buf_data_avail > 0)
    /\ UNCHANGED <<ring, bufPut, inUse, sendPc, urbData, urbs, refused, delivered, nextByte, opensLeft>>

(* usb_kill_urb of a read: its handler returns at once. *)
KillRead(u, from, to) ==
    /\ chState = from /\ chState' = to
    /\ urbs' = urbs \ {u}
    /\ UNCHANGED <<bufVars34, inUse, sendPc, urbData, refused, delivered, nextByte, opensLeft, lossy>>

(* usb_kill_urb of the write: it completes with -ENOENT, and its handler   *)
(* clears write_urb_in_use.                                                *)
KillWrite ==
    /\ chState = "killWrite" /\ refused' = refused \cup {"write"} /\ chState' = "drained"
    /\ IF "write" \in urbs
       THEN urbs' = urbs \ {"write"} /\ inUse' = FALSE /\ urbData' = <<>> /\ lossy' = TRUE
       ELSE UNCHANGED <<urbs, inUse, urbData, lossy>>
    /\ UNCHANGED <<bufVars34, sendPc, delivered, nextByte, opensLeft>>

(* The handler has returned. *)
KillWait ==
    /\ chState = "drained" /\ sendPc["handler"] = "idle"
    /\ refused' = {} /\ chState' = "closed"
    /\ UNCHANGED <<bufVars34, inUse, sendPc, urbData, urbs, delivered, nextByte, opensLeft, lossy>>

Closing ==
    \/ CloseClear \/ KillRead("int", "killInt", "killRead") \/ KillRead("read", "killRead", "killWrite")
    \/ KillWrite \/ KillWait

WriteInit ==
    /\ ring = [i \in 0 .. RingSize - 1 |-> 0] /\ bufGet = 0 /\ bufPut = 0 /\ inUse = FALSE
    /\ sendPc = [s \in Sides |-> "idle"] /\ urbData = <<>> /\ urbs = {} /\ refused = {}
    /\ chState = "closed" /\ delivered = <<>> /\ nextByte = 1 /\ opensLeft = MaxOpens /\ lossy = FALSE

WriteNext ==
    \/ \E count \in 1 .. RingSize : Write(count)
    \/ \E s \in Sides : Send34(s) \/ Submit34(s)
    \/ WriteDone \/ HandlerClear \/ \E u \in {"read", "int"} : ReadDone(u)
    \/ OpenRead \/ OpenInt \/ Close \/ Closing

(* The writer and the handlers run on; the device takes what is submitted. *)
WriteFairness ==
    /\ \A s \in Sides : WF_writeVars(Send34(s) \/ Submit34(s))
    /\ WF_writeVars(WriteDone) /\ WF_writeVars(HandlerClear) /\ WF_writeVars(Closing)

WriteSpec == WriteInit /\ [][WriteNext]_writeVars /\ WriteFairness

-----------------------------------------------------------------------------
(* Types, and the pointers inside the buffer. *)
WriteTypeOK ==
    /\ ring \in [0 .. RingSize - 1 -> 0 .. MaxBytes] /\ inUse \in BOOLEAN
    /\ bufGet \in 0 .. RingSize - 1 /\ bufPut \in 0 .. RingSize - 1
    /\ sendPc \in [Sides -> {"idle", "send", "submit", "clear"}] /\ Len(urbData) <= BulkOut
    /\ urbs \subseteq {"write", "read", "int"} /\ refused \subseteq {"write"}

(* Everything between tty and the device, oldest first. *)
Pipeline == delivered \o urbData \o Content(ch34x_buf_data_avail)

(* Bytes reach the device in the order in which they were written, each at *)
(* most once, whatever fails, wraps around or is closed in between; and    *)
(* without a failure or a close none is missing.                           *)
BytesInOrder ==
    /\ \A i, j \in DOMAIN Pipeline : i < j => Pipeline[i] < Pipeline[j]
    /\ ~lossy => Len(Pipeline) = nextByte - 1

(* write_urb_in_use, cleared without the lock, says what it says: the URB  *)
(* is never filled or submitted while the device owns it, and the flag is  *)
(* never left set.                                                         *)
InUseExact ==
    inUse <=> \/ "write" \in urbs
              \/ \E s \in Sides : sendPc[s] \in {"submit", "clear"}

(* After ch34x_close, or a ch34x_open that failed, no URB is submitted and *)
(* the next open finds the write URB free.                                 *)
ClosedIsQuiet == chState = "closed" => urbs = {} /\ ~inUse

(* The buffer empties: what was written is sent without a further write,   *)
(* unless a submission fails or the port is closed.                        *)
BufferDrains ==
    (ch34x_buf_data_avail > 0) ~> (ch34x_buf_data_avail = 0 \/ lossy)

(* "reschedule ch34x_send": also after a submission failed. *)
DrainsAfterFailure ==
    (ch34x_buf_data_avail > 0) ~> (ch34x_buf_data_avail = 0)

(* The write side of the driver: order of the bytes, ownership of the URB  *)
(* and silence after close, whatever fails.                                *)
WriteSafe == WriteTypeOK /\ BytesInOrder /\ InUseExact /\ ClosedIsQuiet
=============================================================================
