------------------------------ MODULE MmalFifo ------------------------------
(***************************************************************************)
(* What mmal_queue.h promises: headers leave in the order they were put,   *)
(* except that a header put back leaves first, and an attempt to get one   *)
(* fails only on an empty queue.  `queue' is the content of the queue,     *)
(* `held' the headers outside it.                                          *)
(***************************************************************************)
EXTENDS Sequences

CONSTANTS Headers

VARIABLES queue, held

FifoInit == queue = << >> /\ held = Headers

FifoPut(b) ==
    /\ b \in held
    /\ queue' = Append(queue, b)
    /\ held' = held \ {b}

FifoPutBack(b) ==
    /\ b \in held
    /\ queue' = <<b>> \o queue
    /\ held' = held \ {b}

FifoGet ==
    /\ queue # << >>
    /\ queue' = Tail(queue)
    /\ held' = held \cup {Head(queue)}

FifoNext == FifoGet \/ \E b \in Headers : FifoPut(b) \/ FifoPutBack(b)

FifoSpec == FifoInit /\ [][FifoNext]_<<queue, held>>

=============================================================================
