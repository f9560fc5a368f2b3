------------------------------ MODULE MmalList ------------------------------
(***************************************************************************)
(* The linked lists of buffer headers of mmal/core: MMAL_QUEUE_T           *)
(* (mmal_queue.c) and the internal queue of a paused port (mmal_port.c).   *)
(* Both chain the headers through the one field buffer->next, and both     *)
(* keep a pointer `last' to the cell the next header is written to: the    *)
(* head of the list, or the next field of its last header.                 *)
(*                                                                         *)
(* A memory m has m.next[b] for every header b and, for every list k,      *)
(* m.q[k].first and m.q[k].last.  The operators are the bodies of the C    *)
(* functions, run under the lock of the list.                              *)
(***************************************************************************)
EXTENDS Naturals, FiniteSets

CONSTANTS
    Headers,   \* the buffer headers of a pool
    NULL       \* the null pointer

Head0 == "&first"      \* the value of `last' in an empty list

EmptyList == [first |-> NULL, last |-> Head0]

(* *queue->last = buffer                                                    *)
StoreLast(m, k, b) ==
    IF m.q[k].last = Head0
    THEN [m EXCEPT !.q[k].first = b]
    ELSE [m EXCEPT !.next[m.q[k].last] = b]

(* mmal_queue_put *)
Put(m, k, b) ==
    [StoreLast(m, k, b) EXCEPT !.next[b] = NULL, !.q[k].last = b]

(* mmal_queue_put_back *)
PutBack(m, k, b) ==
    [m EXCEPT !.next[b] = m.q[k].first,
              !.q[k].first = b,
              !.q[k].last = IF @ = Head0 THEN b ELSE @]

(* What mmal_queue_get leaves behind.  It returns m.q[k].first, whose next *)
(* field keeps its value.                                                  *)
Unlink(m, k) ==
    LET rest == m.next[m.q[k].first] IN
    [m EXCEPT !.q[k].first = rest,
              !.q[k].last = IF rest = NULL THEN Head0 ELSE @]

(* mmal_port_send_buffer on a paused port: the header is chained in, its   *)
(* own next field is left as it is.                                        *)
ChainIn(m, k, b) ==
    [StoreLast(m, k, b) EXCEPT !.q[k].last = b]

Drop(m, k) == [m EXCEPT !.q[k] = EmptyList]

(***************************************************************************)
(* Reading a list                                                          *)
(***************************************************************************)
(* Node(m, b)[n] is the header n links behind b, or NULL past the end.     *)
Node(m, b) ==
    LET at[n \in 0 .. Cardinality(Headers)] ==
            IF n = 0 THEN b
            ELSE IF at[n - 1] = NULL THEN NULL ELSE m.next[at[n - 1]]
    IN at

Reach(m, b) ==
    {Node(m, b)[n] : n \in 0 .. Cardinality(Headers)} \ {NULL}

Members(m, k) == Reach(m, m.q[k].first)

(* The list from b on, in order; cut off after Cardinality(Headers) links  *)
(* when the links form a cycle.                                            *)
Chain(m, b) ==
    [i \in 1 .. Cardinality(Reach(m, b)) |-> Node(m, b)[i - 1]]

(* The links end, and `last' points to the end.                            *)
Linked(m, k) ==
    LET c == Chain(m, m.q[k].first) IN
    /\ Node(m, m.q[k].first)[Cardinality(Headers)] = NULL
    /\ m.q[k].last = IF DOMAIN c = {} THEN Head0 ELSE c[Cardinality(DOMAIN c)]

=============================================================================
