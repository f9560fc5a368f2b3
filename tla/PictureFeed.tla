----------------------------- MODULE PictureFeed -----------------------------
(***************************************************************************)
(* What the global picture buffer promises to the clients of the HTTP      *)
(* server, without threads, mutexes or condition variables.  A client asks *)
(* for a picture; the next publication makes it ready; a ready client is   *)
(* given, as a whole, the picture that is the latest at that time.         *)
(***************************************************************************)
CONSTANTS Clients, Pictures, Nothing

VARIABLES
    latest,   \* the picture published last
    wanting,  \* clients that asked and for whom nothing was published yet
    ready,    \* clients for whom something was published since they asked
    seen      \* the picture each client holds, or Nothing

feedVars == <<latest, wanting, ready, seen>>

FeedInit ==
    /\ latest \in Pictures
    /\ wanting = {} /\ ready = {}
    /\ seen = [c \in Clients |-> Nothing]

Ask(c) ==
    /\ wanting' = wanting \cup {c}
    /\ ready' = ready \ {c}
    /\ UNCHANGED <<latest, seen>>

Publish(p) ==
    /\ latest' = p
    /\ ready' = ready \cup wanting
    /\ wanting' = {}
    /\ UNCHANGED seen

Deliver(c) ==
    /\ c \in ready
    /\ seen' = [seen EXCEPT ![c] = latest]
    /\ UNCHANGED <<latest, wanting, ready>>

Drop(c) ==
    /\ seen' = [seen EXCEPT ![c] = Nothing]
    /\ UNCHANGED <<latest, wanting, ready>>

FeedNext ==
    \/ \E p \in Pictures : Publish(p)
    \/ \E c \in Clients : Ask(c) \/ Deliver(c) \/ Drop(c)

FeedSpec == FeedInit /\ [][FeedNext]_feedVars
=============================================================================
