---------------------------- MODULE StreamerFeed ----------------------------
(***************************************************************************)
(* Streamer implements PictureFeed.  A picture is published at the moment  *)
(* cam_thread, holding the mutex, writes it to the buffer: nobody can look *)
(* before the broadcast, and nobody can start or stop waiting until then.  *)
(* A client holds a picture from the end of its copy until it has sent it. *)
(***************************************************************************)
EXTENDS Streamer

(* cam_thread has written a picture and not yet told the waiters.          *)
Publishing == camPc \in {"stamp", "publish"}

(* Clients that wait and were not told of a picture, and clients that      *)
(* were or are about to be.                                                *)
feedWanting == IF Publishing THEN {} ELSE dbWait \cap Clients
feedReady == (fresh \cup IF Publishing THEN dbWait ELSE {}) \cap Clients

(* The picture a copy is; anything that is not one picture maps to Freed.  *)
PictureOf(k) ==
    IF k.size = NoFrame THEN NoFrame
    ELSE IF k.data = k.size /\ k.ts = k.size THEN k.size ELSE Freed

feedSeen == [c \in Clients |-> IF cliPc[c] = "send"
                               THEN <<PictureOf(copy[c])>> ELSE <<>>]

Feed == INSTANCE PictureFeed WITH
    Pictures <- {<<f>> : f \in Frames \cup {NoFrame}},
    Nothing <- <<>>,
    latest <- <<bufSize>>,
    wanting <- feedWanting,
    ready <- feedReady,
    seen <- feedSeen

(* Every behaviour of the threads is a behaviour of the abstract feed: the *)
(* pictures that send_snapshot and send_stream hand out are whole, are the *)
(* latest one, and were published after the client began to wait.          *)
FeedRefinement == Feed!FeedSpec
=============================================================================
