------------------------------ MODULE HttpInput ------------------------------
(***************************************************************************)
(* input_http: the thread that connects to another mjpg_streamer, reads    *)
(* its multipart stream byte by byte and cuts the pictures out of it       *)
(* (mjpg-proxy.c, misc.c), composed with what send_stream of output_http   *)
(* writes into the connection (httpd.c).                                   *)
(*                                                                         *)
(* A byte is one of the letters below.  What tells letters apart is the    *)
(* boundary, and the two masks of is_crlf: 0x0D for the first byte of a    *)
(* pair and 0x0A for the second, which not only CR and LF pass.            *)
(***************************************************************************)
EXTENDS Naturals, Sequences

CONSTANTS StreamPics,  \* the pictures the other side sends, without boundary
          MaxParts,    \* bound: pictures per connection
          MaxLinks,    \* bound: connections
          NoShown

VARIABLES link,        \* state->sockfd: "closed", "open", or the thread "ended"
          wire,        \* bytes written by the server and not received yet
          sentPics,    \* pictures written into this connection
          xpart, last4, matched, xbuf,  \* struct extractor_state
          shown,       \* the picture last given to on_image_received
          nth,         \* how many were, in this connection
          xstop,       \* *state->should_stop
          linksLeft

extractor == <<xpart, last4, matched, xbuf>>
inputVars == <<link, wire, sentPics, extractor, shown, nth, xstop, linksLeft>>

Passes0D == {"CR", "O", "-"}   \* 0x0D, 0x4F, 0x2D
Passes0A == {"LF", "O", "K"}   \* 0x0A, 0x4F, 0x4B
BOUNDARY == <<"-", "-", "b">>
CRLF == <<"CR", "LF">>

(* The head of the response, "HTTP/1.0 200 OK" and further lines. *)
ResponseHead == <<"h", "O", "K">> \o CRLF \o <<"h">> \o CRLF \o CRLF \o BOUNDARY \o CRLF
PartHead == <<"h">> \o CRLF \o CRLF
Part(p) == PartHead \o p \o CRLF \o BOUNDARY \o CRLF

-----------------------------------------------------------------------------
is_crlf(b) == Len(b) = 2 /\ b[1] \in Passes0D /\ b[2] \in Passes0A

is_crlfcrlf(b) == Len(b) = 4 /\ is_crlf(SubSeq(b, 1, 2)) /\ is_crlf(SubSeq(b, 3, 4))

push_byte(b, c) == IF Len(b) < 4 THEN Append(b, c) ELSE Append(Tail(b), c)

(* search_pattern_compare; the mismatching byte is not tried again as the  *)
(* first of the pattern.                                                   *)
search_pattern_compare(m, c) == IF BOUNDARY[m + 1] = c THEN m + 1 ELSE 0

init_extractor_state ==
    xpart' = "header" /\ last4' = <<>> /\ matched' = 0 /\ xbuf' = <<>>

MutCut(b) == SubSeq(b, 1, Len(b) - Len(BOUNDARY))

(* "magic happens here": without the boundary and the CRLF before it. *)
Cut(b) == SubSeq(b, 1, Len(b) - (Len(BOUNDARY) + 2))

HeaderByte(c) ==
    /\ xpart = "header"
    /\ last4' = push_byte(last4, c)
    /\ xpart' = IF is_crlfcrlf(last4') THEN "content" ELSE "header"
    /\ UNCHANGED <<matched, xbuf, shown, nth>>

ContentByte(c) ==
    /\ xpart = "content"
    /\ IF search_pattern_compare(matched, c) = Len(BOUNDARY)
       THEN /\ shown' = Cut(Append(xbuf, c)) /\ nth' = nth + 1
            /\ init_extractor_state
       ELSE /\ matched' = search_pattern_compare(matched, c)
            /\ xbuf' = Append(xbuf, c)
            /\ UNCHANGED <<xpart, last4, shown, nth>>

(* extract_data *)
Receive ==
    /\ link = "open" /\ wire # <<>> /\ ~xstop
    /\ HeaderByte(Head(wire)) \/ ContentByte(Head(wire))
    /\ wire' = Tail(wire)
    /\ UNCHANGED <<link, sentPics, xstop, linksLeft>>

(* connect_and_stream reaches the server, sends the request, and the       *)
(* server answers.                                                         *)
connect_and_stream ==
    /\ link = "closed" /\ linksLeft > 0
    /\ link' = "open" /\ linksLeft' = linksLeft - 1
    /\ wire' = ResponseHead /\ sentPics' = <<>> /\ nth' = 0
    /\ init_extractor_state
    /\ UNCHANGED <<shown, xstop>>

(* send_stream writes the next picture.  Where its bytes are cut into      *)
(* packets does not matter to extract_data.                                *)
WritePart ==
    /\ link = "open" /\ wire = <<>> /\ Len(sentPics) < MaxParts
    /\ \E p \in StreamPics : wire' = Part(p) /\ sentPics' = Append(sentPics, p)
    /\ UNCHANGED <<link, extractor, shown, nth, xstop, linksLeft>>

(* recv returns nothing more (the server or the network went away) or      *)
(* should_stop is set: the socket is closed.                               *)
Hangup ==
    /\ link = "open"
    /\ link' = IF xstop THEN "ended" ELSE "closed"
    /\ wire' = <<>> /\ sentPics' = <<>> /\ nth' = 0
    /\ UNCHANGED <<extractor, shown, xstop, linksLeft>>

StopProxy ==
    /\ ~xstop /\ xstop' = TRUE
    /\ UNCHANGED <<link, wire, sentPics, extractor, shown, nth, linksLeft>>

InputInit ==
    /\ link = "closed" /\ wire = <<>> /\ sentPics = <<>>
    /\ xpart = "header" /\ last4 = <<>> /\ matched = 0 /\ xbuf = <<>>
    /\ shown = NoShown /\ nth = 0 /\ xstop = FALSE /\ linksLeft = MaxLinks

InputNext == Receive \/ connect_and_stream \/ WritePart \/ Hangup \/ StopProxy

InputSpec == InputInit /\ [][InputNext]_inputVars

-----------------------------------------------------------------------------
(* The state of the extractor, between two bytes. *)
InputTypeOK ==
    /\ link \in {"closed", "open", "ended"} /\ xpart \in {"header", "content"}
    /\ matched \in 0 .. Len(BOUNDARY) - 1 /\ Len(last4) <= 4
    /\ xpart = "header" => xbuf = <<>>
    /\ nth <= MaxParts + 1

(* From the second on, the pictures given to on_image_received are the     *)
(* pictures the other side sent in this connection, in order and to the    *)
(* byte: whatever the pictures hold that looks like a boundary or a line   *)
(* end, and whatever was left over from an earlier connection.             *)
PartsInOrder ==
    (link = "open" /\ nth > 1) => shown = sentPics[nth - 1]

(* When every byte was received, every picture was given to                *)
(* on_image_received: none waits for the next one.                         *)
NothingHeldBack ==
    (link = "open" /\ wire = <<>>) => nth = Len(sentPics) + 1

(* mjpg-proxy.c: "if boundary is detected, then callback for image         *)
(* processing is run": what the callback gets is a picture.                *)
OnlyPictures == shown \in StreamPics \cup {NoShown}

(* The pictures of a stream are cut out of it exactly and at once,         *)
(* wherever the reads cut the stream.                                      *)
PartsExtracted == InputTypeOK /\ PartsInOrder /\ NothingHeldBack
=============================================================================
