------------------------------ MODULE MCStreamer ------------------------------
(* Streamer on small instances.                                            *)
EXTENDS StreamerInv, StreamerFeed, TLC

Symmetry == Permutations(Clients) \cup Permutations(Frames)
=============================================================================
