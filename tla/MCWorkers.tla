----------------------------- MODULE MCWorkers -----------------------------
(* PictureWorkers for TLC: folders of two entries, one of which is no file. *)
EXTENDS PictureWorkers

MCFolder == <<FALSE, TRUE>>
MCFolderLast == <<TRUE, FALSE>>
=============================================================================
