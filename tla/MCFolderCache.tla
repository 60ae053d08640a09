--------------------------- MODULE MCFolderCache ---------------------------
(* Requests that change and requests that list the folders, two of each.    *)
EXTENDS FolderCache

CONSTANTS w1, w2, r1, r2, t1, t2
=============================================================================
