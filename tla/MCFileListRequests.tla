------------------------- MODULE MCFileListRequests -------------------------
(* Instances of FileListRequests for TLC: the callers are model values.      *)
EXTENDS FileListRequests
=============================================================================
