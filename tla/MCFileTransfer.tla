-------------------------- MODULE MCFileTransfer --------------------------
(* Instances of FileTransfer for TLC: two files of two chunks and of one.  *)
EXTENDS FileTransfer, TLC

CONSTANTS f1, f2, t1, p1, p2

MCFiles == {f1, f2}
MCChunks == (f1 :> 2) @@ (f2 :> 1)
MCPaths == {p1, p2}
DistinctNames == (f1 :> p1) @@ (f2 :> p2)
===========================================================================
