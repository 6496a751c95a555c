---- MODULE MCGate ----
(* Gate with one gate of each kind: a counted one, the inode of a file,    *)
(* and a buffer that is locked below it and handed to interrupt level.     *)
EXTENDS Gate, TLC

CONSTANTS p1, p2, p3, inode, buffer

MCProcs == {p1, p2, p3}
MCGates == {inode, buffer}
MCCounted == {inode}
MCIntrGates == {buffer}
MCRank == inode :> 1 @@ buffer :> 2
====
