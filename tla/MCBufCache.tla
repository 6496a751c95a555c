---- MODULE MCBufCache ----
(* BufCache with two buffers, fewer than the blocks in use.                *)
EXTENDS BufCache, TLC

CONSTANTS p1, p2, p3

\* Each process works on blocks of its own, as inode gates make them do.
MCPrivate == p1 :> {1, 2} @@ p2 :> {3}
\* Blocks of the inode table are used by all.
MCShared == [p \in Procs |-> Blocks]
====
