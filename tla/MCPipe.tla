---- MODULE MCPipe ----
(* Pipe with three processes: a pipe shared through fork, and a FIFO.      *)
EXTENDS Pipe, TLC

CONSTANTS p1, p2, p3, r1, r2, w1, w2, rw

MCPipeMode == r1 :> "r" @@ w1 :> "w"
MCFifoMode == r1 :> "r" @@ r2 :> "r" @@ w1 :> "w"
MCRwMode == r1 :> "r" @@ w1 :> "w" @@ rw :> "rw"
\* Processes that are treated alike may be exchanged.
Symm == Permutations(Procs \ (MaySignal \cup MayFault \cup Pollers))
====
