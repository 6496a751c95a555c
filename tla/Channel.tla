---- MODULE Channel ----
(***************************************************************************)
(* What a pipe promises (coh.386/pipe.c): the bytes written come out once  *)
(* and in the order written, never more than its capacity is under way, a  *)
(* byte is accepted only while somebody may read it, and the bytes left    *)
(* over are dropped with the last close and at no other time.  An open ()  *)
(* that is interrupted leaves as if it had never come.                     *)
(***************************************************************************)
EXTENDS Naturals, Sequences

CONSTANTS
  Ends,       \* the ends processes may open,
  ReadEnds,   \* those of them that read
  Capacity

VARIABLES
  opening, open,   \* ends whose open () waits, and ends in use
  queue,           \* the bytes under way, numbered in the order written
  sent             \* the number of the next byte

ChVars == <<opening, open, queue, sent>>

ChInit ==
  /\ opening = {} /\ open \subseteq Ends
  /\ queue = << >> /\ sent = 0

StartOpen(e) ==
  /\ e \notin opening \cup open
  /\ opening' = opening \cup {e}
  /\ UNCHANGED <<open, queue, sent>>

Open(e) ==
  /\ e \notin open
  /\ opening' = opening \ {e} /\ open' = open \cup {e}
  /\ UNCHANGED <<queue, sent>>

Abandon(e) ==
  /\ e \in opening
  /\ opening' = opening \ {e}
  /\ UNCHANGED <<open, queue, sent>>

Close(e) ==
  /\ e \in open
  /\ open' = open \ {e}
  /\ queue' = IF opening \cup open' = {} THEN << >> ELSE queue
  /\ UNCHANGED <<opening, sent>>

Put(k) ==
  /\ (opening \cup open) \cap ReadEnds # {}
  /\ Len(queue) + k <= Capacity
  /\ queue' = queue \o [i \in 1 .. k |-> sent + i - 1]
  /\ sent' = sent + k
  /\ UNCHANGED <<opening, open>>

Get(k) ==
  /\ k <= Len(queue)
  /\ queue' = SubSeq(queue, k + 1, Len(queue))
  /\ UNCHANGED <<opening, open, sent>>

ChNext ==
  \/ \E e \in Ends : StartOpen(e) \/ Open(e) \/ Abandon(e) \/ Close(e)
  \/ \E k \in 1 .. Capacity : Put(k) \/ Get(k)

ChSpec == ChInit /\ [][ChNext]_ChVars
====
