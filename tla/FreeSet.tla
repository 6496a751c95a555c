---- MODULE FreeSet ----
(***************************************************************************)
(* What balloc and bfree promise (coh.386/fs2.c): a block is free or       *)
(* belongs to one file; an allocation gives out some free block, and fails *)
(* only when there is none.                                                *)
(***************************************************************************)
CONSTANT FsFiles

VARIABLES
  free,    \* the free blocks
  held,    \* held[f]: the blocks of file f
  enospc   \* did the last allocation fail?

FsAlloc(f) ==
  \/ \E b \in held'[f] \ held[f] :
       /\ b \in free
       /\ free' = free \ {b}
       /\ held' = [held EXCEPT ![f] = @ \cup {b}]
       /\ enospc' = FALSE
  \/ enospc' = TRUE /\ free = {} /\ UNCHANGED <<free, held>>

FsFree(f) ==
  \E b \in held[f] \ held'[f] :
    /\ b \notin free
    /\ held' = [held EXCEPT ![f] = @ \ {b}]
    /\ free' = free \cup {b}
    /\ UNCHANGED enospc

FsInit ==
  /\ \A f, g \in FsFiles : f # g => held[f] \cap held[g] = {}
  /\ \A f \in FsFiles : held[f] \cap free = {}
  /\ enospc = FALSE

FsNext == \E f \in FsFiles : FsAlloc(f) \/ FsFree(f)

FsSpec == FsInit /\ [][FsNext]_<<free, held, enospc>>
====
