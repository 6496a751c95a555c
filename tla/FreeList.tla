---- MODULE FreeList ----
(***************************************************************************)
(* The free blocks of a file system: balloc, bfree, daddr_add, indfree     *)
(* (coh.386/fs2.c), itruncate (fs1.c) and the allocation in aread (fs3.c). *)
(*                                                                         *)
(* The superblock lists up to NICFREE free blocks; the first of them holds *)
(* the list that comes next, and so on.  balloc and bfree run with the     *)
(* free block gate locked, so each is one step; a truncation lets others   *)
(* in between two blocks.  The gate is a variable only as a duplicate leaves *)
(* it locked, when every later operation waits for it for ever.  A         *)
(* file here has one indirect block, and its inode stays locked during an  *)
(* operation.                                                              *)
(***************************************************************************)
EXTENDS Naturals, Sequences, FiniteSets, Functions

CONSTANTS
  FlFiles,      \* files
  FlFirst,      \* s_isize
  FlEnd,        \* s_fsize
  NICFREE,      \* entries of s_free
  NBN,          \* addresses in an indirect block
  t_sortblocks  \* are the free blocks kept sorted?

ASSUME FlAssumption ==
  /\ FlFirst \in Nat \ {0} /\ FlEnd \in Nat /\ FlFirst < FlEnd
  /\ NICFREE \in Nat \ {0} /\ NBN \in Nat \ {0}
  /\ t_sortblocks \in BOOLEAN

VARIABLES
  s_free,       \* s_free[1 .. s_nfree] of the superblock
  s_tfree,      \* total of free blocks
  blk,          \* blk[b]: the block numbers in b, for a link or an indirect block
  i_addr,       \* i_addr[f]: the indirect block of file f, or 0
  flFreeing,    \* flFreeing[f]: the blocks indfree has still to free
  u_error,      \* did the last balloc fail with ENOSPC?
  flLocked      \* did an operation leave the free block gate locked?

flVars == <<s_free, s_tfree, blk, i_addr, flFreeing, u_error, flLocked>>

Blocks == FlFirst .. FlEnd - 1
FlSize == FlEnd - FlFirst

\* A file system without files as repeated calls of bfree leave it, from
\* the highest block to the lowest.
Formatted[n \in 0 .. FlSize] ==
  IF n = 0 THEN [list |-> <<>>, blk |-> [b \in Blocks |-> <<>>]]
  ELSE LET prev == Formatted[n - 1]
           b == FlEnd - n
       IN  IF Len(prev.list) \in {0, NICFREE}
           THEN [list |-> <<b>>, blk |-> [prev.blk EXCEPT ![b] = prev.list]]
           ELSE [prev EXCEPT !.list = Append(@, b)]

FlInit ==
  /\ s_free = Formatted[FlSize].list
  /\ blk = Formatted[FlSize].blk
  /\ s_tfree = FlSize
  /\ i_addr = [f \in FlFiles |-> 0]
  /\ flFreeing = [f \in FlFiles |-> <<>>]
  /\ u_error = FALSE
  /\ flLocked = FALSE

Front(s) == SubSeq(s, 1, Len(s) - 1)
Last(s) == s[Len(s)]

(***************************************************************************)
(* daddr_add: block b goes to its place in the list s in descending order, *)
(* except for the first entry, the link.  The result is the list with the  *)
(* smallest block at its end, which is the one bfree goes on with; <<>>    *)
(* for a duplicate.                                                        *)
(***************************************************************************)
\* Mutant: the link is sorted with the others.
SortedLink(s, b) ==
  LET at == CHOOSE i \in 1 .. Len(s) + 1 :
              /\ i <= Len(s) => s[i] < b
              /\ \A j \in 1 .. i - 1 : s[j] > b
  IN  SubSeq(s, 1, at - 1) \o <<b>> \o SubSeq(s, at, Len(s))

daddr_add(s, b) ==
  IF b \in {s[i] : i \in 2 .. Len(s)} THEN <<>>
  ELSE LET at == CHOOSE i \in 2 .. Len(s) + 1 :
                   /\ i <= Len(s) => s[i] < b
                   /\ \A j \in 2 .. i - 1 : s[j] > b
       IN  SubSeq(s, 1, at - 1) \o <<b>> \o SubSeq(s, at, Len(s))

\* bfree puts b on the list s.  When that is empty or full it is first
\* written to b, which becomes the link of a new list.
Pushed(s, b) ==
  IF Len(s) \in {0, NICFREE}
  THEN [list |-> <<b>>, blk |-> [blk EXCEPT ![b] = s]]
  ELSE [list |-> Append(s, b), blk |-> [blk EXCEPT ![b] = <<>>]]

\* The rest of bfree after the range test; b is then the smallest block.  For
\* a duplicate it returns without unlocking the gate.
bfree(b) ==
  LET sorted == IF t_sortblocks /\ s_free # <<>> THEN daddr_add(s_free, b)
                ELSE Append(s_free, b)
      pushed == Pushed(Front(sorted), Last(sorted))
  IN  /\ ~flLocked
      /\ IF sorted = <<>> THEN flLocked' = TRUE /\ UNCHANGED <<s_free, s_tfree, blk>>
         ELSE /\ s_free' = pushed.list
              /\ blk' = pushed.blk
              /\ s_tfree' = s_tfree + 1
              /\ UNCHANGED flLocked

\* balloc without a block to give.
ballocFails ==
  /\ ~flLocked /\ s_free = <<>>
  /\ u_error' = TRUE
  /\ UNCHANGED <<s_free, s_tfree, flLocked>>

\* Mutant of Popped: the link is given out and its list forgotten.
PoppedEmpty(b) == IF Len(s_free) = 1 THEN <<>> ELSE Front(s_free)

\* s_free after balloc has taken b: the link gives its list first.
Popped(b) == IF Len(s_free) = 1 THEN blk[b] ELSE Front(s_free)

\* balloc gives b, which the caller clears and fills.
balloc(b) ==
  /\ ~flLocked /\ s_free # <<>> /\ b = Last(s_free)
  /\ s_free' = Popped(b)
  /\ s_tfree' = s_tfree - 1
  /\ u_error' = FALSE
  /\ UNCHANGED flLocked

\* aread allocates the indirect block of f.
areadIndirect(f) ==
  /\ i_addr[f] = 0
  /\ \/ /\ ballocFails
        /\ UNCHANGED <<i_addr, blk>>
     \/ \E b \in Blocks :
          /\ balloc(b)
          /\ i_addr' = [i_addr EXCEPT ![f] = b]
          /\ blk' = [blk EXCEPT ![b] = <<>>]
  /\ UNCHANGED flFreeing

\* aread allocates a block below it, and the caller fills that with data.
aread(f) ==
  /\ i_addr[f] # 0 /\ flFreeing[f] = <<>>
  /\ Len(blk[i_addr[f]]) < NBN
  /\ \/ ballocFails /\ UNCHANGED blk
     \/ \E b \in Blocks :
          /\ balloc(b)
          /\ blk' = [blk EXCEPT ![i_addr[f]] = Append(@, b), ![b] = <<>>]
  /\ UNCHANGED <<i_addr, flFreeing>>

Reverse(s) == [i \in 1 .. Len(s) |-> s[Len(s) + 1 - i]]

\* indfree copies the indirect block: what it frees, and in which order.
indfreeCopy(f) == Reverse(blk[i_addr[f]]) \o <<i_addr[f]>>

\* itruncate of a locked inode calls indfree.
itruncate(f) ==
  /\ i_addr[f] # 0 /\ flFreeing[f] = <<>>
  /\ flFreeing' = [flFreeing EXCEPT ![f] = indfreeCopy(f)]
  /\ UNCHANGED <<s_free, s_tfree, blk, i_addr, u_error, flLocked>>

\* indfree frees the next block; itruncate clears i_addr after the last.
indfree(f) ==
  /\ flFreeing[f] # <<>>
  /\ bfree(Head(flFreeing[f]))
  /\ flFreeing' = [flFreeing EXCEPT ![f] = Tail(@)]
  /\ i_addr' = [i_addr EXCEPT ![f] = IF Len(flFreeing[f]) = 1 THEN 0 ELSE @]
  /\ UNCHANGED u_error

FlNext ==
  \E f \in FlFiles : areadIndirect(f) \/ aread(f) \/ itruncate(f) \/ indfree(f)

FlSpec == FlInit /\ [][FlNext]_flVars

----
\* The lists of free blocks: the one of the superblock, and then the one in
\* the first block, the link, of the list before; more of them than there
\* are blocks only if the chain is a cycle.
Chain ==
  LET next[k \in 0 .. FlSize] ==
        IF k = 0 THEN s_free
        ELSE IF next[k - 1] = <<>> THEN <<>> ELSE blk[next[k - 1][1]]
  IN  next

\* Where a free block is listed.
Places(chain) == UNION {{k} \X DOMAIN chain[k] : k \in 0 .. FlSize}

\* Every block is listed once, and the last list has no link.
Proper(chain) ==
  /\ chain[FlSize] = <<>>
  /\ \A x, y \in Places(chain) : chain[x[1]][x[2]] = chain[y[1]][y[2]] => x = y

FreeBlocks == UNION {Range(Chain[k]) : k \in 0 .. FlSize}

\* The blocks of file f, freed ones no more.
BlocksOf(f) ==
  IF flFreeing[f] # <<>> THEN Range(flFreeing[f])
  ELSE IF i_addr[f] = 0 THEN {} ELSE {i_addr[f]} \cup Range(blk[i_addr[f]])

(***************************************************************************)
(* The chain of lists holds every block that no file has, each of them     *)
(* once, and s_tfree counts them: no block is lost, given to two files or  *)
(* to a file and the chain, through any order of growing and truncating,   *)
(* with links given out and made again.                                    *)
(***************************************************************************)
FlExact ==
  /\ FreeBlocks = Blocks \ UNION {BlocksOf(f) : f \in FlFiles}
  /\ Proper(Chain)
  /\ s_tfree = Cardinality(FreeBlocks)
  /\ \A f, g \in FlFiles : f # g => BlocksOf(f) \cap BlocksOf(g) = {}

(***************************************************************************)
(* "Given a fixed-size list in reverse rank order": the entries after the  *)
(* link descend, in the superblock and in every block of the chain, which  *)
(* the search for a duplicate in daddr_add relies on.                      *)
(***************************************************************************)
FlSorted ==
  LET descends(s) == \A i \in 2 .. Len(s) - 1 : s[i] > s[i + 1] IN
  t_sortblocks => \A k \in 0 .. FlSize : descends(Chain[k])

(***************************************************************************)
(* The chain of free blocks is exact and in order, and no bfree finds its  *)
(* block there already and leaves the gate locked.                         *)
(***************************************************************************)
FlSound == FlExact /\ FlSorted /\ ~flLocked

\* The abstract set of free blocks.
FreeSetOf == INSTANCE FreeSet WITH
  FsFiles <- FlFiles,
  free <- FreeBlocks,
  held <- [f \in FlFiles |-> BlocksOf(f)],
  enospc <- u_error

(***************************************************************************)
(* The chained list implements the set: a block is given to one file at a  *)
(* time, and balloc says "Out of space" only when nothing is free.         *)
(***************************************************************************)
FlImplementsSet == FreeSetOf!FsSpec
====
