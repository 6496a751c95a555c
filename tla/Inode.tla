---- MODULE Inode ----
(***************************************************************************)
(* Inodes in memory and on disk: inode_find, iattach, idetach, icopydm,    *)
(* icopymd, isync, imake (coh.386/fs1.c), ialloc, ifree (fs2.c), called    *)
(* for open, creat, close and unlink.                                      *)
(*                                                                         *)
(* The kernel is not preempted: a step runs from one sleep to the next.    *)
(* Sleeps are the wait for an inode, a directory or the free inode gate,   *)
(* and a read of an inode block.  Regular files of one writable device, in *)
(* directories that stay in memory; disk errors are left out.  i_lrt is    *)
(* kept as a rank, each use later than the one before.                     *)
(***************************************************************************)
EXTENDS Naturals, Integers, Sequences, FiniteSets, Functions

CONSTANTS
  InProcs,     \* processes
  InSlots,     \* entries of inode_table: 1 .. n
  InInos,      \* inode numbers
  InOpens,     \* pairs <<p, n>>: process p opens name n,
  InCreats,    \* creates it,
  InUnlinks,   \* and unlinks it
  InDir,       \* InDir[n]: the directory of name n
  NICINOD,     \* entries of s_inode
  InListed,    \* the inodes s_inode starts with
  InNone       \* no process

ASSUME InAssumption ==
  /\ InInos \subseteq Nat \ {0} /\ InSlots \subseteq Nat \ {0}
  /\ IsFiniteSet(InInos) /\ IsFiniteSet(InSlots) /\ IsFiniteSet(InProcs)
  /\ NICINOD \in Nat \ {0}
  /\ InListed \in Seq(InInos) /\ Len(InListed) <= NICINOD
  /\ InNone \notin InProcs

AllNames == DOMAIN InDir
Dirs == Range(InDir)

VARIABLES
  inode,       \* inode_table: i_ino, i_refc, i_nlink, i_mode, i_flag (is any
               \* of IFACC, IFMOD, IFCRT set?), i_lrt, and the gate
  dinode,      \* the inodes on disk
  sb,          \* the superblock: s_inode, s_tinode, and its gate
  name,        \* name[n]: the inode number entered under n, or 0
  dirGate,     \* dirGate[d]: who holds the lock of directory d
  in,          \* in[p]: where p is, and its variables
  overflow     \* has "Inode table overflow" been printed?

inVars == <<inode, dinode, sb, name, dirGate, in, overflow>>

Idle == [pc |-> "idle", op |-> "none", name |-> InNone, ino |-> 0, ip |-> 0,
         copy |-> <<>>, unlock |-> TRUE, back |-> "idle"]

InInit ==
  /\ inode = [s \in InSlots |-> [ino |-> 0, refc |-> 0, nlink |-> 0,
                                 mode |-> FALSE, mod |-> FALSE, lrt |-> 0,
                                 gate |-> InNone]]
  /\ dinode = [i \in InInos |-> [mode |-> FALSE, nlink |-> 0]]
  /\ sb = [list |-> InListed, tinode |-> Cardinality(InInos), gate |-> InNone]
  /\ name = [n \in AllNames |-> 0]
  /\ dirGate = [d \in Dirs |-> InNone]
  /\ in = [p \in InProcs |-> Idle]
  /\ overflow = FALSE

\* p is at pc, and nobody else is between two sleeps.
At(p, pc) ==
  /\ in[p].pc = pc
  /\ \A q \in InProcs \ {p} : in[q].pc \notin {"iattach", "isync"}

\* p enters the kernel.  Bound: nobody does after the table has overflowed.
Enter(p) == At(p, "idle") /\ ~overflow

\* The table t with the i_lrt of slot s set to the time.
Recent(t, s) ==
  LET others == {t[u].lrt : u \in InSlots \ {s}} \ {0} IN
  [u \in InSlots |->
    [t[u] EXCEPT !.lrt = IF u = s THEN Cardinality(others) + 1
                         ELSE Cardinality({l \in others : l <= @})]]

Goto(p, pc) == in' = [in EXCEPT ![p].pc = pc]

\* p has slot s open and leaves the kernel.
Opened(p, s) == [Idle EXCEPT !.pc = "open", !.ip = s, !.ino = in[p].ino]

\* icopymd returns to its caller.
Back(p) ==
  CASE in[p].back = "open" -> Opened(p, in[p].ip)
    [] in[p].back = "idle" -> Idle
    [] in[p].back = "isync" -> [in[p] EXCEPT !.pc = "isync", !.copy = <<>>,
                                              !.unlock = TRUE, !.back = "idle"]

----
(***************************************************************************)
(* File names.  file_to_inode ends with the directory unlocked and goes on *)
(* to iattach; to create a file it keeps the directory locked.             *)
(***************************************************************************)
Found(p, op, n) ==
  in' = [in EXCEPT ![p] = [Idle EXCEPT !.pc = "iattach", !.op = op, !.ino = name[n]]]

open(p, n) ==
  /\ Enter(p) /\ <<p, n>> \in InOpens
  /\ dirGate[InDir[n]] = InNone
  /\ name[n] # 0
  /\ Found(p, "open", n)
  /\ UNCHANGED <<inode, dinode, sb, name, dirGate, overflow>>

creat(p, n) ==
  /\ Enter(p) /\ <<p, n>> \in InCreats
  /\ dirGate[InDir[n]] = InNone
  /\ name[n] = 0
  /\ dirGate' = [dirGate EXCEPT ![InDir[n]] = p]
  /\ in' = [in EXCEPT ![p] = [Idle EXCEPT !.pc = "ialloc", !.op = "creat", !.name = n]]
  /\ UNCHANGED <<inode, dinode, sb, name, overflow>>

\* do_unlink, up to its iattach: the entry is cleared first.
do_unlink(p, n) ==
  /\ Enter(p) /\ <<p, n>> \in InUnlinks
  /\ dirGate[InDir[n]] = InNone
  /\ name[n] # 0
  /\ name' = [name EXCEPT ![n] = 0]
  /\ Found(p, "unlink", n)
  /\ UNCHANGED <<inode, dinode, sb, dirGate, overflow>>

----
(***************************************************************************)
(* idetach of slot s of the table t, which p has locked: the last          *)
(* reference writes a changed or unlinked inode, and frees the latter.     *)
(***************************************************************************)
idetach(p, s, t) ==
  LET writes == t[s].refc = 1 /\ (t[s].mod \/ t[s].nlink = 0)
      frees == t[s].refc = 1 /\ t[s].nlink = 0
      u == [t[s] EXCEPT !.refc = @ - 1, !.mode = @ /\ ~frees,
                        !.lrt = IF frees THEN 0 ELSE @,
                        !.gate = IF writes THEN p ELSE InNone]
  IN
  /\ inode' = [t EXCEPT ![s] = u]
  /\ in' = [in EXCEPT ![p] = IF writes
              THEN [Idle EXCEPT !.pc = "icopymd", !.ino = u.ino, !.ip = s,
                                !.copy = [mode |-> u.mode, nlink |-> u.nlink]]
              ELSE Idle]

\* What the caller of iattach does with slot s of the table t, which it has
\* locked.
Attached(p, s, t) ==
  CASE in[p].op = "open" ->
         /\ inode' = [t EXCEPT ![s].gate = InNone]
         /\ in' = [in EXCEPT ![p] = Opened(p, s)]
    [] in[p].op = "unlink" ->
         idetach(p, s, [t EXCEPT ![s].nlink = IF @ > 0 THEN @ - 1 ELSE @, ![s].mod = TRUE])
    [] in[p].op = "creat" ->
         /\ inode' = [t EXCEPT ![s].gate = p]
         /\ in' = [in EXCEPT ![p].pc = "created", ![p].ip = s]

\* Mutant of Reattach: the reference is not counted.
ReattachUncounted(p, s) == Attached(p, s, Recent(inode, s))

\* iattach has found the inode in slot s.
Reattach(p, s) == Attached(p, s, Recent([inode EXCEPT ![s].refc = @ + 1], s))

\* inode_find: is the inode it has locked still unreferenced?
Reused(s) == inode[s].refc = 0

\* inode_find takes the slot s for the inode p looks for.
Claim(p, s) ==
  /\ inode' = Recent([inode EXCEPT ![s].ino = in[p].ino, ![s].refc = 1,
                                   ![s].gate = p], s)
  /\ in' = [in EXCEPT ![p].pc = "icopydm", ![p].ip = s]

\* The slot inode_find would use again: the first of the least recent ones.
Oldest ==
  LET unused == {s \in InSlots : inode[s].refc = 0}
      older(s, t) == inode[s].lrt < inode[t].lrt
  IN  {s \in unused : \A t \in unused : ~older(t, s) /\ (t < s => older(s, t))}

\* The first slot with the inode p looks for.
Match(p) ==
  LET same == {s \in InSlots : inode[s].ino = in[p].ino}
  IN  {s \in same : \A t \in same : s <= t}

\* inode_find goes through the table and meets the inode, or takes a slot;
\* either may be locked.
iattach(p) ==
  /\ At(p, "iattach")
  /\ \/ \E s \in Match(p) :
          /\ inode[s].gate = InNone
          /\ Reattach(p, s)
     \/ \E s \in Match(p) :
          /\ inode[s].gate # InNone
          /\ in' = [in EXCEPT ![p].pc = "iwait", ![p].ip = s]
          /\ UNCHANGED inode
     \/ \E s \in Oldest :
          /\ Match(p) = {} /\ inode[s].gate = InNone
          /\ Claim(p, s)
     \/ \E s \in Oldest :
          /\ Match(p) = {} /\ inode[s].gate # InNone
          /\ in' = [in EXCEPT ![p].pc = "fwait", ![p].ip = s]
          /\ UNCHANGED inode
  /\ UNCHANGED <<dinode, sb, name, dirGate, overflow>>

\* "Inode table overflow": ENFILE.  imake then lets go of the directory.
iattachFails(p) ==
  /\ At(p, "iattach")
  /\ Match(p) = {} /\ Oldest = {}
  /\ overflow' = TRUE
  /\ in' = [in EXCEPT ![p] = Idle]
  /\ dirGate' = [d \in Dirs |-> IF dirGate[d] = p THEN InNone ELSE dirGate[d]]
  /\ UNCHANGED <<inode, dinode, sb, name>>

\* iattach looks at the slot again when it has its lock.
SameInode(p, s) == inode[s].ino = in[p].ino

\* iattach gets the lock it has waited for.
iattachWoken(p) ==
  LET s == in[p].ip IN
  /\ At(p, "iwait")
  /\ inode[s].gate = InNone
  /\ IF SameInode(p, s)
     THEN Reattach(p, s)
     ELSE Goto(p, "iattach") /\ UNCHANGED inode
  /\ UNCHANGED <<dinode, sb, name, dirGate, overflow>>

\* inode_find gets the lock it has waited for.
inode_findWoken(p) ==
  LET s == in[p].ip IN
  /\ At(p, "fwait")
  /\ inode[s].gate = InNone
  /\ IF Reused(s) THEN Claim(p, s)
     ELSE inode' = Recent(inode, s) /\ Goto(p, "iattach")
  /\ UNCHANGED <<dinode, sb, name, dirGate, overflow>>

\* icopydm has read the inode.
icopydm(p) ==
  LET s == in[p].ip
      d == dinode[in[p].ino]
  IN
  /\ At(p, "icopydm")
  /\ Attached(p, s, [inode EXCEPT ![s].mode = d.mode, ![s].nlink = d.nlink,
                                  ![s].mod = FALSE])
  /\ UNCHANGED <<dinode, sb, name, dirGate, overflow>>

----
(***************************************************************************)
(* ialloc and imake.                                                       *)
(***************************************************************************)
\* An inode is taken off the list; p goes on to iattach.
Take(p, list) ==
  /\ sb' = [list |-> SubSeq(list, 1, Len(list) - 1),
            tinode |-> sb.tinode - 1, gate |-> InNone]
  /\ in' = [in EXCEPT ![p].pc = "iattach", ![p].ino = list[Len(list)], ![p].ip = 0]

ialloc(p) ==
  /\ At(p, "ialloc")
  /\ sb.gate = InNone
  /\ \/ sb.list # <<>> /\ Take(p, sb.list)
     \/ /\ sb.list = <<>>
        /\ sb' = [sb EXCEPT !.gate = p]
        /\ in' = [in EXCEPT ![p].pc = "isync", ![p].ip = 0]
  /\ UNCHANGED <<inode, dinode, name, dirGate, overflow>>

\* The first NICINOD inodes that are free on disk, in order.
FreeOnDisk ==
  LET free == {i \in InInos : ~dinode[i].mode}
      first == {i \in free : Cardinality({j \in free : j < i}) < NICINOD}
  IN  [k \in 1 .. Cardinality(first) |->
         CHOOSE i \in first : Cardinality({j \in first : j < i}) = k - 1]

\* The list is filled from the disk after isync.  With nothing free: ENOSPC.
iallocRefill(p) ==
  /\ At(p, "scan")
  /\ \/ /\ FreeOnDisk # <<>>
        /\ Take(p, FreeOnDisk)
        /\ UNCHANGED dirGate
     \/ /\ FreeOnDisk = <<>>
        /\ sb' = [list |-> <<>>, tinode |-> 0, gate |-> InNone]
        /\ in' = [in EXCEPT ![p] = Idle]
        /\ dirGate' = [dirGate EXCEPT ![InDir[in[p].name]] = InNone]
  /\ UNCHANGED <<inode, dinode, name, overflow>>

\* Is the inode from the list in use after all?
Busy(s) == inode[s].mode

\* "Inode %u busy": ialloc gives it back and tries the next one.
iallocBusy(p) ==
  LET s == in[p].ip IN
  /\ At(p, "created")
  /\ Busy(s)
  /\ inode' = [inode EXCEPT ![s].refc = @ - 1, ![s].gate = InNone]
  /\ in' = [in EXCEPT ![p].pc = "busy", ![p].ip = 0, ![p].ino = 0]
  /\ UNCHANGED <<dinode, sb, name, dirGate, overflow>>

\* The total after an inode that was busy.
Recounted == [sb EXCEPT !.tinode = @ + 1]

iallocRecount(p) ==
  /\ At(p, "busy")
  /\ sb.gate = InNone
  /\ sb' = Recounted
  /\ Goto(p, "ialloc")
  /\ UNCHANGED <<inode, dinode, name, dirGate, overflow>>

\* imake fills the inode, enters the name and calls icopymd.
imake(p) ==
  LET s == in[p].ip IN
  /\ At(p, "created")
  /\ ~Busy(s)
  /\ inode' = [inode EXCEPT ![s].mode = TRUE, ![s].nlink = 1, ![s].mod = TRUE]
  /\ name' = [name EXCEPT ![in[p].name] = inode[s].ino]
  /\ in' = [in EXCEPT ![p].pc = "icopymd", ![p].back = "open", ![p].unlock = TRUE,
                      ![p].copy = [mode |-> TRUE, nlink |-> 1]]
  /\ UNCHANGED <<dinode, sb, dirGate, overflow>>

----
(***************************************************************************)
(* icopymd has the block: it writes what it copied before, and frees an    *)
(* inode without references and links.  Then back to imake, idetach or     *)
(* isync, which unlocks the inode if it has locked it.                     *)
(***************************************************************************)
icopymd(p) ==
  LET s == in[p].ip
      frees == inode[s].refc = 0 /\ inode[s].nlink = 0
      unlocks == ~frees /\ in[p].unlock
  IN
  /\ At(p, "icopymd")
  /\ dinode' = [dinode EXCEPT ![in[p].ino] = in[p].copy]
  /\ inode' = [inode EXCEPT ![s].mod = FALSE,
                            ![s].gate = IF unlocks THEN InNone ELSE @]
  /\ in' = [in EXCEPT ![p] = IF frees THEN [@ EXCEPT !.pc = "ifree"] ELSE Back(p)]
  /\ dirGate' = [d \in Dirs |-> IF dirGate[d] = p /\ in[p].back = "open"
                                THEN InNone ELSE dirGate[d]]
  /\ UNCHANGED <<sb, name, overflow>>

\* ifree lists the inode if there is room, and counts it.
Freed(i) ==
  [sb EXCEPT !.tinode = @ + 1,
             !.list = IF Len(@) < NICINOD THEN Append(@, i) ELSE @]

ifree(p) ==
  /\ At(p, "ifree")
  /\ sb.gate = InNone
  /\ sb' = Freed(in[p].ino)
  /\ inode' = [inode EXCEPT ![in[p].ip].gate = IF in[p].unlock THEN InNone ELSE @]
  /\ in' = [in EXCEPT ![p] = Back(p)]
  /\ UNCHANGED <<dinode, name, dirGate, overflow>>

\* The last close of a file: iclose.
iclose(p) ==
  LET s == in[p].ip IN
  /\ At(p, "open")
  /\ inode[s].gate = InNone
  /\ idetach(p, s, inode)
  /\ UNCHANGED <<dinode, sb, name, dirGate, overflow>>

----
(***************************************************************************)
(* isync goes on with the slots after ip.  It takes the lock of an inode   *)
(* only if nobody has it, and copies the inode in either case.             *)
(***************************************************************************)
isync(p) ==
  LET dirty == {s \in InSlots : s > in[p].ip /\ inode[s].refc # 0 /\ inode[s].mod} IN
  /\ At(p, "isync")
  /\ \/ \E s \in dirty :
          /\ \A t \in dirty : s <= t
          /\ inode' = [inode EXCEPT ![s].gate = IF @ = InNone THEN p ELSE @]
          /\ in' = [in EXCEPT ![p].pc = "icopymd", ![p].back = "isync",
                              ![p].ino = inode[s].ino, ![p].ip = s,
                              ![p].unlock = inode[s].gate = InNone,
                              ![p].copy = [mode |-> inode[s].mode, nlink |-> inode[s].nlink]]
     \/ /\ dirty = {}
        /\ Goto(p, "scan")
        /\ UNCHANGED inode
  /\ UNCHANGED <<dinode, sb, name, dirGate, overflow>>

InNext ==
  \E p \in InProcs :
    \/ \E n \in AllNames : open(p, n) \/ creat(p, n) \/ do_unlink(p, n)
    \/ iattach(p) \/ iattachFails(p) \/ iattachWoken(p) \/ inode_findWoken(p)
    \/ icopydm(p) \/ ialloc(p) \/ iallocRefill(p)
    \/ iallocBusy(p) \/ iallocRecount(p) \/ imake(p)
    \/ icopymd(p) \/ ifree(p) \/ iclose(p)
    \/ isync(p)

InSpec == InInit /\ [][InNext]_inVars

----
\* p holds a reference to slot s.
Refers(p, s) ==
  /\ in[p].ip = s
  /\ \/ in[p].pc \in {"icopydm", "created", "open"}
     \/ in[p].pc = "icopymd" /\ in[p].back = "open"

(***************************************************************************)
(* i_refc counts the references, and a slot that is referenced holds the   *)
(* inode that was asked for, whatever happened while its lock was waited   *)
(* for.                                                                    *)
(***************************************************************************)
InRefs ==
  \A s \in InSlots :
    /\ inode[s].refc = Cardinality({p \in InProcs : Refers(p, s)})
    /\ \A p \in InProcs : Refers(p, s) => inode[s].ino = in[p].ino

(***************************************************************************)
(* An inode is in memory once.                                             *)
(***************************************************************************)
InOnce ==
  \A s, t \in InSlots :
    inode[s].ino = inode[t].ino /\ inode[s].refc > 0 /\ inode[t].refc > 0 => s = t

\* Nobody is in the kernel.
Quiet == \A p \in InProcs : in[p].pc \in {"idle", "open"}

\* The inode as programs see it: in memory if it is there, else on disk.
Current(i) ==
  IF \E s \in InSlots : inode[s].ino = i
  THEN inode[CHOOSE s \in InSlots : inode[s].ino = i /\ \A t \in InSlots : inode[t].ino = i => s <= t]
  ELSE dinode[i]

(***************************************************************************)
(* "Total free inodes": s_tinode is the number of inodes without a mode,   *)
(* although inodes of the list may turn out to be busy, may be on it       *)
(* twice, and do not all fit.                                              *)
(***************************************************************************)
InTotal ==
  Quiet /\ ~overflow =>
    sb.tinode = Cardinality({i \in InInos : ~Current(i).mode})

(***************************************************************************)
(* Names, link counts and modes agree: an inode has as many links as       *)
(* names, one at most, so ialloc gives no file the inode of another, and   *)
(* what a process has open is not freed under it.                          *)
(***************************************************************************)
InLinks ==
  Quiet /\ ~overflow =>
    \A i \in InInos :
      /\ Current(i).nlink = Cardinality({n \in AllNames : name[n] = i})
      /\ Current(i).nlink <= 1
      /\ \A p \in InProcs : (in[p].pc = "open" /\ in[p].ino = i) => Current(i).mode

(***************************************************************************)
(* Reference counts, the count of free inodes and the links of inodes stay *)
(* exact through every wait for a lock.                                    *)
(***************************************************************************)
InExact == InRefs /\ InTotal /\ InLinks
====
