---- MODULE BufCache ----
(***************************************************************************)
(* The block buffer cache, coh.386/bio.c: bread, bclaim, bwrite, brelease, *)
(* bsync and bflush, called by processes, and biodone, called by the disk  *)
(* driver at interrupt level.  The contents of a block are a version       *)
(* number; latest[b] is the last version a process stored in block b.      *)
(*                                                                         *)
(* A process runs from one sleep to the next: it sleeps for a buffer gate, *)
(* for I/O (buffer_wait), for a free buffer (bufneed) and for a sync       *)
(* (bufsync).  While one process is between two sleeps (Running) no other  *)
(* moves, but interrupts come at any time: among others between bclaim's   *)
(* failed search of the buffers ("none") and its sleep.                    *)
(***************************************************************************)
EXTENDS Naturals, FiniteSets, FiniteSetsExt

CONSTANTS
  Procs,
  NBUF,      \* number of buffers; buf_list [0 .. NBUF - 1] is 1 .. NBUF
  Blocks,    \* the blocks of the device, positive numbers
  Uses,      \* Uses[p]: the blocks process p reads and writes
  Ops,       \* the operations the processes call
  IOErrors,  \* the requests the device may fail, of BREAD and BWRITE
  MaxVer,    \* bound on the versions of a block
  Intr,      \* the owner of a buffer given to interrupt level
  None       \* no owner

ASSUME BufAssumption ==
  /\ NBUF \in Nat \ {0}
  /\ Blocks \subseteq Nat \ {0}
  /\ Uses \in [Procs -> SUBSET Blocks]
  /\ Ops \subseteq {"read", "write", "claim", "super", "ahead", "sync", "flush"}
  /\ IOErrors \subseteq {"BREAD", "BWRITE"}
  /\ MaxVer \in Nat
  /\ {Intr, None} \cap Procs = {} /\ Intr # None

Bufs == 1 .. NBUF
NODEV == 0   \* the identity of a buffer that holds no block

VARIABLES
  bno,       \* bno[x]: b_dev and b_bno, the block x holds
  flag,      \* flag[x]: subset of {"NTP", "MOD", "ASY", "ERR"}
  req,       \* req[x]: "BREAD" or "BWRITE"
  iodone,    \* iodone[x]: "none", "sync_iodone" or "bflush_iodone"
  gate,      \* gate[x]: the process that locked x, Intr or None
  io,        \* the buffers that the driver works on
  body,      \* body[x]: the version x holds
  lru,       \* the LRU chain, firstbuf first
  hash,      \* the hash chains, newest entry first
  bufneed, bufsync,
  disk,      \* disk[b]: the version on the device
  latest,
  pc, op, blk, buf, idx, list,  \* where each process is, and its locals
  goal       \* goal[p]: latest when the sync of p began

bufVars == <<bno, flag, req, iodone, body>>
chains == <<lru, hash>>
procVars == <<pc, op, blk, buf, idx, list, goal>>
vars == <<bno, flag, req, iodone, gate, io, body, lru, hash, bufneed, bufsync,
          disk, latest, pc, op, blk, buf, idx, list, goal>>

\* bufinit ()
Init ==
  /\ bno = [x \in Bufs |-> NODEV]
  /\ flag = [x \in Bufs |-> {}]
  /\ req = [x \in Bufs |-> "BWRITE"]
  /\ iodone = [x \in Bufs |-> "none"]
  /\ gate = [x \in Bufs |-> None]
  /\ io = {}
  /\ body = [x \in Bufs |-> 0]
  /\ lru = [i \in Bufs |-> i]
  /\ hash = [i \in Bufs |-> NBUF + 1 - i]
  /\ bufneed = FALSE
  /\ bufsync = 0
  /\ disk = [b \in Blocks |-> 0]
  /\ latest = [b \in Blocks |-> 0]
  /\ pc = [p \in Procs |-> "user"]
  /\ op = [p \in Procs |-> "none"]
  /\ blk = [p \in Procs |-> NODEV]
  /\ buf = [p \in Procs |-> 0]
  /\ idx = [p \in Procs |-> 0]
  /\ list = [p \in Procs |-> {}]
  /\ goal = [p \in Procs |-> latest]

----------------------------------------------------------------------------
\* The points a process passes without sleeping: no other process runs then.
Running == {"find", "scan", "none", "hold", "build", "write"}

\* Process p runs, or gets to run, and is at one of the given points.
At(p, points) ==
  /\ pc[p] \in points
  /\ \A q \in Procs \ {p} : pc[q] \notin Running

\* The chain s with x taken out and linked at its head.
ToFront(s, x) ==
  LET was == CHOOSE i \in DOMAIN s : s[i] = x IN
  [i \in DOMAIN s |-> IF i = 1 THEN x ELSE IF i <= was THEN s[i - 1] ELSE s[i]]

LRUupdate(x) == lru' = ToFront(lru, x)

\* The sleepers that unlock_block wakes: it resets bufneed and wakes all.
Woken(q) == IF pc[q] = "need" /\ bufneed THEN "rescan" ELSE pc[q]

\* unlock_block (x), the process p (if any) going on at "at".
UnlockBlock(x, p, at) ==
  /\ gate' = [gate EXCEPT ![x] = None]
  /\ bufneed' = FALSE
  /\ pc' = [q \in Procs |-> IF q = p THEN at ELSE Woken(q)]
  /\ idx' = [q \in Procs |-> IF pc[q] = "need" /\ bufneed THEN NBUF ELSE idx[q]]

Locals(p, o, b, x) ==
  /\ op' = [op EXCEPT ![p] = o]
  /\ blk' = [blk EXCEPT ![p] = b]
  /\ buf' = [buf EXCEPT ![p] = x]

Return(p) == Locals(p, "none", NODEV, 0)

----------------------------------------------------------------------------
\* A process calls into the cache.
Call(p, o, b) ==
  /\ At(p, {"user"})
  /\ o \in Ops
  /\ IF o \in {"sync", "flush"}
     THEN /\ b = NODEV
          /\ pc' = [pc EXCEPT ![p] = "build"]
          /\ idx' = [idx EXCEPT ![p] = 1]
          /\ list' = [list EXCEPT ![p] = {}]
          /\ goal' = [goal EXCEPT ![p] = latest]
     ELSE /\ b \in Uses[p]
          /\ o \in {"write", "claim", "super"} => latest[b] < MaxVer
          /\ pc' = [pc EXCEPT ![p] = "find"]
          /\ UNCHANGED <<idx, list, goal>>
  /\ Locals(p, o, b, 0)
  /\ UNCHANGED <<bufVars, gate, io, chains, bufneed, bufsync, disk, latest>>

\* Mutant of Cached: a buffer with a transfer in progress does not match.
CachedValid(b) == {i \in DOMAIN hash : bno[hash[i]] = b /\ "NTP" \notin flag[hash[i]]}

\* buffer_find: the first entry of the hash chain for the block.
Cached(b) == {i \in DOMAIN hash : bno[hash[i]] = b}
Found(b) == hash[CHOOSE i \in Cached(b) : \A j \in Cached(b) : i <= j]

\* The block is not in the cache: bclaim searches the LRU chain from its end.
FindMiss(p) ==
  /\ At(p, {"find"})
  /\ Cached(blk[p]) = {}
  /\ pc' = [pc EXCEPT ![p] = "scan"]
  /\ idx' = [idx EXCEPT ![p] = NBUF]
  /\ UNCHANGED <<bufVars, gate, io, chains, bufneed, bufsync, disk, latest,
                 op, blk, buf, list, goal>>

\* lock_block has to wait for the gate of the buffer found.
FindBusy(p) ==
  /\ At(p, {"find"}) /\ op[p] # "ahead"
  /\ Cached(blk[p]) # {} /\ gate[Found(blk[p])] # None
  /\ pc' = [pc EXCEPT ![p] = "gate"]
  /\ buf' = [buf EXCEPT ![p] = Found(blk[p])]
  /\ UNCHANGED <<bufVars, gate, io, chains, bufneed, bufsync, disk, latest,
                 op, blk, idx, list, goal>>

(***************************************************************************)
(* bread, given the locked buffer x that bclaim returned with flags fl: a  *)
(* valid buffer is the result; another one is read first.  The callers     *)
(* that only claim the buffer take it as it is.  An asynchronous read that *)
(* had to claim synchronously either returns a valid buffer, which its     *)
(* caller ignores, or gives the buffer to interrupt level.                 *)
(***************************************************************************)
BreadClaimed(p, x, fl, r) ==
  LET start == "NTP" \in fl /\ op[p] \notin {"claim", "super"}
      async == op[p] \in {"ahead", "ahead_sync"} IN
  /\ flag' = [flag EXCEPT ![x] = IF start /\ async THEN fl \cup {"ASY"} ELSE fl]
  /\ req' = [req EXCEPT ![x] = IF start THEN "BREAD" ELSE r]
  /\ io' = IF start THEN io \cup {x} ELSE io
  /\ gate' = [gate EXCEPT ![x] = IF start /\ async THEN Intr ELSE p]
  /\ pc' = [pc EXCEPT ![p] = CASE async -> "user"
                               [] start /\ ~async -> "iowait"
                               [] OTHER -> "hold"]
  /\ IF async THEN Return(p)
     ELSE buf' = [buf EXCEPT ![p] = x] /\ UNCHANGED <<op, blk>>

\* bclaim of a cached block, once lock_block has its gate.
ClaimCached(p, x) ==
  /\ BreadClaimed(p, x, IF "ERR" \in flag[x]
                        THEN (flag[x] \ {"ERR"}) \cup {"NTP"} ELSE flag[x],
                  "BWRITE")
  /\ LRUupdate(x)
  /\ UNCHANGED <<bno, iodone, body, hash, bufneed, bufsync, disk, latest,
                 idx, list, goal>>

\* Mutant of FindHit: bclaim takes the cached buffer without locking it.
FindHitUnlocked(p) ==
  /\ At(p, {"find"}) /\ op[p] # "ahead"
  /\ Cached(blk[p]) # {}
  /\ ClaimCached(p, Found(blk[p]))

FindHit(p) ==
  /\ At(p, {"find"}) /\ op[p] # "ahead"
  /\ Cached(blk[p]) # {} /\ gate[Found(blk[p])] = None
  /\ ClaimCached(p, Found(blk[p]))

\* The gate came free: lock_block checks that the buffer is still the block's.
GateFree(p) ==
  /\ At(p, {"gate"})
  /\ gate[buf[p]] = None
  /\ IF bno[buf[p]] = blk[p]
     THEN ClaimCached(p, buf[p])
     ELSE /\ pc' = [pc EXCEPT ![p] = "find"]
          /\ buf' = [buf EXCEPT ![p] = 0]
          /\ UNCHANGED <<bufVars, gate, io, chains, bufneed, bufsync, disk,
                         latest, op, blk, idx, list, goal>>

(***************************************************************************)
(* bread (BUF_ASYNC) of a cached block: nothing to do when it is valid or  *)
(* on its way; otherwise lock_block, which may sleep.                      *)
(***************************************************************************)
AheadHit(p) ==
  LET x == Found(blk[p]) IN
  /\ At(p, {"find"}) /\ op[p] = "ahead"
  /\ Cached(blk[p]) # {}
  /\ LRUupdate(x)
  /\ IF "NTP" \notin flag[x] \/ "ASY" \in flag[x]
     THEN pc' = [pc EXCEPT ![p] = "user"] /\ Return(p)
     ELSE /\ pc' = [pc EXCEPT ![p] = "ragate"]
          /\ buf' = [buf EXCEPT ![p] = x]
          /\ UNCHANGED <<op, blk>>
  /\ UNCHANGED <<bufVars, gate, io, hash, bufneed, bufsync, disk, latest,
                 idx, list, goal>>

AheadGate(p) ==
  LET x == buf[p] IN
  /\ At(p, {"ragate"})
  /\ gate[x] = None
  /\ IF bno[x] = blk[p]
     THEN /\ flag' = [flag EXCEPT ![x] = @ \cup {"ASY"}]
          /\ req' = [req EXCEPT ![x] = "BREAD"]
          /\ io' = io \cup {x}
          /\ gate' = [gate EXCEPT ![x] = Intr]
          /\ pc' = [pc EXCEPT ![p] = "user"]
          /\ Return(p)
          /\ UNCHANGED <<bno, iodone, body, chains, bufneed, bufsync, disk,
                         latest, idx, list, goal>>
     ELSE /\ pc' = [pc EXCEPT ![p] = "find"]
          /\ op' = [op EXCEPT ![p] = "ahead_sync"]
          /\ buf' = [buf EXCEPT ![p] = 0]
          /\ UNCHANGED <<bufVars, gate, io, chains, bufneed, bufsync, disk,
                         latest, blk, idx, list, goal>>

----------------------------------------------------------------------------
(***************************************************************************)
(* bclaim's search of the LRU chain, from position idx[p] to its front,    *)
(* for a buffer that is not locked.  A clean one is taken.  A dirty one    *)
(* makes bclaim start writing all dirty buffers and then go on with the    *)
(* buffer before it.                                                       *)
(***************************************************************************)
Free(p) == {i \in Bufs : i <= idx[p] /\ gate[lru[i]] = None}
Candidate(p) == lru[Max(Free(p))]

ScanTake(p) ==
  LET x == Candidate(p) IN
  /\ At(p, {"scan", "rescan"})
  /\ Free(p) # {} /\ "MOD" \notin flag[x]
  /\ BreadClaimed(p, x, {"NTP"}, "BWRITE")
  /\ bno' = [bno EXCEPT ![x] = blk[p]]
  /\ iodone' = [iodone EXCEPT ![x] = "none"]
  /\ LRUupdate(x)
  /\ hash' = ToFront(hash, x)
  /\ idx' = [idx EXCEPT ![p] = 0]
  /\ UNCHANGED <<body, bufneed, bufsync, disk, latest, list, goal>>

ScanDirty(p) ==
  /\ At(p, {"scan", "rescan"})
  /\ Free(p) # {} /\ "MOD" \in flag[Candidate(p)]
  /\ buf' = [buf EXCEPT ![p] = Candidate(p)]
  /\ pc' = [pc EXCEPT ![p] = "build"]
  /\ idx' = [idx EXCEPT ![p] = 1]
  /\ list' = [list EXCEPT ![p] = {}]
  /\ UNCHANGED <<bufVars, gate, io, chains, bufneed, bufsync, disk, latest,
                 op, blk, goal>>

\* Nothing found; the interrupt level is not raised yet.
ScanFail(p) ==
  /\ At(p, {"scan", "rescan"})
  /\ Free(p) = {}
  /\ pc' = [pc EXCEPT ![p] = "none"]
  /\ UNCHANGED <<bufVars, gate, io, chains, bufneed, bufsync, disk, latest,
                 op, blk, buf, idx, list, goal>>

NeedSleep(p) ==
  /\ At(p, {"none"})
  /\ bufneed' = TRUE
  /\ pc' = [pc EXCEPT ![p] = "need"]
  /\ UNCHANGED <<bufVars, gate, io, chains, bufsync, disk, latest,
                 op, blk, buf, idx, list, goal>>

----------------------------------------------------------------------------
(***************************************************************************)
(* general_sync.  build_sync_list locks each buffer in turn, and lists the *)
(* dirty ones; buffers from idx[p] up to the next locked one are visited   *)
(* in one step.  bflush selects the buffers of its device, and finishes    *)
(* with the clean ones at once.                                            *)
(***************************************************************************)
Selected(p, x) == op[p] = "flush" => bno[x] # NODEV
Clean(p, x) == Selected(p, x) /\ flag[x] \cap {"NTP", "MOD"} = {}
Dirty(p, x) == Selected(p, x) /\ "NTP" \notin flag[x] /\ "MOD" \in flag[x]

\* bflush_finish for the buffers of S.
FlushFinish(p, S) ==
  IF op[p] = "flush"
  THEN bno' = [x \in Bufs |-> IF x \in S THEN NODEV ELSE bno[x]]
  ELSE UNCHANGED bno

FirstLockedSkip(S) == NBUF + 1   \* mutant of FirstLocked: locked ones passed over
FirstLocked(S) ==
  LET locked == {x \in S : gate[x] # None} IN
  IF locked = {} THEN NBUF + 1 ELSE Min(locked)

Build(p) ==
  LET end == FirstLocked({x \in Bufs : x >= idx[p]})
      visited == {x \in Bufs : idx[p] <= x /\ x < end}
      fin == {x \in visited : op[p] = "flush" /\ Clean(p, x)} IN
  /\ At(p, {"build", "buildwait"})
  /\ pc[p] = "buildwait" => gate[idx[p]] = None
  /\ list' = [list EXCEPT ![p] = @ \cup {x \in visited : Dirty(p, x)}]
  /\ FlushFinish(p, fin)
  /\ flag' = [x \in Bufs |-> IF x \in fin THEN {"NTP"} ELSE flag[x]]
  /\ idx' = [idx EXCEPT ![p] = end]
  /\ pc' = [pc EXCEPT ![p] = IF end > NBUF THEN "write" ELSE "buildwait"]
  /\ UNCHANGED <<req, iodone, gate, io, body, chains, bufneed, bufsync, disk,
                 latest, op, blk, buf, goal>>

(***************************************************************************)
(* The second loop takes the listed buffers in the order of their blocks,  *)
(* sleeping at the first locked one, and starts writing those that are     *)
(* still dirty.                                                            *)
(***************************************************************************)
Before(x, y) == bno[x] < bno[y] \/ (bno[x] = bno[y] /\ x < y)

Syncing(p) == op[p] \in {"sync", "flush"}

\* bufsync counts the buffers of S that p starts to write.
StartCountOnce(p, S) == IF Syncing(p) THEN 1 ELSE 0   \* mutant of StartCount
StartCount(p, S) == IF Syncing(p) THEN Cardinality(S) ELSE 0

WriteList(p) ==
  LET S == {x \in list[p] : \A y \in list[p] :
                              gate[y] # None => (y # x /\ Before(x, y))}
      start == {x \in S : Dirty(p, x) /\ "ERR" \notin flag[x]}
      fin == {x \in S : op[p] = "flush" /\ Clean(p, x) /\ "ERR" \notin flag[x]}
      done == list[p] = S IN
  /\ At(p, {"write", "writewait"})
  /\ pc[p] = "writewait" => S # {}
  /\ flag' = [x \in Bufs |->
       CASE x \in start /\ Syncing(p) -> (flag[x] \ {"ASY"}) \cup {"NTP"}
         [] x \in start /\ ~Syncing(p) -> flag[x] \cup {"ASY", "NTP"}
         [] x \in fin -> {"NTP"}
         [] OTHER -> flag[x]]
  /\ FlushFinish(p, fin)
  /\ req' = [x \in Bufs |-> IF x \in start THEN "BWRITE" ELSE req[x]]
  /\ iodone' = [x \in Bufs |->
       CASE x \in start /\ op[p] = "sync" -> "sync_iodone"
         [] x \in start /\ op[p] = "flush" -> "bflush_iodone"
         [] OTHER -> iodone[x]]
  /\ bufsync' = bufsync + StartCount(p, start)
  /\ gate' = [x \in Bufs |->
       CASE x \in start /\ Syncing(p) -> p
         [] x \in start /\ ~Syncing(p) -> Intr
         [] OTHER -> gate[x]]
  /\ io' = io \cup start
  /\ list' = [list EXCEPT ![p] = @ \ S]
  /\ pc' = [pc EXCEPT ![p] = CASE ~done -> "writewait"
                               [] done /\ Syncing(p) -> "syncwait"
                               [] OTHER -> "scan"]
  /\ idx' = [idx EXCEPT ![p] =
       IF done /\ ~Syncing(p)
       THEN (CHOOSE i \in Bufs : lru[i] = buf[p]) - 1 ELSE @]
  /\ UNCHANGED <<body, chains, bufneed, disk, latest, op, blk, buf, goal>>

SyncWait(p) ==
  /\ At(p, {"syncwait"})
  /\ bufsync = 0
  /\ pc' = [pc EXCEPT ![p] = "user"]
  /\ idx' = [idx EXCEPT ![p] = 0]
  /\ Return(p)
  /\ goal' = [goal EXCEPT ![p] = [b \in Blocks |-> 0]]
  /\ UNCHANGED <<bufVars, gate, io, chains, bufneed, bufsync, disk, latest,
                 list>>

----------------------------------------------------------------------------
\* Mutant of ReadDone: the error path forgets to release the buffer.
ReadDoneLeak(p) ==
  /\ At(p, {"iowait"})
  /\ "NTP" \notin flag[buf[p]]
  /\ IF "ERR" \in flag[buf[p]]
     THEN pc' = [pc EXCEPT ![p] = "user"] /\ Return(p)
     ELSE pc' = [pc EXCEPT ![p] = "hold"] /\ UNCHANGED <<op, blk, buf>>
  /\ UNCHANGED <<bufVars, gate, bufneed, idx, io, chains, bufsync, disk,
                 latest, list, goal>>

\* buffer_wait returns in bread: an error makes it release the buffer.
ReadDone(p) ==
  LET x == buf[p] IN
  /\ At(p, {"iowait"})
  /\ "NTP" \notin flag[x]
  /\ IF "ERR" \in flag[x]
     THEN /\ flag' = [flag EXCEPT ![x] = @ \ {"ERR"}]
          /\ bno' = [bno EXCEPT ![x] = NODEV]
          /\ UnlockBlock(x, p, "user")
          /\ Return(p)
     ELSE /\ pc' = [pc EXCEPT ![p] = "hold"]
          /\ UNCHANGED <<flag, bno, gate, bufneed, idx, op, blk, buf>>
  /\ UNCHANGED <<req, iodone, io, body, chains, bufsync, disk, latest,
                 list, goal>>

\* brelease (bp) of a buffer whose flags the caller made fl.
Release(p, fl) ==
  LET x == buf[p] IN
  /\ flag' = [flag EXCEPT ![x] = fl \ {"NTP", "ERR"}]
  /\ bno' = [bno EXCEPT ![x] = IF "ERR" \in fl THEN NODEV ELSE @]
  /\ UnlockBlock(x, p, "user")
  /\ Return(p)

\* The caller has read what it wanted.
UseRead(p) ==
  /\ At(p, {"hold"}) /\ op[p] = "read"
  /\ Release(p, flag[buf[p]])
  /\ UNCHANGED <<req, iodone, io, body, chains, bufsync, disk, latest,
                 list, goal>>

Store(p) ==
  /\ body' = [body EXCEPT ![buf[p]] = latest[blk[p]] + 1]
  /\ latest' = [latest EXCEPT ![blk[p]] = @ + 1]

\* Mutant of UseWrite: fwrite does not set BFMOD.
UseWriteClean(p) ==
  /\ At(p, {"hold"}) /\ op[p] = "write"
  /\ Store(p)
  /\ Release(p, flag[buf[p]])
  /\ UNCHANGED <<req, iodone, io, chains, bufsync, disk, list, goal>>

\* fwrite of part of a block: a delayed write.
UseWrite(p) ==
  /\ At(p, {"hold"}) /\ op[p] = "write"
  /\ Store(p)
  /\ Release(p, flag[buf[p]] \cup {"MOD"})
  /\ UNCHANGED <<req, iodone, io, chains, bufsync, disk, list, goal>>

(***************************************************************************)
(* buffer_write_start: fwrite of a whole block (BUF_ASYNC), or the super   *)
(* block (BUF_SYNC).                                                       *)
(***************************************************************************)
UseStart(p) ==
  LET x == buf[p] IN
  /\ At(p, {"hold"}) /\ op[p] \in {"claim", "super"}
  /\ Store(p)
  /\ req' = [req EXCEPT ![x] = "BWRITE"]
  /\ io' = io \cup {x}
  /\ IF op[p] = "claim"
     THEN /\ flag' = [flag EXCEPT ![x] = @ \cup {"MOD", "ASY", "NTP"}]
          /\ gate' = [gate EXCEPT ![x] = Intr]
          /\ pc' = [pc EXCEPT ![p] = "user"]
          /\ Return(p)
     ELSE /\ flag' = [flag EXCEPT ![x] = (@ \ {"ASY"}) \cup {"MOD", "NTP"}]
          /\ pc' = [pc EXCEPT ![p] = "wwait"]
          /\ UNCHANGED <<gate, op, blk, buf>>
  /\ UNCHANGED <<bno, iodone, chains, bufneed, bufsync, disk, idx, list, goal>>

WriteDone(p) ==
  /\ At(p, {"wwait"})
  /\ "NTP" \notin flag[buf[p]]
  /\ Release(p, flag[buf[p]])
  /\ UNCHANGED <<req, iodone, io, body, chains, bufsync, disk, latest,
                 list, goal>>

----------------------------------------------------------------------------
(***************************************************************************)
(* The device finished with buffer x and its driver calls biodone at       *)
(* interrupt level, after bioerror if the transfer failed.                 *)
(***************************************************************************)
Transfer(x, ok) ==
  IF req[x] = "BREAD"
  THEN /\ body' = [body EXCEPT ![x] = IF ok THEN disk[bno[x]] ELSE @]
       /\ UNCHANGED disk
  ELSE /\ disk' = IF ok THEN [disk EXCEPT ![bno[x]] = body[x]] ELSE disk
       /\ UNCHANGED body

biodone(x, ok) ==
  LET err == IF ok THEN flag[x] ELSE flag[x] \cup {"ERR"}
      fl == err \ (IF req[x] = "BWRITE" THEN {"NTP", "MOD"} ELSE {"NTP"}) IN
  /\ x \in io
  /\ ok \/ req[x] \in IOErrors
  /\ Transfer(x, ok)
  /\ io' = io \ {x}
  /\ bno' = [bno EXCEPT ![x] =
       IF "ERR" \in err \/ iodone[x] = "bflush_iodone" THEN NODEV ELSE @]
  /\ flag' = [flag EXCEPT ![x] =
       CASE iodone[x] = "bflush_iodone" -> {"NTP"}
         [] iodone[x] = "sync_iodone" -> fl
         [] iodone[x] = "none" -> fl \ {"ASY"}]
  /\ iodone' = [iodone EXCEPT ![x] = "none"]
  /\ bufsync' = IF iodone[x] = "none" THEN bufsync ELSE bufsync - 1
  /\ IF iodone[x] # "none" \/ "ASY" \in flag[x]
     THEN UnlockBlock(x, None, "user")
     ELSE UNCHANGED <<gate, bufneed, pc, idx>>
  /\ UNCHANGED <<req, chains, latest, op, blk, buf, list, goal>>

Next ==
  \/ \E p \in Procs :
       \/ \E o \in Ops, b \in Blocks \cup {NODEV} : Call(p, o, b)
       \/ FindMiss(p) \/ FindBusy(p) \/ FindHit(p) \/ GateFree(p)
       \/ AheadHit(p) \/ AheadGate(p)
       \/ ScanTake(p) \/ ScanDirty(p) \/ ScanFail(p) \/ NeedSleep(p)
       \/ Build(p) \/ WriteList(p) \/ SyncWait(p)
       \/ ReadDone(p) \/ UseRead(p) \/ UseWrite(p) \/ UseStart(p) \/ WriteDone(p)
  \/ \E x \in Bufs, ok \in BOOLEAN : biodone(x, ok)

Spec == Init /\ [][Next]_vars

----------------------------------------------------------------------------
\* Types of the variables.
TypeOK ==
  /\ bno \in [Bufs -> Blocks \cup {NODEV}]
  /\ flag \in [Bufs -> SUBSET {"NTP", "MOD", "ASY", "ERR"}]
  /\ req \in [Bufs -> {"BREAD", "BWRITE"}]
  /\ iodone \in [Bufs -> {"none", "sync_iodone", "bflush_iodone"}]
  /\ gate \in [Bufs -> Procs \cup {Intr, None}]
  /\ io \subseteq Bufs
  /\ body \in [Bufs -> Nat]
  /\ lru \in [Bufs -> Bufs] /\ hash \in [Bufs -> Bufs]
  /\ bufneed \in BOOLEAN /\ bufsync \in Nat
  /\ disk \in [Blocks -> Nat] /\ latest \in [Blocks -> Nat]
  /\ pc \in [Procs -> {"user", "find", "gate", "ragate", "scan", "none",
                       "need", "rescan", "build", "buildwait", "write",
                       "writewait", "syncwait", "iowait", "hold", "wwait"}]
  /\ blk \in [Procs -> Blocks \cup {NODEV}]
  /\ buf \in [Procs -> Bufs \cup {0}]
  /\ idx \in [Procs -> 0 .. NBUF + 1]
  /\ list \in [Procs -> SUBSET Bufs]

(***************************************************************************)
(* A block is in at most one buffer: "If the requested buffer is in the    *)
(* buffer cache, return a pointer to it" (bclaim).  True as long as each   *)
(* process uses blocks of its own, whatever is evicted, read ahead and     *)
(* written meanwhile.  Not an invariant where processes share blocks:      *)
(* bclaim does not search again after a sleep.                             *)
(***************************************************************************)
NoAlias == \A x, y \in Bufs : bno[x] = bno[y] /\ x # y => bno[x] = NODEV

(***************************************************************************)
(* What bread returns is what was last stored in the block, through        *)
(* evictions, delayed and asynchronous writes, syncs and read-ahead; and   *)
(* the caller alone has the buffer.                                        *)
(***************************************************************************)
Coherent ==
  \A p \in Procs : pc[p] = "hold" =>
    /\ gate[buf[p]] = p /\ bno[buf[p]] = blk[p] /\ buf[p] \notin io
    /\ op[p] \in {"read", "write"} => body[buf[p]] = latest[blk[p]]

(***************************************************************************)
(* Nothing stored is lost: the last version of a block is on the device or *)
(* in a buffer of that block that is still marked BFMOD.                   *)
(***************************************************************************)
NoLostUpdate ==
  \A b \in Blocks :
    \/ disk[b] = latest[b]
    \/ \E x \in Bufs : bno[x] = b /\ body[x] = latest[b] /\ "MOD" \in flag[x]

(***************************************************************************)
(* A locked buffer is being transferred or belongs to a process that is    *)
(* working on it, so it is unlocked in the end: no failed read, no write   *)
(* given to interrupt level and no sync leaves its gate locked.  Not an    *)
(* invariant with read-ahead of shared blocks, although bread says "Sync   *)
(* == 0 if asychronous, and NULL is returned": when lock_block finds the   *)
(* buffer changed, bread returns one that is locked (bio.c:1276), and      *)
(* fread drops it.                                                         *)
(***************************************************************************)
NoLeakedLock ==
  \A x \in Bufs : gate[x] # None =>
    \/ x \in io
    \/ \E p \in Procs : /\ gate[x] = p /\ buf[p] = x
                        /\ pc[p] \in {"hold", "iowait", "wwait"}

(***************************************************************************)
(* bufsync is the number of buffers that syncs are still writing, so the   *)
(* last sync_iodone wakes the processes asleep in general_sync.            *)
(***************************************************************************)
BufsyncExact == bufsync = Cardinality({x \in io : iodone[x] # "none"})

(***************************************************************************)
(* sync () returns only when every version stored before it was called is  *)
(* on the device.                                                          *)
(***************************************************************************)
SyncDurable ==
  [][\A p \in Procs : Syncing(p) /\ pc[p] # "user" /\ pc'[p] = "user"
       => \A b \in Blocks : disk'[b] >= goal[p][b]]_vars

(***************************************************************************)
(* unlock_block: "if anyone is waiting for a block on the free list to     *)
(* become available, wake them up".  Who sleeps on bufneed does so while   *)
(* some buffer is locked, whose unlock will wake it.  Not an invariant: an *)
(* interrupt may unlock the last buffer between the search and the sleep.  *)
(***************************************************************************)
NeedIsServed ==
  (\E p \in Procs : pc[p] = "need") => bufneed /\ \E x \in Bufs : gate[x] # None
====
