---- MODULE BufCacheProofs ----
(***************************************************************************)
(* Proofs about the block buffer cache, for any number of processes,       *)
(* buffers and blocks and any set of operations.                           *)
(*                                                                         *)
(* Locks: the owner of a buffer has it alone, bufsync is exact, and        *)
(* (without read-ahead, which leaves locks behind) every locked buffer is  *)
(* unlocked in the end.                                                    *)
(*                                                                         *)
(* Contents, when each process uses blocks of its own and no write fails:  *)
(* a block is in one buffer, bread returns its last version, no version is *)
(* lost, and a sync returns with everything stored before it on the device.*)
(***************************************************************************)
EXTENDS BufCache, FiniteSetTheorems, WellFoundedInduction, TLAPS

\* A set of positions has a least and a greatest member.
LEMMA Least ==
  ASSUME NEW S, S \subseteq Nat, S # {}
  PROVE  \E x \in S : \A y \in S : x <= y
<1>1. IsWellFoundedOn(OpToRel(<, Nat), Nat)
  BY NatLessThanWellFounded
<1>2. PICK x \in S : \A y \in S : ~ (<<y, x>> \in OpToRel(<, Nat))
  BY <1>1, WFMin
<1>3. \A y \in S : y < x => <<y, x>> \in OpToRel(<, Nat)
  BY DEF OpToRel
<1>4. \A y \in S : x \in Nat /\ y \in Nat /\ ~ (y < x)
  BY <1>2, <1>3
<1>5. \A y \in S : x <= y
  BY <1>4
<1> QED BY <1>5

LEMMA MaxIn ==
  ASSUME NEW S, S \subseteq Bufs, S # {}
  PROVE  Max(S) \in S
<1> USE BufAssumption DEF Bufs
<1> DEFINE T == {n \in Nat : \E y \in S : n = NBUF - y}
<1>1. \A y \in S : y \in Nat /\ NBUF - y \in Nat /\ NBUF - y \in T
  OBVIOUS
<1>2. T \subseteq Nat /\ T # {}
  BY <1>1
<1>3. PICK t \in T : \A u \in T : t <= u
  BY <1>2, Least
<1>4. PICK x \in S : t = NBUF - x
  OBVIOUS
<1>5. \A y \in S : NBUF - x <= NBUF - y
  BY <1>1, <1>3, <1>4
<1>6. \A y \in S : x >= y
  BY <1>1, <1>5
<1> QED BY <1>6 DEF Max

----------------------------------------------------------------------------
\* The types the locks need.
LockTypes ==
  /\ flag \in [Bufs -> SUBSET {"NTP", "MOD", "ASY", "ERR"}]
  /\ iodone \in [Bufs -> {"none", "sync_iodone", "bflush_iodone"}]
  /\ gate \in [Bufs -> Procs \cup {Intr, None}]
  /\ io \subseteq Bufs
  /\ lru \in [Bufs -> Bufs] /\ hash \in [Bufs -> Bufs]
  /\ DOMAIN bno = Bufs /\ DOMAIN op = Procs
  /\ pc \in [Procs -> {"user", "find", "gate", "ragate", "scan", "none",
                       "need", "rescan", "build", "buildwait", "write",
                       "writewait", "syncwait", "iowait", "hold", "wwait"}]
  /\ buf \in [Procs -> Bufs \cup {0}]
  /\ list \in [Procs -> SUBSET Bufs]

\* The points where a process has a buffer locked.
Owning == {"hold", "iowait", "wwait"}

\* A process that works on a buffer has its gate, and no sync's iodone will
\* unlock it; once the caller has the buffer the driver has finished with it.
Owned ==
  \A p \in Procs :
    /\ pc[p] \in {"gate", "ragate"} => buf[p] \in Bufs
    /\ pc[p] \in Owning => /\ buf[p] \in Bufs
                           /\ gate[buf[p]] = p
                           /\ iodone[buf[p]] = "none"
    /\ pc[p] = "hold" => buf[p] \notin io

\* The driver works on locked buffers only; those a process waits for are BFNTP.
Transfers == \A x \in io : gate[x] # None /\ (gate[x] \in Procs => "NTP" \in flag[x])

\* A function in b_iodone belongs to a sync whose transfer is under way.
Counted == \A x \in Bufs : iodone[x] # "none" => x \in io /\ gate[x] \in Procs

\* BFASY marks the buffers given to interrupt level.
Async == \A x \in Bufs : "ASY" \in flag[x] => x \in io /\ gate[x] = Intr

LockInv == LockTypes /\ Owned /\ Transfers /\ Counted /\ Async

\* Without read-ahead, a locked buffer has an owner or biodone will unlock it.
NoAhead == "ahead" \notin Ops

OwnedBy(x, p) == gate[x] = p /\ buf[p] = x /\ pc[p] \in Owning

Unlocked ==
  /\ \A p \in Procs : op[p] \notin {"ahead", "ahead_sync"} /\ pc[p] # "ragate"
  /\ \A x \in io : "NTP" \in flag[x]
  /\ \A x \in Bufs : gate[x] # None =>
       \/ x \in io /\ (iodone[x] # "none" \/ "ASY" \in flag[x])
       \/ \E p \in Procs : OwnedBy(x, p)

----------------------------------------------------------------------------
\* The buffers that the searches return.
LEMMA Searches ==
  ASSUME LockTypes
  PROVE  /\ \A b : Cached(b) # {} => Found(b) \in Bufs
         /\ \A p : Free(p) # {} => Candidate(p) \in Bufs /\ gate[Candidate(p)] = None
         /\ \A x \in Bufs : /\ ToFront(lru, x) \in [Bufs -> Bufs]
                            /\ ToFront(hash, x) \in [Bufs -> Bufs]
<1> USE BufAssumption
<1>1. ASSUME NEW b, Cached(b) # {} PROVE Found(b) \in Bufs
  <2>1. DOMAIN hash = Bufs
    BY DEF LockTypes
  <2>2. Cached(b) \subseteq Bufs
    BY <2>1 DEF Cached
  <2>3. Cached(b) \subseteq Nat
    BY <2>2 DEF Bufs
  <2>4. \E i \in Cached(b) : \A j \in Cached(b) : i <= j
    BY <1>1, <2>3, Least
  <2> QED BY <2>2, <2>4 DEF Found, LockTypes
<1>2. ASSUME NEW p, Free(p) # {}
      PROVE  Candidate(p) \in Bufs /\ gate[Candidate(p)] = None
  <2>1. Free(p) \subseteq Bufs
    BY DEF Free
  <2>2. Max(Free(p)) \in Free(p)
    BY <1>2, <2>1, MaxIn
  <2> QED BY <2>2 DEF Candidate, Free, LockTypes
<1>3. ASSUME NEW s \in [Bufs -> Bufs], NEW x \in Bufs
      PROVE  ToFront(s, x) \in [Bufs -> Bufs]
  <2>1. \A i \in Bufs : i # 1 => i - 1 \in Bufs
    BY DEF Bufs
  <2>2. DOMAIN s = Bufs
    OBVIOUS
  <2> QED BY <2>1, <2>2 DEF ToFront
<1> QED BY <1>1, <1>2, <1>3 DEF LockTypes

\* bclaim gives an unlocked buffer x to p, or to interrupt level.
LEMMA Claimed ==
  ASSUME LockInv, NEW p \in Procs, NEW x \in Bufs, NEW fl, NEW r,
         gate[x] = None, fl \subseteq {"NTP", "MOD", "ERR"}, pc[p] \notin Owning,
         BreadClaimed(p, x, fl, r),
         iodone' = iodone \/ iodone' = [iodone EXCEPT ![x] = "none"],
         lru' \in [Bufs -> Bufs], hash' \in [Bufs -> Bufs],
         DOMAIN bno' = Bufs, list' = list
  PROVE  LockInv'
<1> DEFINE start == "NTP" \in fl /\ op[p] \notin {"claim", "super"}
           async == op[p] \in {"ahead", "ahead_sync"}
<1> USE BufAssumption DEF LockInv, LockTypes, Owned, Transfers, Counted, Async, Owning
<1>1. x \notin io /\ iodone[x] = "none" /\ iodone' = iodone
  BY DEF Bufs
<1>2. /\ flag' = [flag EXCEPT ![x] = IF start /\ async THEN fl \cup {"ASY"} ELSE fl]
      /\ io' = IF start THEN io \cup {x} ELSE io
      /\ gate' = [gate EXCEPT ![x] = IF start /\ async THEN Intr ELSE p]
      /\ pc' = [pc EXCEPT ![p] = CASE async -> "user"
                                   [] start /\ ~async -> "iowait"
                                   [] OTHER -> "hold"]
      /\ buf' = [buf EXCEPT ![p] = IF async THEN 0 ELSE x]
      /\ DOMAIN op' = Procs
  BY DEF BreadClaimed, Return, Locals
<1> HIDE DEF start, async
<1>3. LockTypes'
  BY <1>1, <1>2
<1>4. Owned'
  BY <1>1, <1>2
<1>5. Transfers' /\ Counted' /\ Async'
  <2>1. start => "NTP" \in fl
    BY DEF start
  <2> QED BY <1>1, <1>2, <2>1
<1> QED BY <1>3, <1>4, <1>5

\* A buffer that interrupt level does not work on is unlocked by its owner.

LEMMA LockInit == Init => LockInv
BY BufAssumption DEF Init, Bufs, NODEV, LockInv, LockTypes, Owned, Transfers, Counted, Async, Owning

\* Every step keeps the locks.
LEMMA LockNext == LockInv /\ [Next]_vars => LockInv'
<1> SUFFICES ASSUME LockInv, [Next]_vars PROVE LockInv'
  OBVIOUS
<1>0. LockTypes
  BY DEF LockInv
<1> USE BufAssumption DEF LockInv, LockTypes, Owned, Transfers, Counted, Async, Owning, At, bufVars, chains
<1>1. ASSUME NEW p \in Procs, NEW o \in Ops, NEW b \in Blocks \cup {NODEV},
             Call(p, o, b)
      PROVE LockInv'
  <2>1. LockTypes'
    BY <1>1 DEF Call, Locals
  <2>2. Owned'
    BY <1>1 DEF Call, Locals
  <2>3. Transfers'
    BY <1>1 DEF Call, Locals
  <2>4. Counted'
    BY <1>1 DEF Call, Locals
  <2>5. Async'
    BY <1>1 DEF Call, Locals
  <2> QED BY <2>1, <2>2, <2>3, <2>4, <2>5 DEF LockInv
<1>2. ASSUME NEW p \in Procs, FindMiss(p) PROVE LockInv'
  BY <1>2 DEF FindMiss
<1>3. ASSUME NEW p \in Procs, FindBusy(p) PROVE LockInv'
  <2>1. Found(blk[p]) \in Bufs
    BY <1>3, <1>0, Searches DEF FindBusy
  <2> QED BY <1>3, <2>1 DEF FindBusy
<1>4. ASSUME NEW p \in Procs, FindHit(p) PROVE LockInv'
  <2> DEFINE x == Found(blk[p])
             fl == IF "ERR" \in flag[x] THEN (flag[x] \ {"ERR"}) \cup {"NTP"} ELSE flag[x]
  <2>1. x \in Bufs /\ gate[x] = None /\ pc[p] \notin Owning
    BY <1>4, <1>0, Searches DEF FindHit
  <2>2. BreadClaimed(p, x, fl, "BWRITE") /\ lru' = ToFront(lru, x)
        /\ UNCHANGED <<bno, iodone, hash, list>>
    BY <1>4 DEF FindHit, ClaimCached, LRUupdate
  <2>3. fl \subseteq {"NTP", "MOD", "ERR"}
    BY <2>1
  <2>4. lru' \in [Bufs -> Bufs]
    BY <1>0, <2>1, <2>2, Searches
  <2> HIDE DEF x, fl
  <2> QED BY <2>1, <2>2, <2>3, <2>4, Claimed
<1>5. ASSUME NEW p \in Procs, GateFree(p), bno[buf[p]] = blk[p] PROVE LockInv'
  <2> DEFINE x == buf[p]
             fl == IF "ERR" \in flag[x] THEN (flag[x] \ {"ERR"}) \cup {"NTP"} ELSE flag[x]
  <2>1. x \in Bufs /\ gate[x] = None /\ pc[p] \notin Owning
    BY <1>5, <1>0, Searches DEF GateFree
  <2>2. BreadClaimed(p, x, fl, "BWRITE") /\ lru' = ToFront(lru, x)
        /\ UNCHANGED <<bno, iodone, hash, list>>
    BY <1>5 DEF GateFree, ClaimCached, LRUupdate
  <2>3. fl \subseteq {"NTP", "MOD", "ERR"}
    BY <2>1
  <2>4. lru' \in [Bufs -> Bufs]
    BY <1>0, <2>1, <2>2, Searches
  <2> HIDE DEF x, fl
  <2> QED BY <2>1, <2>2, <2>3, <2>4, Claimed
<1>6. ASSUME NEW p \in Procs, GateFree(p), bno[buf[p]] # blk[p] PROVE LockInv'
  BY <1>6 DEF GateFree
<1>7. ASSUME NEW p \in Procs, AheadHit(p) PROVE LockInv'
  <2>1. Found(blk[p]) \in Bufs
    BY <1>7, <1>0, Searches DEF AheadHit
  <2>2. lru' \in [Bufs -> Bufs]
    BY <1>7, <1>0, <2>1, Searches DEF AheadHit, LRUupdate
  <2> QED BY <1>7, <2>1, <2>2 DEF AheadHit, Return, Locals
<1>8. ASSUME NEW p \in Procs, AheadGate(p) PROVE LockInv'
  <2> DEFINE x == buf[p]
  <2>1. x \in Bufs /\ gate[x] = None /\ pc[p] = "ragate" /\ iodone' = iodone
        /\ UNCHANGED <<lru, hash, list, bno>>
    BY <1>8 DEF AheadGate
  <2>2. CASE bno[x] = blk[p]
    <3>1. /\ flag' = [flag EXCEPT ![x] = @ \cup {"ASY"}]
          /\ io' = io \cup {x}
          /\ gate' = [gate EXCEPT ![x] = Intr]
          /\ pc' = [pc EXCEPT ![p] = "user"]
          /\ buf' = [buf EXCEPT ![p] = 0] /\ DOMAIN op' = Procs
      BY <1>8, <2>2 DEF AheadGate, Return, Locals
    <3> HIDE DEF x
    <3> QED BY <2>1, <3>1
  <2>3. CASE bno[x] # blk[p]
    <3>1. /\ UNCHANGED <<flag, io, gate>>
          /\ pc' = [pc EXCEPT ![p] = "find"]
          /\ buf' = [buf EXCEPT ![p] = 0] /\ DOMAIN op' = Procs
      BY <1>8, <2>3 DEF AheadGate
    <3> HIDE DEF x
    <3> QED BY <2>1, <3>1
  <2> QED BY <2>2, <2>3
<1>9. ASSUME NEW p \in Procs, ScanTake(p) PROVE LockInv'
  <2> DEFINE x == Candidate(p)
  <2>1. x \in Bufs /\ gate[x] = None /\ pc[p] \notin Owning
    BY <1>9, <1>0, Searches DEF ScanTake
  <2>2. /\ BreadClaimed(p, x, {"NTP"}, "BWRITE")
        /\ lru' = ToFront(lru, x) /\ hash' = ToFront(hash, x)
        /\ iodone' = [iodone EXCEPT ![x] = "none"]
        /\ bno' = [bno EXCEPT ![x] = blk[p]] /\ list' = list
    BY <1>9 DEF ScanTake, LRUupdate
  <2>3. lru' \in [Bufs -> Bufs] /\ hash' \in [Bufs -> Bufs]
    BY <1>0, <2>1, <2>2, Searches
  <2> HIDE DEF x
  <2> QED BY <2>1, <2>2, <2>3, Claimed
<1>10. ASSUME NEW p \in Procs, ScanDirty(p) PROVE LockInv'
  <2>1. Candidate(p) \in Bufs
    BY <1>10, <1>0, Searches DEF ScanDirty
  <2> QED BY <1>10, <2>1 DEF ScanDirty
<1>11. ASSUME NEW p \in Procs, ScanFail(p) PROVE LockInv'
  BY <1>11 DEF ScanFail
<1>12. ASSUME NEW p \in Procs, NeedSleep(p) PROVE LockInv'
  BY <1>12 DEF NeedSleep
<1>13. ASSUME NEW p \in Procs, Build(p) PROVE LockInv'
  BY <1>13 DEF Build, FlushFinish, Dirty, Clean
<1>14. ASSUME NEW p \in Procs, WriteList(p) PROVE LockInv'
  BY <1>14 DEF WriteList, FlushFinish, Dirty, Clean, StartCount, Syncing
<1>15. ASSUME NEW p \in Procs, SyncWait(p) PROVE LockInv'
  BY <1>15 DEF SyncWait, Return, Locals
<1>16. ASSUME NEW p \in Procs, ReadDone(p), "ERR" \in flag[buf[p]] PROVE LockInv'
  <2>1. LockTypes'
    BY <1>16 DEF ReadDone, UnlockBlock, Woken, Return, Locals
  <2>2. Owned'
    BY <1>16 DEF ReadDone, UnlockBlock, Woken, Return, Locals
  <2>3. Transfers'
    BY <1>16 DEF ReadDone, UnlockBlock, Woken, Return, Locals
  <2>4. Counted'
    BY <1>16 DEF ReadDone, UnlockBlock, Woken, Return, Locals
  <2>5. Async'
    BY <1>16 DEF ReadDone, UnlockBlock, Woken, Return, Locals
  <2> QED BY <2>1, <2>2, <2>3, <2>4, <2>5 DEF LockInv
<1>17. ASSUME NEW p \in Procs, ReadDone(p), "ERR" \notin flag[buf[p]] PROVE LockInv'
  BY <1>17 DEF ReadDone
<1>18. ASSUME NEW p \in Procs, UseRead(p) PROVE LockInv'
  BY <1>18 DEF UseRead, Release, UnlockBlock, Woken, Return, Locals
<1>19. ASSUME NEW p \in Procs, UseWrite(p) PROVE LockInv'
  BY <1>19 DEF UseWrite, Store, Release, UnlockBlock, Woken, Return, Locals
<1>20. ASSUME NEW p \in Procs, UseStart(p) PROVE LockInv'
  <2>1. LockTypes'
    BY <1>20 DEF UseStart, Store, Return, Locals
  <2>2. Owned'
    BY <1>20 DEF UseStart, Store, Return, Locals
  <2>3. Transfers'
    BY <1>20 DEF UseStart, Store, Return, Locals
  <2>4. Counted'
    BY <1>20 DEF UseStart, Store, Return, Locals
  <2>5. Async'
    BY <1>20 DEF UseStart, Store, Return, Locals
  <2> QED BY <2>1, <2>2, <2>3, <2>4, <2>5 DEF LockInv
<1>21. ASSUME NEW p \in Procs, WriteDone(p) PROVE LockInv'
  BY <1>21 DEF WriteDone, Release, UnlockBlock, Woken, Return, Locals
<1>22. ASSUME NEW x \in Bufs, NEW ok \in BOOLEAN, biodone(x, ok) PROVE LockInv'
  <2>1. LockTypes'
    BY <1>22 DEF biodone, Transfer, UnlockBlock, Woken
  <2>2. Owned'
    BY <1>22 DEF biodone, Transfer, UnlockBlock, Woken
  <2>3. Transfers'
    BY <1>22 DEF biodone, Transfer, UnlockBlock, Woken
  <2>4. Counted'
    BY <1>22 DEF biodone, Transfer, UnlockBlock, Woken
  <2>5. Async'
    BY <1>22 DEF biodone, Transfer, UnlockBlock, Woken
  <2> QED BY <2>1, <2>2, <2>3, <2>4, <2>5 DEF LockInv
<1>23. CASE UNCHANGED vars
  BY <1>23 DEF vars
<1> QED BY <1>1, <1>2, <1>3, <1>4, <1>5, <1>6, <1>7, <1>8, <1>9, <1>10, <1>11, <1>12, <1>13, <1>14, <1>15, <1>16, <1>17, <1>18, <1>19, <1>20, <1>21, <1>22, <1>23 DEF Next

----------------------------------------------------------------------------
Writing == {x \in io : iodone[x] # "none"}

BufsyncInv == LockInv /\ BufsyncExact

\* bufsync counts the transfers of the syncs.
LEMMA BufsyncNext == BufsyncInv /\ [Next]_vars => BufsyncInv'
<1> SUFFICES ASSUME BufsyncInv, [Next]_vars PROVE BufsyncExact'
  BY LockNext DEF BufsyncInv
<1> USE BufAssumption
<1>1. /\ IsFiniteSet(Bufs) /\ Writing \subseteq Bufs /\ Writing' \subseteq Bufs
      /\ bufsync = Cardinality(Writing) /\ LockInv /\ LockInv'
  <2>1. IsFiniteSet(Bufs)
    BY FS_Interval DEF Bufs
  <2>2. LockInv /\ LockInv' /\ bufsync = Cardinality(Writing)
    BY LockNext DEF BufsyncInv, BufsyncExact, Writing
  <2> QED BY <2>1, <2>2 DEF Writing, LockInv, LockTypes
<1>2. IsFiniteSet(Writing) /\ Cardinality(Writing) \in Nat
  BY <1>1, FS_Subset, FS_CardinalityType
<1>3. ASSUME NEW p \in Procs, WriteList(p) PROVE BufsyncExact'
  <2> DEFINE S == {x \in list[p] : \A y \in list[p] :
                                     gate[y] # None => (y # x /\ Before(x, y))}
             start == {x \in S : Dirty(p, x) /\ "ERR" \notin flag[x]}
  <2>1. start \subseteq Bufs /\ start \cap io = {} /\ start \cap Writing = {}
    BY <1>1 DEF LockInv, LockTypes, Transfers, Writing
  <2>2. IsFiniteSet(start) /\ Cardinality(start) \in Nat
    BY <1>1, <2>1, FS_Subset, FS_CardinalityType
  <2>3. /\ io' = io \cup start
        /\ iodone' = [x \in Bufs |->
             CASE x \in start /\ op[p] = "sync" -> "sync_iodone"
               [] x \in start /\ op[p] = "flush" -> "bflush_iodone"
               [] OTHER -> iodone[x]]
        /\ bufsync' = bufsync + StartCount(p, start)
    BY <1>3 DEF WriteList
  <2>4. \A x \in start : iodone[x] = "none"
    BY <1>1, <2>1 DEF LockInv, LockTypes, Counted
  <2> HIDE DEF S, start
  <2>5. CASE Syncing(p)
    <3>1. Writing' = Writing \cup start
      BY <1>1, <2>1, <2>3, <2>5 DEF Syncing, Writing, LockInv, LockTypes
    <3>2. Cardinality(Writing \cup start) = Cardinality(Writing) + Cardinality(start)
      <4>1. Cardinality(Writing \cup start)
              = Cardinality(Writing) + Cardinality(start) - Cardinality(Writing \cap start)
        BY <1>2, <2>2, FS_Union
      <4>2. Cardinality(Writing \cap start) = 0
        BY <2>1, FS_EmptySet
      <4> QED BY <1>2, <2>2, <4>1, <4>2
    <3> QED BY <1>1, <2>3, <2>5, <3>1, <3>2 DEF StartCount, BufsyncExact, Writing
  <2>6. CASE ~Syncing(p)
    <3>1. Writing' = Writing
      BY <1>1, <2>1, <2>3, <2>4, <2>6 DEF Syncing, Writing, LockInv, LockTypes
    <3>2. bufsync' = bufsync + 0
      BY <2>3, <2>6 DEF StartCount
    <3>3. bufsync \in Nat
      BY <1>1, <1>2
    <3>4. bufsync' = bufsync
      BY <3>2, <3>3
    <3> QED BY <1>1, <3>1, <3>4 DEF BufsyncExact, Writing
  <2> QED BY <2>5, <2>6
<1>4. ASSUME NEW x \in Bufs, NEW ok \in BOOLEAN, biodone(x, ok) PROVE BufsyncExact'
  <2>1. /\ x \in io /\ io' = io \ {x} /\ iodone' = [iodone EXCEPT ![x] = "none"]
        /\ bufsync' = IF iodone[x] = "none" THEN bufsync ELSE bufsync - 1
    BY <1>4 DEF biodone
  <2>2. Writing' = Writing \ {x}
    BY <1>1, <2>1 DEF Writing, LockInv, LockTypes
  <2>3. Cardinality(Writing \ {x})
          = IF x \in Writing THEN Cardinality(Writing) - 1 ELSE Cardinality(Writing)
    BY <1>2, FS_RemoveElement
  <2>4. x \in Writing <=> iodone[x] # "none"
    BY <2>1 DEF Writing
  <2> QED BY <1>1, <2>1, <2>2, <2>3, <2>4 DEF BufsyncExact, Writing
<1>5. ASSUME bufsync' = bufsync, Writing' = Writing PROVE BufsyncExact'
  BY <1>1, <1>5 DEF BufsyncExact, Writing
<1>6. ASSUME NEW p \in Procs, NEW x \in Bufs, NEW fl, NEW r, gate[x] = None,
             BreadClaimed(p, x, fl, r), bufsync' = bufsync,
             iodone' = iodone \/ iodone' = [iodone EXCEPT ![x] = "none"]
      PROVE  BufsyncExact'
  <2>1. iodone[x] = "none" /\ iodone' = iodone
    BY <1>1, <1>6 DEF LockInv, LockTypes, Counted, Transfers
  <2>2. io' = io \/ io' = io \cup {x}
    BY <1>6 DEF BreadClaimed
  <2> QED BY <1>5, <1>6, <2>1, <2>2 DEF Writing
<1>7. ASSUME NEW p \in Procs, FindHit(p) \/ GateFree(p) PROVE BufsyncExact'
  <2>1. LockTypes /\ Owned
    BY <1>1 DEF LockInv
  <2>2. CASE FindHit(p)
    BY <1>6, <2>1, <2>2, Searches DEF FindHit, ClaimCached
  <2>3. CASE GateFree(p)
    BY <1>5, <1>6, <2>1, <2>3 DEF GateFree, ClaimCached, Owned, At, Writing, bufVars
  <2> QED BY <1>7, <2>2, <2>3
<1>8. ASSUME NEW p \in Procs, ScanTake(p) PROVE BufsyncExact'
  BY <1>1, <1>6, <1>8, Searches DEF ScanTake, LockInv
<1>9. ASSUME NEW p \in Procs, AheadGate(p) PROVE BufsyncExact'
  <2>1. buf[p] \in Bufs /\ gate[buf[p]] = None
    BY <1>1, <1>9 DEF AheadGate, LockInv, Owned, At
  <2>2. iodone[buf[p]] = "none"
    BY <1>1, <2>1 DEF LockInv, LockTypes, Counted, Transfers
  <2>3. bufsync' = bufsync /\ iodone' = iodone /\ (io' = io \/ io' = io \cup {buf[p]})
    BY <1>9 DEF AheadGate, bufVars
  <2> QED BY <1>5, <2>2, <2>3 DEF Writing
<1>10. ASSUME NEW p \in Procs, UseStart(p) PROVE BufsyncExact'
  <2>1. iodone[buf[p]] = "none"
    BY <1>1, <1>10 DEF UseStart, LockInv, Owned, Owning, At
  <2>2. bufsync' = bufsync /\ iodone' = iodone /\ io' = io \cup {buf[p]}
    BY <1>10 DEF UseStart
  <2> QED BY <1>5, <2>1, <2>2 DEF Writing
<1>11. ASSUME NEW p \in Procs,
              \/ \E o \in Ops, b \in Blocks \cup {NODEV} : Call(p, o, b)
              \/ FindMiss(p) \/ FindBusy(p) \/ AheadHit(p) \/ ScanDirty(p)
              \/ ScanFail(p) \/ NeedSleep(p) \/ Build(p) \/ SyncWait(p)
              \/ ReadDone(p) \/ UseRead(p) \/ UseWrite(p) \/ WriteDone(p)
       PROVE  BufsyncExact'
  <2>1. UNCHANGED <<bufsync, io, iodone>>
    BY <1>11 DEF Call, FindMiss, FindBusy, AheadHit, ScanDirty, ScanFail, NeedSleep,
                 Build, SyncWait, ReadDone, UseRead, UseWrite, WriteDone, bufVars
  <2> QED BY <1>5, <2>1 DEF Writing
<1>12. CASE UNCHANGED vars
  BY <1>5, <1>12 DEF vars, Writing
<1> QED
  BY <1>3, <1>4, <1>7, <1>8, <1>9, <1>10, <1>11, <1>12 DEF Next

(***************************************************************************)
(* The locks are exact whatever the operations, the device's failures and  *)
(* the number of processes and buffers: see LockInv.                       *)
(***************************************************************************)
THEOREM BufferLocks == Spec => []LockInv
BY LockInit, LockNext, PTL DEF Spec

(***************************************************************************)
(* bufsync is the number of transfers that syncs still wait for, so that   *)
(* the last of them, and none before, lets general_sync go on.             *)
(***************************************************************************)
THEOREM BufferSyncCount == Spec => []BufsyncExact
<1>1. Init => BufsyncInv
  <2> SUFFICES ASSUME Init PROVE BufsyncExact
    BY LockInit DEF BufsyncInv
  <2>1. {x \in io : iodone[x] # "none"} = {} /\ bufsync = 0
    BY DEF Init
  <2> QED BY <2>1, FS_EmptySet DEF BufsyncExact
<1>2. BufsyncInv => BufsyncExact
  BY DEF BufsyncInv
<1> QED BY <1>1, <1>2, BufsyncNext, PTL DEF Spec

----------------------------------------------------------------------------
LeakInv == LockInv /\ Unlocked

LEMMA LeakInit == NoAhead /\ Init => Unlocked
BY BufAssumption DEF Init, Unlocked, Bufs, NODEV

\* Without read-ahead no step leaves a lock behind.
LEMMA LeakNext == NoAhead /\ LeakInv /\ [Next]_vars => LeakInv'
<1> SUFFICES ASSUME NoAhead, LeakInv, [Next]_vars PROVE Unlocked'
  BY LockNext DEF LeakInv
<1>0. LockInv /\ LockTypes /\ Owned /\ Transfers /\ Counted /\ Async /\ Unlocked
      /\ LockTypes'
  BY LockNext DEF LeakInv, LockInv
<1> USE BufAssumption, <1>0
    DEF LockTypes, Owned, Transfers, Counted, Async, Unlocked, OwnedBy, Owning, At,
        bufVars, chains
<1>1. ASSUME NEW p \in Procs, NEW o \in Ops, NEW b \in Blocks \cup {NODEV},
             Call(p, o, b)
      PROVE  Unlocked'
  BY <1>1 DEF Call, Locals, NoAhead
<1>2. ASSUME NEW p \in Procs, FindMiss(p) \/ FindBusy(p) PROVE Unlocked'
  BY <1>2 DEF FindMiss, FindBusy
<1>4. ASSUME NEW p \in Procs, FindHit(p) PROVE Unlocked'
  <2> DEFINE x == Found(blk[p])
             fl == IF "ERR" \in flag[x] THEN (flag[x] \ {"ERR"}) \cup {"NTP"} ELSE flag[x]
  <2>1. x \in Bufs /\ gate[x] = None /\ pc[p] \notin Owning
    BY <1>4, Searches DEF FindHit
  <2>2. fl \subseteq {"NTP", "MOD", "ERR"}
    BY <2>1
  <2>3. /\ BreadClaimed(p, x, fl, "BWRITE")
        /\ iodone' = iodone \/ iodone' = [iodone EXCEPT ![x] = "none"]
    BY <1>4 DEF FindHit, ClaimCached
  <2> HIDE DEF x, fl
  <2> QED BY <2>1, <2>2, <2>3 DEF BreadClaimed
<1>5. ASSUME NEW p \in Procs, GateFree(p) PROVE Unlocked'
  <2> DEFINE x == buf[p]
             fl == IF "ERR" \in flag[x] THEN (flag[x] \ {"ERR"}) \cup {"NTP"} ELSE flag[x]
  <2>1. x \in Bufs /\ gate[x] = None /\ pc[p] \notin Owning
    BY <1>5 DEF GateFree
  <2>2. fl \subseteq {"NTP", "MOD", "ERR"}
    BY <2>1
  <2>3. CASE bno[buf[p]] = blk[p]
    <3>1. /\ BreadClaimed(p, x, fl, "BWRITE")
          /\ iodone' = iodone \/ iodone' = [iodone EXCEPT ![x] = "none"]
      BY <1>5, <2>3 DEF GateFree, ClaimCached
    <3> HIDE DEF x, fl
    <3> QED BY <2>1, <2>2, <3>1 DEF BreadClaimed
  <2>4. CASE bno[buf[p]] # blk[p]
    BY <1>5, <2>4 DEF GateFree
  <2> QED BY <2>3, <2>4
<1>6. ASSUME NEW p \in Procs, AheadHit(p) \/ AheadGate(p) PROVE Unlocked'
  <2>1. op[p] = "ahead" \/ pc[p] = "ragate"
    BY <1>6 DEF AheadHit, AheadGate
  <2> QED BY <2>1
<1>7. ASSUME NEW p \in Procs, ScanTake(p) PROVE Unlocked'
  <2> DEFINE x == Candidate(p)
  <2>1. x \in Bufs /\ gate[x] = None /\ pc[p] \notin Owning
    BY <1>7, Searches DEF ScanTake
  <2>2. BreadClaimed(p, x, {"NTP"}, "BWRITE")
        /\ iodone' = [iodone EXCEPT ![x] = "none"]
    BY <1>7 DEF ScanTake
  <2>3. {"NTP"} \subseteq {"NTP", "MOD", "ERR"}
    OBVIOUS
  <2> HIDE DEF x
  <2> QED BY <2>1, <2>2, <2>3 DEF BreadClaimed
<1>8. ASSUME NEW p \in Procs, ScanDirty(p) \/ ScanFail(p) \/ NeedSleep(p)
      PROVE  Unlocked'
  BY <1>8 DEF ScanDirty, ScanFail, NeedSleep
<1>9. ASSUME NEW p \in Procs, Build(p) PROVE Unlocked'
  BY <1>9 DEF Build, Dirty, Clean
<1>10. ASSUME NEW p \in Procs, WriteList(p) PROVE Unlocked'
  <2> DEFINE S == {x \in list[p] : \A y \in list[p] :
                                     gate[y] # None => (y # x /\ Before(x, y))}
             start == {x \in S : Dirty(p, x) /\ "ERR" \notin flag[x]}
             fin == {x \in S : op[p] = "flush" /\ Clean(p, x) /\ "ERR" \notin flag[x]}
  <2>1. /\ start \subseteq Bufs /\ \A x \in start : gate[x] = None
        /\ fin \subseteq Bufs \ io /\ start \cap fin = {}
    BY DEF Dirty, Clean
  <2>2. /\ flag' = [x \in Bufs |->
             CASE x \in start /\ Syncing(p) -> (flag[x] \ {"ASY"}) \cup {"NTP"}
               [] x \in start /\ ~Syncing(p) -> flag[x] \cup {"ASY", "NTP"}
               [] x \in fin -> {"NTP"}
               [] OTHER -> flag[x]]
        /\ iodone' = [x \in Bufs |->
             CASE x \in start /\ op[p] = "sync" -> "sync_iodone"
               [] x \in start /\ op[p] = "flush" -> "bflush_iodone"
               [] OTHER -> iodone[x]]
        /\ gate' = [x \in Bufs |->
             CASE x \in start /\ Syncing(p) -> p
               [] x \in start /\ ~Syncing(p) -> Intr
               [] OTHER -> gate[x]]
        /\ io' = io \cup start
    BY <1>10 DEF WriteList
  <2>3. /\ pc[p] \notin Owning /\ pc'[p] # "ragate" /\ buf' = buf /\ op' = op
        /\ \A q \in Procs : q # p => pc'[q] = pc[q]
    BY <1>10 DEF WriteList
  <2> HIDE DEF S, start, fin
  <2>4. \A q \in Procs : op'[q] \notin {"ahead", "ahead_sync"} /\ pc'[q] # "ragate"
    BY <2>3
  <2>5. \A x \in io' : "NTP" \in flag'[x]
    BY <2>1, <2>2
  <2>6. ASSUME NEW x \in Bufs, gate'[x] # None
        PROVE  \/ x \in io' /\ (iodone'[x] # "none" \/ "ASY" \in flag'[x])
               \/ \E q \in Procs : OwnedBy(x, q)'
    <3>1. CASE x \in start
      <4>1. x \in io'
        BY <2>2, <3>1
      <4>2. Syncing(p) => iodone'[x] # "none"
        BY <2>2, <3>1 DEF Syncing
      <4>3. ~Syncing(p) => "ASY" \in flag'[x]
        BY <2>1, <2>2, <3>1
      <4> QED BY <4>1, <4>2, <4>3
    <3>2. CASE x \notin start
      BY <2>1, <2>2, <2>3, <2>6, <3>2
    <3> QED BY <3>1, <3>2
  <2> QED BY <2>4, <2>5, <2>6
<1>11. ASSUME NEW p \in Procs, SyncWait(p) PROVE Unlocked'
  BY <1>11 DEF SyncWait, Return, Locals
<1>12. ASSUME NEW p \in Procs, ReadDone(p) PROVE Unlocked'
  <2>1. CASE "ERR" \in flag[buf[p]]
    <3> DEFINE x == buf[p]
    <3>1. /\ x \in Bufs /\ x \notin io /\ io' = io /\ iodone' = iodone /\ gate[x] = p
          /\ flag' = [flag EXCEPT ![x] = @ \ {"ERR"}]
          /\ gate' = [gate EXCEPT ![x] = None]
          /\ op' = [op EXCEPT ![p] = "none"] /\ buf' = [buf EXCEPT ![p] = 0]
          /\ \A q \in Procs : q # p => pc'[q] = IF pc[q] = "need" /\ bufneed
                                              THEN "rescan" ELSE pc[q]
          /\ pc'[p] = "user"
      BY <1>12, <2>1 DEF ReadDone, UnlockBlock, Woken, Return, Locals
    <3> HIDE DEF x
    <3>2. \A q \in Procs : op'[q] \notin {"ahead", "ahead_sync"} /\ pc'[q] # "ragate"
      BY <3>1
    <3>3. \A y \in io' : "NTP" \in flag'[y]
      BY <3>1
    <3>4. ASSUME NEW y \in Bufs, gate'[y] # None
          PROVE  \/ y \in io' /\ (iodone'[y] # "none" \/ "ASY" \in flag'[y])
                 \/ \E q \in Procs : OwnedBy(y, q)'
      BY <3>1, <3>4
    <3> QED BY <3>2, <3>3, <3>4
  <2>2. CASE "ERR" \notin flag[buf[p]]
    BY <1>12, <2>2 DEF ReadDone
  <2> QED BY <2>1, <2>2
<1>13. ASSUME NEW p \in Procs, UseRead(p) PROVE Unlocked'
  BY <1>13 DEF UseRead, Release, UnlockBlock, Woken, Return, Locals
<1>14. ASSUME NEW p \in Procs, UseWrite(p) PROVE Unlocked'
  BY <1>14 DEF UseWrite, Release, UnlockBlock, Woken, Return, Locals
<1>15. ASSUME NEW p \in Procs, UseStart(p) PROVE Unlocked'
  <2>1. CASE op[p] = "claim"
    BY <1>15, <2>1 DEF UseStart, Return, Locals
  <2>2. CASE op[p] = "super"
    BY <1>15, <2>2 DEF UseStart
  <2> QED BY <1>15, <2>1, <2>2 DEF UseStart
<1>16. ASSUME NEW p \in Procs, WriteDone(p) PROVE Unlocked'
  BY <1>16 DEF WriteDone, Release, UnlockBlock, Woken, Return, Locals
<1>17. ASSUME NEW x \in Bufs, NEW ok \in BOOLEAN, biodone(x, ok) PROVE Unlocked'
  BY <1>17 DEF biodone, UnlockBlock, Woken
<1>18. CASE UNCHANGED vars
  BY <1>18 DEF vars
<1> QED
  BY <1>1, <1>2, <1>4, <1>5, <1>6, <1>7, <1>8, <1>9, <1>10, <1>11, <1>12, <1>13,
     <1>14, <1>15, <1>16, <1>17, <1>18 DEF Next

(***************************************************************************)
(* When nobody reads ahead, every lock of a buffer is held by a process    *)
(* that works on it or by a transfer whose biodone unlocks it: neither a   *)
(* sync, a flush, an eviction nor an error leaves a lock behind.           *)
(***************************************************************************)
THEOREM BufferNoLeak == ASSUME NoAhead PROVE Spec => []NoLeakedLock
<1>1. Init => LeakInv
  BY LockInit, LeakInit DEF LeakInv
<1>2. LeakInv /\ [Next]_vars => LeakInv'
  BY LeakNext
<1>3. LeakInv => NoLeakedLock
  BY DEF LeakInv, Unlocked, OwnedBy, Owning, NoLeakedLock
<1> QED BY <1>1, <1>2, <1>3, PTL DEF Spec

----------------------------------------------------------------------------
(***************************************************************************)
(* Contents.  Each process uses blocks of its own, as the gates of inodes  *)
(* make it do, and no write fails (biodone drops what it could not write). *)
(***************************************************************************)
PrivateUses == \A p, q \in Procs : p # q => Uses[p] \cap Uses[q] = {}
WritesSucceed == "BWRITE" \notin IOErrors

OpNames == {"none", "read", "write", "claim", "super", "ahead", "ahead_sync", "sync", "flush"}
PcNames == {"user", "find", "gate", "ragate", "scan", "none", "need", "rescan", "build",
            "buildwait", "write", "writewait", "syncwait", "iowait", "hold", "wwait"}

\* The points of a sync, some of which an eviction passes too.
Listing == {"build", "buildwait", "write", "writewait"}

IdTypes ==
  /\ bno \in [Bufs -> Blocks \cup {NODEV}]
  /\ blk \in [Procs -> Blocks \cup {NODEV}]
  /\ op \in [Procs -> OpNames]

\* A process in bread has one of its blocks in hand, one in a sync has none.
Calls ==
  \A p \in Procs :
    /\ pc[p] \notin {"user", "syncwait"} /\ ~Syncing(p) => blk[p] \in Uses[p]
    /\ pc[p] = "syncwait" => Syncing(p)
    /\ Syncing(p) => pc[p] \in Listing \cup {"syncwait"}

\* Every buffer is on the hash chains.
Hashed == \A x \in Bufs : \E i \in Bufs : hash[i] = x

\* bclaim looks for a buffer for a block that is in none.
Missing(p) == \/ pc[p] \in {"scan", "none", "need", "rescan"}
              \/ pc[p] \in Listing /\ ~Syncing(p)
Missed == \A p \in Procs : Missing(p) => \A x \in Bufs : bno[x] # blk[p]

AliasInv == LockInv /\ IdTypes /\ Calls /\ Hashed /\ Missed /\ NoAlias

----------------------------------------------------------------------------
DataTypes ==
  /\ req \in [Bufs -> {"BREAD", "BWRITE"}]
  /\ body \in [Bufs -> Nat]
  /\ disk \in [Blocks -> Nat]
  /\ latest \in [Blocks -> Nat]

\* A process has the buffer of its block, unless reading it failed; what the
\* writer of a super block waits for is a write.
Held ==
  \A p \in Procs : pc[p] \in Owning =>
    /\ bno[buf[p]] = blk[p] \/ (pc[p] = "iowait" /\ "ERR" \in flag[buf[p]])
    /\ pc[p] = "hold" /\ op[p] \in {"read", "write"} => "NTP" \notin flag[buf[p]]
    /\ pc[p] = "wwait" /\ buf[p] \in io => "MOD" \in flag[buf[p]]

\* Valid and dirty buffers hold the last version of their block.
Current ==
  \A x \in Bufs : bno[x] # NODEV /\ ("NTP" \notin flag[x] \/ "MOD" \in flag[x])
                    => body[x] = latest[bno[x]]

\* Dirty buffers and those in transfer have a block, failed ones have none.
Named ==
  \A x \in Bufs : /\ "MOD" \in flag[x] \/ x \in io => bno[x] # NODEV
                  /\ "ERR" \in flag[x] => bno[x] = NODEV

\* What is written is dirty, what is read is not.
Directed ==
  \A x \in Bufs : /\ x \in io => (req[x] = "BWRITE" <=> "MOD" \in flag[x])
                  /\ iodone[x] # "none" => req[x] = "BWRITE"

\* A buffer that is not valid is being transferred or filled.
Pending ==
  \A x \in Bufs : bno[x] # NODEV /\ "NTP" \in flag[x]
                    => x \in io \/ \E p \in Procs : OwnedBy(x, p)

\* Read-ahead waits for the end of a write.
AheadClean ==
  \A p \in Procs : pc[p] = "ragate" /\ bno[buf[p]] = blk[p]
                     => "MOD" \notin flag[buf[p]] \/ buf[p] \in io

DataInv == /\ DataTypes /\ Held /\ Current /\ Named /\ Directed /\ Pending
           /\ AheadClean /\ NoLostUpdate

----------------------------------------------------------------------------
\* The buffers that the sync of p has yet to write, or to wait for.
ToWrite(p, x) ==
  \/ pc[p] \in Listing /\ x \in list[p]
  \/ pc[p] \in {"build", "buildwait"} /\ x >= idx[p]
  \/ pc[p] \in {"write", "writewait", "syncwait"} /\ x \in io /\ iodone[x] # "none"

Goals ==
  /\ goal \in [Procs -> [Blocks -> Nat]]
  /\ DOMAIN idx = Procs
  /\ \A p \in Procs : Syncing(p) /\ pc[p] \in {"build", "buildwait"} => idx[p] \in 1 .. NBUF + 1
  /\ \A b \in Blocks : disk[b] <= latest[b]
  /\ \A p \in Procs, b \in Blocks : goal[p][b] <= latest[b]

Synced ==
  \A p \in Procs, b \in Blocks : Syncing(p) =>
    \/ disk[b] >= goal[p][b]
    \/ \E x \in Bufs : bno[x] = b /\ "MOD" \in flag[x] /\ ToWrite(p, x)

Drained == \A p \in Procs : pc[p] = "syncwait" => list[p] = {}

----------------------------------------------------------------------------
\* A block has no identity of its own.
LEMMA BlockIs == \A b \in Blocks : b # NODEV /\ b \in Nat
BY BufAssumption DEF NODEV

LEMMA UsesIn == \A p \in Procs : Uses[p] \subseteq Blocks /\ NODEV \notin Uses[p]
BY BufAssumption DEF NODEV

\* buffer_find returns a buffer of the block.
LEMMA FoundIs ==
  ASSUME LockTypes, NEW b, Cached(b) # {}
  PROVE  Found(b) \in Bufs /\ bno[Found(b)] = b
<1>1. Cached(b) \subseteq Bufs
  BY DEF Cached, LockTypes
<1>2. Cached(b) \subseteq Nat
  BY <1>1, BufAssumption DEF Bufs
<1>3. \E i \in Cached(b) : \A j \in Cached(b) : i <= j
  BY <1>2, Least
<1>4. (CHOOSE i \in Cached(b) : \A j \in Cached(b) : i <= j) \in Cached(b)
  BY <1>3
<1> QED BY <1>1, <1>4 DEF Found, Cached, LockTypes

\* And none if there is none.
LEMMA NotFound ==
  ASSUME LockTypes, Hashed, NEW b, Cached(b) = {}
  PROVE  \A x \in Bufs : bno[x] # b
BY DEF LockTypes, Hashed, Cached

\* A search stops at the first locked buffer.
LEMMA FirstIs ==
  ASSUME NEW S, S \subseteq Bufs
  PROVE  /\ FirstLocked(S) \in 1 .. NBUF + 1
         /\ FirstLocked(S) <= NBUF => FirstLocked(S) \in S
         /\ \A x \in S : x < FirstLocked(S) => gate[x] = None
<1> DEFINE locked == {x \in S : gate[x] # None}
<1>1. NBUF \in Nat /\ \A x \in S : x \in 1 .. NBUF /\ x \in Nat
  BY BufAssumption DEF Bufs
<1>2. PICK f : f = FirstLocked(S)
  OBVIOUS
<1>3. \/ f = NBUF + 1 /\ \A x \in S : gate[x] = None
      \/ f \in S /\ \A x \in S : gate[x] # None => f <= x
  <2>1. CASE locked = {}
    BY <1>2, <2>1 DEF FirstLocked
  <2>2. CASE locked # {}
    <3>1. locked \subseteq Nat
      BY <1>1
    <3> HIDE DEF locked
    <3>2. \E x \in locked : \A y \in locked : x <= y
      BY <2>2, <3>1, Least
    <3> USE DEF locked
    <3> QED BY <1>2, <2>2, <3>2 DEF FirstLocked, Min
  <2> QED BY <2>1, <2>2
<1>4. f \in 1 .. NBUF + 1 /\ (f <= NBUF => f \in S)
  BY <1>1, <1>3
<1>5. ASSUME NEW x \in S, x < f PROVE gate[x] = None
  BY <1>1, <1>3, <1>5
<1> QED BY <1>2, <1>4, <1>5

\* A chain keeps its members when one comes to the front.
LEMMA FrontKeeps ==
  ASSUME NEW s \in [Bufs -> Bufs], NEW x \in Bufs,
         \A y \in Bufs : \E i \in Bufs : s[i] = y
  PROVE  \A y \in Bufs : \E i \in Bufs : ToFront(s, x)[i] = y
<1> USE BufAssumption DEF Bufs
<1> DEFINE was == CHOOSE i \in DOMAIN s : s[i] = x
<1>1. was \in Bufs /\ s[was] = x
  OBVIOUS
<1>2. ToFront(s, x) = [i \in Bufs |-> IF i = 1 THEN x ELSE IF i <= was THEN s[i - 1] ELSE s[i]]
  BY DEF ToFront
<1> HIDE DEF was
<1>3. ASSUME NEW y \in Bufs PROVE \E i \in Bufs : ToFront(s, x)[i] = y
  <2>1. CASE y = x
    BY <1>2, <2>1
  <2>2. CASE y # x
    <3>1. PICK j \in Bufs : s[j] = y
      OBVIOUS
    <3>2. CASE j < was
      <4>1. j + 1 \in Bufs /\ j + 1 # 1 /\ j + 1 <= was /\ (j + 1) - 1 = j
        BY <1>1, <3>2
      <4> QED BY <1>2, <3>1, <4>1
    <3>3. CASE j > was
      BY <1>1, <1>2, <3>1, <3>3
    <3> QED BY <1>1, <2>2, <3>1, <3>2, <3>3
  <2> QED BY <2>1, <2>2
<1> QED BY <1>3

----------------------------------------------------------------------------
LEMMA AliasInit == Init => AliasInv
<1> SUFFICES ASSUME Init PROVE IdTypes /\ Calls /\ Hashed /\ Missed /\ NoAlias
  BY LockInit DEF AliasInv
<1> USE BufAssumption DEF Init, NODEV
<1>1. IdTypes /\ Calls
  BY DEF IdTypes, Calls, OpNames, Syncing
<1>2. Hashed
  <2> SUFFICES ASSUME NEW x \in Bufs PROVE hash[NBUF + 1 - x] = x /\ NBUF + 1 - x \in Bufs
    BY DEF Hashed
  <2> QED BY DEF Bufs
<1>3. Missed /\ NoAlias
  BY DEF Missed, Missing, Listing, NoAlias
<1> QED BY <1>1, <1>2, <1>3

\* What each step does to the operation of a process.
LEMMA CallsNext == LockInv /\ IdTypes /\ Calls /\ [Next]_vars => IdTypes' /\ Calls'
<1> SUFFICES ASSUME LockInv, IdTypes, Calls, [Next]_vars PROVE IdTypes' /\ Calls'
  OBVIOUS
<1>0. LockTypes
  BY DEF LockInv
<1>q. pc \in [Procs -> PcNames] /\ pc' \in [Procs -> PcNames]
  BY LockNext DEF LockInv, LockTypes, PcNames
<1> USE <1>q, BufAssumption, UsesIn DEF IdTypes, Calls, OpNames, Syncing, Listing, At, bufVars, chains
<1>1. ASSUME NEW p \in Procs, NEW o \in Ops, NEW b \in Blocks \cup {NODEV},
             Call(p, o, b)
      PROVE  IdTypes' /\ Calls'
  BY <1>1 DEF Call, Locals
<1>2. ASSUME NEW p \in Procs, FindMiss(p) \/ FindBusy(p) PROVE IdTypes' /\ Calls'
  BY <1>2 DEF FindMiss, FindBusy
<1>3. ASSUME NEW p \in Procs, NEW x, NEW fl, NEW r, BreadClaimed(p, x, fl, r),
             pc[p] \in {"find", "gate", "scan", "rescan"},
             bno' = bno \/ bno' = [bno EXCEPT ![x] = blk[p]]
      PROVE  IdTypes' /\ Calls'
  <2>1. blk[p] \in Uses[p] /\ ~Syncing(p)
    BY <1>3
  <2>2. CASE op[p] \in {"ahead", "ahead_sync"}
    BY <1>3, <2>1, <2>2 DEF BreadClaimed, Return, Locals
  <2>3. CASE op[p] \notin {"ahead", "ahead_sync"}
    BY <1>3, <2>1, <2>3 DEF BreadClaimed
  <2> QED BY <2>2, <2>3
<1>4. ASSUME NEW p \in Procs, FindHit(p) PROVE IdTypes' /\ Calls'
  BY <1>3, <1>4 DEF FindHit, ClaimCached
<1>5. ASSUME NEW p \in Procs, GateFree(p) PROVE IdTypes' /\ Calls'
  <2>1. CASE bno[buf[p]] = blk[p]
    BY <1>3, <1>5, <2>1 DEF GateFree, ClaimCached
  <2>2. CASE bno[buf[p]] # blk[p]
    BY <1>5, <2>2 DEF GateFree
  <2> QED BY <2>1, <2>2
<1>6. ASSUME NEW p \in Procs, AheadHit(p) PROVE IdTypes' /\ Calls'
  BY <1>6 DEF AheadHit, Return, Locals
<1>7. ASSUME NEW p \in Procs, AheadGate(p) PROVE IdTypes' /\ Calls'
  BY <1>7 DEF AheadGate, Return, Locals
<1>8. ASSUME NEW p \in Procs, ScanTake(p) PROVE IdTypes' /\ Calls'
  BY <1>3, <1>8 DEF ScanTake
<1>9. ASSUME NEW p \in Procs, ScanDirty(p) \/ ScanFail(p) \/ NeedSleep(p)
      PROVE  IdTypes' /\ Calls'
  BY <1>9 DEF ScanDirty, ScanFail, NeedSleep
<1>10. ASSUME NEW p \in Procs, Build(p) PROVE IdTypes' /\ Calls'
  <2>1. UNCHANGED <<op, blk>>
        /\ (pc' = [pc EXCEPT ![p] = "write"] \/ pc' = [pc EXCEPT ![p] = "buildwait"])
        /\ pc[p] \in {"build", "buildwait"}
    BY <1>10 DEF Build
  <2>2. PICK S : FlushFinish(p, S)
    BY <1>10 DEF Build
  <2>3. bno' \in [Bufs -> Blocks \cup {NODEV}]
    BY <2>2 DEF FlushFinish
  <2> QED BY <2>1, <2>3
<1>11. ASSUME NEW p \in Procs, WriteList(p) PROVE IdTypes' /\ Calls'
  <2>1. UNCHANGED <<op, blk>> /\ pc' = [pc EXCEPT ![p] = pc'[p]]
        /\ pc'[p] \in {"writewait", "scan", "syncwait"} /\ pc[p] \in {"write", "writewait"}
        /\ (pc'[p] = "scan" => ~Syncing(p)) /\ (pc'[p] = "syncwait" => Syncing(p))
    BY <1>11 DEF WriteList
  <2>2. bno' \in [Bufs -> Blocks \cup {NODEV}]
    BY <1>11 DEF WriteList, FlushFinish
  <2> QED BY <2>1, <2>2
<1>12. ASSUME NEW p \in Procs, SyncWait(p) PROVE IdTypes' /\ Calls'
  BY <1>12 DEF SyncWait, Return, Locals
<1>13. ASSUME NEW p \in Procs, ReadDone(p) PROVE IdTypes' /\ Calls'
  BY <1>13 DEF ReadDone, UnlockBlock, Woken, Return, Locals
<1>14. ASSUME NEW p \in Procs, UseRead(p) \/ UseWrite(p) \/ WriteDone(p)
       PROVE IdTypes' /\ Calls'
  BY <1>14 DEF UseRead, UseWrite, WriteDone, Store, Release, UnlockBlock, Woken, Return, Locals
<1>15. ASSUME NEW p \in Procs, UseStart(p) PROVE IdTypes' /\ Calls'
  BY <1>15 DEF UseStart, Return, Locals
<1>16. ASSUME NEW x \in Bufs, NEW ok \in BOOLEAN, biodone(x, ok) PROVE IdTypes' /\ Calls'
  <2>1. UNCHANGED <<op, blk>> /\ bno' \in [Bufs -> Blocks \cup {NODEV}]
    BY <1>16 DEF biodone
  <2>2. \A p \in Procs : pc'[p] = pc[p] \/ (pc[p] = "need" /\ pc'[p] = "rescan")
    BY <1>16 DEF biodone, UnlockBlock, Woken
  <2> QED BY <2>1, <2>2
<1>17. CASE UNCHANGED vars
  BY <1>17 DEF vars
<1> QED
  BY <1>1, <1>2, <1>4, <1>5, <1>6, <1>7, <1>8, <1>9, <1>10, <1>11, <1>12, <1>13, <1>14,
     <1>15, <1>16, <1>17 DEF Next

----------------------------------------------------------------------------
\* Only ScanTake gives a buffer a block; the other steps take it away at most.
Forgets == /\ hash' = hash
           /\ \A x \in Bufs : bno'[x] = bno[x] \/ bno'[x] = NODEV
           /\ \A p \in Procs : Missing(p)' =>
                /\ blk'[p] = blk[p]
                /\ Missing(p) \/ \A x \in Bufs : bno[x] # blk[p]

Takes(p, x) == /\ hash' = ToFront(hash, x) /\ bno' = [bno EXCEPT ![x] = blk[p]]
               /\ Missing(p) /\ ~Missing(p)'
               /\ \A q \in Procs : Missing(q)' => Missing(q) /\ blk'[q] = blk[q]

LEMMA StepsForget ==
  ASSUME LockInv, IdTypes, Calls, Hashed, Next
  PROVE  Forgets \/ \E p \in Procs, x \in Bufs : Takes(p, x)
<1>0. LockTypes /\ Owned
  BY DEF LockInv
<1> USE <1>0, BufAssumption DEF LockTypes, Owned, IdTypes, Calls, Missing, Syncing, Listing, At, bufVars, chains
<1>1. ASSUME NEW p \in Procs, NEW o \in Ops, NEW b \in Blocks \cup {NODEV},
             Call(p, o, b)
      PROVE  Forgets
  <2>1. /\ UNCHANGED <<bno, hash>> /\ pc[p] = "user"
        /\ op' = [op EXCEPT ![p] = o] /\ blk' = [blk EXCEPT ![p] = b]
    BY <1>1 DEF Call, Locals
  <2>2. o \in {"sync", "flush"} => pc' = [pc EXCEPT ![p] = "build"]
    BY <1>1 DEF Call
  <2>3. o \notin {"sync", "flush"} => pc' = [pc EXCEPT ![p] = "find"]
    BY <1>1 DEF Call
  <2> QED BY <2>1, <2>2, <2>3 DEF Forgets
<1>2. ASSUME NEW p \in Procs, FindMiss(p) PROVE Forgets
  <2>1. \A x \in Bufs : bno[x] # blk[p]
    BY <1>2, NotFound DEF FindMiss
  <2> QED BY <1>2, <2>1 DEF FindMiss, Forgets
<1>3. ASSUME NEW p \in Procs, FindBusy(p) PROVE Forgets
  BY <1>3 DEF FindBusy, Forgets
<1>4. ASSUME NEW p \in Procs, NEW x, NEW fl, NEW r, BreadClaimed(p, x, fl, r)
      PROVE  \A q \in Procs : Missing(q)' => q # p /\ Missing(q) /\ blk'[q] = blk[q]
  <2>1. /\ pc' = [pc EXCEPT ![p] = pc'[p]] /\ pc'[p] \in {"user", "iowait", "hold"}
    BY <1>4 DEF BreadClaimed
  <2>2. op' = [op EXCEPT ![p] = op'[p]] /\ blk' = [blk EXCEPT ![p] = blk'[p]]
    BY <1>4 DEF BreadClaimed, Return, Locals
  <2> QED BY <2>1, <2>2
<1>5. ASSUME NEW p \in Procs, FindHit(p) PROVE Forgets
  <2>1. UNCHANGED <<bno, hash>>
    BY <1>5 DEF FindHit, ClaimCached
  <2>2. PICK x, fl, r : BreadClaimed(p, x, fl, r)
    BY <1>5 DEF FindHit, ClaimCached
  <2> QED BY <1>4, <2>1, <2>2 DEF Forgets
<1>6. ASSUME NEW p \in Procs, GateFree(p) PROVE Forgets
  <2>1. CASE bno[buf[p]] = blk[p]
    <3>1. UNCHANGED <<bno, hash>>
      BY <1>6, <2>1 DEF GateFree, ClaimCached
    <3>2. PICK x, fl, r : BreadClaimed(p, x, fl, r)
      BY <1>6, <2>1 DEF GateFree, ClaimCached
    <3> QED BY <1>4, <3>1, <3>2 DEF Forgets
  <2>2. CASE bno[buf[p]] # blk[p]
    BY <1>6, <2>2 DEF GateFree, Forgets
  <2> QED BY <2>1, <2>2
<1>7. ASSUME NEW p \in Procs, AheadHit(p) \/ AheadGate(p) PROVE Forgets
  BY <1>7 DEF AheadHit, AheadGate, Return, Locals, Forgets
<1>8. ASSUME NEW p \in Procs, ScanTake(p) PROVE \E x \in Bufs : Takes(p, x)
  <2>1. Candidate(p) \in Bufs
    BY <1>8, Searches DEF ScanTake
  <2>2. /\ BreadClaimed(p, Candidate(p), {"NTP"}, "BWRITE")
        /\ bno' = [bno EXCEPT ![Candidate(p)] = blk[p]] /\ hash' = ToFront(hash, Candidate(p))
        /\ Missing(p)
    BY <1>8 DEF ScanTake
  <2> QED BY <1>4, <2>1, <2>2 DEF Takes
<1>9. ASSUME NEW p \in Procs, ScanDirty(p) \/ ScanFail(p) \/ NeedSleep(p) PROVE Forgets
  BY <1>9 DEF ScanDirty, ScanFail, NeedSleep, Forgets
<1>10. ASSUME NEW p \in Procs, Build(p) PROVE Forgets
  <2>1. UNCHANGED <<op, blk, hash>> /\ pc[p] \in {"build", "buildwait"}
        /\ (pc' = [pc EXCEPT ![p] = "write"] \/ pc' = [pc EXCEPT ![p] = "buildwait"])
    BY <1>10 DEF Build
  <2>2. PICK S : FlushFinish(p, S)
    BY <1>10 DEF Build
  <2>3. \A x \in Bufs : bno'[x] = bno[x] \/ bno'[x] = NODEV
    BY <2>2 DEF FlushFinish
  <2> QED BY <2>1, <2>3 DEF Forgets
<1>11. ASSUME NEW p \in Procs, WriteList(p) PROVE Forgets
  <2>1. UNCHANGED <<op, blk, hash>> /\ pc[p] \in {"write", "writewait"}
        /\ \/ pc' = [pc EXCEPT ![p] = "writewait"]
           \/ pc' = [pc EXCEPT ![p] = "syncwait"]
           \/ pc' = [pc EXCEPT ![p] = "scan"] /\ ~Syncing(p)
    BY <1>11 DEF WriteList
  <2>2. PICK S : FlushFinish(p, S)
    BY <1>11 DEF WriteList
  <2>3. \A x \in Bufs : bno'[x] = bno[x] \/ bno'[x] = NODEV
    BY <2>2 DEF FlushFinish
  <2> QED BY <2>1, <2>3 DEF Forgets
<1>12. ASSUME NEW p \in Procs, SyncWait(p) PROVE Forgets
  BY <1>12 DEF SyncWait, Return, Locals, Forgets
<1>13. ASSUME NEW p \in Procs, ReadDone(p) PROVE Forgets
  BY <1>13 DEF ReadDone, UnlockBlock, Woken, Return, Locals, Forgets
<1>14. ASSUME NEW p \in Procs, UseRead(p) \/ UseWrite(p) \/ WriteDone(p) PROVE Forgets
  BY <1>14 DEF UseRead, UseWrite, WriteDone, Release, UnlockBlock, Woken, Return, Locals, Forgets
<1>15. ASSUME NEW p \in Procs, UseStart(p) PROVE Forgets
  BY <1>15 DEF UseStart, Return, Locals, Forgets
<1>16. ASSUME NEW x \in Bufs, NEW ok \in BOOLEAN, biodone(x, ok) PROVE Forgets
  <2>1. UNCHANGED <<op, blk, hash>> /\ \A y \in Bufs : bno'[y] = bno[y] \/ bno'[y] = NODEV
    BY <1>16 DEF biodone
  <2>2. \A p \in Procs : pc'[p] = pc[p] \/ (pc[p] = "need" /\ pc'[p] = "rescan")
    BY <1>16 DEF biodone, UnlockBlock, Woken
  <2> QED BY <2>1, <2>2 DEF Forgets
<1> QED
  BY <1>1, <1>2, <1>3, <1>5, <1>6, <1>7, <1>8, <1>9, <1>10, <1>11, <1>12, <1>13, <1>14,
     <1>15, <1>16 DEF Next

\* A process that misses its block is the only one that can bring it in.
LEMMA AliasNext == PrivateUses /\ AliasInv /\ [Next]_vars => AliasInv'
<1> SUFFICES ASSUME PrivateUses, AliasInv, [Next]_vars PROVE AliasInv'
  OBVIOUS
<1>0. /\ LockInv /\ LockTypes /\ IdTypes /\ Calls /\ Hashed /\ Missed /\ NoAlias
      /\ LockInv' /\ IdTypes' /\ Calls'
  BY LockNext, CallsNext DEF AliasInv, LockInv
<1>1. \A p \in Procs : Missing(p) => blk[p] \in Uses[p] /\ blk[p] # NODEV
  BY <1>0, UsesIn DEF Calls, Missing, Listing, Syncing
<1>2. \A p \in Procs : Missing(p)' => blk'[p] # NODEV
  <2>1. \A p \in Procs : Missing(p)' => blk'[p] \in Uses[p]
    BY <1>0 DEF Calls, Missing, Listing, Syncing
  <2> QED BY <2>1, UsesIn
<1>3. CASE UNCHANGED vars
  BY <1>0, <1>3 DEF vars, AliasInv, Hashed, Missed, Missing, Listing, Syncing, NoAlias
<1>4. CASE Forgets
  <2>1. Hashed' /\ NoAlias'
    BY <1>0, <1>4 DEF Forgets, Hashed, NoAlias
  <2>2. Missed'
    BY <1>0, <1>2, <1>4 DEF Forgets, Missed
  <2> QED BY <1>0, <2>1, <2>2 DEF AliasInv
<1>5. ASSUME NEW p \in Procs, NEW x \in Bufs, Takes(p, x) PROVE AliasInv'
  <2>1. bno' = [bno EXCEPT ![x] = blk[p]] /\ Missing(p) /\ hash' = ToFront(hash, x)
    BY <1>5 DEF Takes
  <2>2. Hashed'
    <3>1. hash \in [Bufs -> Bufs] /\ \A y \in Bufs : \E i \in Bufs : hash[i] = y
      BY <1>0 DEF Hashed, LockTypes
    <3>2. \A y \in Bufs : \E i \in Bufs : ToFront(hash, x)[i] = y
      BY <3>1, FrontKeeps
    <3> QED BY <2>1, <3>2 DEF Hashed
  <2>3. NoAlias'
    BY <1>0, <2>1 DEF Missed, NoAlias, IdTypes
  <2>4. ASSUME NEW q \in Procs, Missing(q)', NEW y \in Bufs PROVE bno'[y] # blk'[q]
    <3>1. Missing(q) /\ blk'[q] = blk[q] /\ q # p
      BY <1>5, <2>4 DEF Takes
    <3>2. blk[q] # blk[p]
      BY <1>1, <2>1, <3>1 DEF PrivateUses
    <3> QED BY <1>0, <2>1, <3>1, <3>2 DEF Missed, IdTypes
  <2>5. Missed'
    BY <2>4 DEF Missed
  <2> QED BY <1>0, <2>2, <2>3, <2>5 DEF AliasInv
<1>6. Next => Forgets \/ \E p \in Procs, x \in Bufs : Takes(p, x)
  BY <1>0, StepsForget
<1> QED BY <1>3, <1>4, <1>5, <1>6

(***************************************************************************)
(* When processes use blocks of their own, a block is never in two         *)
(* buffers, although bclaim sleeps between its failed search for the block *)
(* and the moment when it names a buffer for it.                           *)
(***************************************************************************)
THEOREM BufferNoAlias == ASSUME PrivateUses PROVE Spec => []NoAlias
<1>1. AliasInv /\ [Next]_vars => AliasInv'
  BY AliasNext
<1>2. AliasInv => NoAlias
  BY DEF AliasInv
<1> QED BY <1>1, <1>2, AliasInit, PTL DEF Spec

----------------------------------------------------------------------------
\* What is known of a state of the cache under the two hypotheses.
StoreInv == AliasInv /\ DataInv
Sound == PrivateUses /\ WritesSucceed /\ StoreInv

LEMMA StoreFacts ==
  ASSUME Sound
  PROVE  /\ LockTypes /\ Owned /\ Transfers /\ Counted /\ Async
         /\ IdTypes /\ Calls /\ NoAlias
         /\ DataTypes /\ Held /\ Current /\ Named /\ Directed /\ Pending
         /\ AheadClean /\ NoLostUpdate
BY DEF Sound, StoreInv, AliasInv, LockInv, DataInv

LEMMA StoreInit == Init => DataInv
BY BufAssumption DEF Init, DataInv, DataTypes, Held, Current, Named, Directed, Pending,
     AheadClean, NoLostUpdate, Owning, NODEV

\* An unlocked buffer that holds a block is valid.
LEMMA FreeIsValid ==
  ASSUME Sound, NEW x \in Bufs, gate[x] = None, bno[x] # NODEV
  PROVE  flag[x] \cap {"NTP", "ERR"} = {} /\ x \notin io
<1>1. Owned /\ Transfers /\ Pending /\ Named /\ LockTypes
  BY StoreFacts
<1>2. \A p \in Procs : ~ OwnedBy(x, p)
  BY BufAssumption DEF OwnedBy
<1> QED BY <1>1, <1>2 DEF Transfers, Pending, Named, LockTypes

----------------------------------------------------------------------------
\* The contents do not change.
Still == UNCHANGED <<bno, flag, req, iodone, body, io, gate, disk, latest>>

\* A step of p in which it neither gets nor leaves a buffer.
Passes(p) ==
  /\ Still
  /\ pc[p] \notin Owning /\ pc'[p] \notin Owning
  /\ \A q \in Procs \ {p} : pc'[q] = pc[q] /\ buf'[q] = buf[q] /\ blk'[q] = blk[q] /\ op'[q] = op[q]
  /\ pc'[p] = "ragate" /\ bno[buf'[p]] = blk'[p]
       => "MOD" \notin flag[buf'[p]] \/ buf'[p] \in io

LEMMA PassKeeps == ASSUME Sound, NEW p \in Procs, Passes(p) PROVE DataInv'
<1>1. DataTypes /\ Held /\ Current /\ Named /\ Directed /\ Pending /\ AheadClean /\ NoLostUpdate
  BY StoreFacts
<1> USE <1>1 DEF Passes, Still
<1>2. DataTypes' /\ Current' /\ Named' /\ Directed' /\ NoLostUpdate'
  BY DEF DataTypes, Current, Named, Directed, NoLostUpdate
<1>3. Held'
  BY DEF Held
<1>4. Pending'
  BY DEF Pending, OwnedBy
<1>5. AheadClean'
  BY DEF AheadClean
<1> QED BY <1>2, <1>3, <1>4, <1>5 DEF DataInv

\* Whoever locks a buffer that is not valid is transferring it.
LEMMA AheadWaits ==
  ASSUME Sound, NEW p \in Procs, NEW x \in Bufs, pc[p] = "find", ~Syncing(p),
         bno[x] = blk[p], "NTP" \in flag[x]
  PROVE  x \in io
<1>1. Calls /\ Held /\ Pending /\ Named /\ PrivateUses
  BY StoreFacts DEF Sound
<1>2. blk[p] \in Uses[p] /\ blk[p] # NODEV
  BY <1>1, UsesIn DEF Calls
<1>3. ASSUME NEW q \in Procs, OwnedBy(x, q) PROVE FALSE
  <2>1. pc[q] \in Owning /\ buf[q] = x /\ q # p
    BY <1>3 DEF OwnedBy, Owning
  <2>2. bno[x] = blk[q]
    BY <1>1, <1>2, <2>1 DEF Held, Named
  <2>3. blk[q] \in Uses[q]
    BY <1>1, <2>1 DEF Calls, Owning, Listing
  <2> QED BY <1>1, <1>2, <2>1, <2>2, <2>3 DEF PrivateUses
<1> QED BY <1>1, <1>2, <1>3 DEF Pending

PassStep(p) ==
  \/ \E o \in Ops, b \in Blocks \cup {NODEV} : Call(p, o, b)
  \/ FindMiss(p) \/ FindBusy(p) \/ (GateFree(p) /\ bno[buf[p]] # blk[p])
  \/ AheadHit(p) \/ (AheadGate(p) /\ bno[buf[p]] # blk[p])
  \/ ScanDirty(p) \/ ScanFail(p) \/ NeedSleep(p) \/ SyncWait(p)

LEMMA PassSteps == ASSUME Sound, NEW p \in Procs, PassStep(p) PROVE Passes(p)
<1>0. LockTypes /\ IdTypes /\ Calls
  BY StoreFacts
<1>1. ASSUME NEW o \in Ops, NEW b \in Blocks \cup {NODEV}, Call(p, o, b) PROVE Passes(p)
  <2>1. Still /\ pc[p] = "user"
    BY <1>1 DEF Call, Still, bufVars, At
  <2>2. /\ op' = [op EXCEPT ![p] = o] /\ blk' = [blk EXCEPT ![p] = b]
        /\ buf' = [buf EXCEPT ![p] = 0]
    BY <1>1 DEF Call, Locals
  <2>3. pc' = [pc EXCEPT ![p] = "build"] \/ pc' = [pc EXCEPT ![p] = "find"]
    BY <1>1 DEF Call
  <2> QED BY <1>0, <2>1, <2>2, <2>3 DEF Passes, Owning, LockTypes, IdTypes
<1>2. ASSUME AheadHit(p) PROVE Passes(p)
  <2> DEFINE x == Found(blk[p])
  <2>1. Still /\ pc[p] = "find" /\ op[p] = "ahead"
    BY <1>2 DEF AheadHit, Still, bufVars, At
  <2>2. x \in Bufs /\ bno[x] = blk[p]
    BY <1>0, <1>2, FoundIs DEF AheadHit
  <2>3. CASE "NTP" \notin flag[x] \/ "ASY" \in flag[x]
    <3>1. pc' = [pc EXCEPT ![p] = "user"] /\ op' = [op EXCEPT ![p] = "none"]
          /\ blk' = [blk EXCEPT ![p] = NODEV] /\ buf' = [buf EXCEPT ![p] = 0]
      BY <1>2, <2>3 DEF AheadHit, Return, Locals
    <3> QED BY <1>0, <2>1, <3>1 DEF Passes, Owning, LockTypes, IdTypes
  <2>4. CASE ~ ("NTP" \notin flag[x] \/ "ASY" \in flag[x])
    <3>1. pc' = [pc EXCEPT ![p] = "ragate"] /\ buf' = [buf EXCEPT ![p] = x]
          /\ UNCHANGED <<op, blk>>
      BY <1>2, <2>4 DEF AheadHit
    <3>2. x \in io
      BY <2>1, <2>2, <2>4, AheadWaits DEF Syncing
    <3> HIDE DEF x
    <3> QED BY <1>0, <2>1, <3>1, <3>2 DEF Passes, Owning, LockTypes, IdTypes
  <2> QED BY <2>3, <2>4
<1>3. ASSUME \/ FindMiss(p) \/ FindBusy(p) \/ (GateFree(p) /\ bno[buf[p]] # blk[p])
             \/ (AheadGate(p) /\ bno[buf[p]] # blk[p])
             \/ ScanDirty(p) \/ ScanFail(p) \/ NeedSleep(p) \/ SyncWait(p)
      PROVE  Passes(p)
  <2>1. Still /\ pc[p] \in {"find", "gate", "ragate", "scan", "rescan", "none", "syncwait"}
    BY <1>3 DEF FindMiss, FindBusy, GateFree, AheadGate, ScanDirty, ScanFail, NeedSleep,
                SyncWait, Still, bufVars, At
  <2>2. \E c \in {"scan", "gate", "find", "build", "none", "need", "user"} :
           pc' = [pc EXCEPT ![p] = c]
    BY <1>3 DEF FindMiss, FindBusy, GateFree, AheadGate, ScanDirty, ScanFail, NeedSleep, SyncWait
  <2>3. /\ \E o : op' = [op EXCEPT ![p] = o]
        /\ \E b : blk' = [blk EXCEPT ![p] = b]
        /\ \E x : buf' = [buf EXCEPT ![p] = x]
    <3>1. op' = op \/ op' = [op EXCEPT ![p] = "none"] \/ op' = [op EXCEPT ![p] = "ahead_sync"]
      BY <1>3 DEF FindMiss, FindBusy, GateFree, AheadGate, ScanDirty, ScanFail, NeedSleep,
                  SyncWait, Return, Locals
    <3>2. blk' = blk \/ blk' = [blk EXCEPT ![p] = NODEV]
      BY <1>3 DEF FindMiss, FindBusy, GateFree, AheadGate, ScanDirty, ScanFail, NeedSleep,
                  SyncWait, Return, Locals
    <3>3. \/ buf' = buf \/ buf' = [buf EXCEPT ![p] = 0]
          \/ buf' = [buf EXCEPT ![p] = Found(blk[p])] \/ buf' = [buf EXCEPT ![p] = Candidate(p)]
      BY <1>3 DEF FindMiss, FindBusy, GateFree, AheadGate, ScanDirty, ScanFail, NeedSleep,
                  SyncWait, Return, Locals
    <3>4. op = [op EXCEPT ![p] = op[p]] /\ blk = [blk EXCEPT ![p] = blk[p]]
          /\ buf = [buf EXCEPT ![p] = buf[p]]
      BY <1>0 DEF LockTypes, IdTypes
    <3> QED BY <3>1, <3>2, <3>3, <3>4
  <2> QED BY <1>0, <2>1, <2>2, <2>3 DEF Passes, Owning, LockTypes, IdTypes
<1> QED BY <1>1, <1>2, <1>3 DEF PassStep

----------------------------------------------------------------------------
\* bclaim of a cached buffer: the lock of a valid buffer is given to p.
LEMMA GrantKeeps ==
  ASSUME Sound, NEW p \in Procs, NEW x \in Bufs, gate[x] = None, bno[x] = blk[p],
         pc[p] \in {"find", "gate"}, ClaimCached(p, x)
  PROVE  DataInv'
<1>0. /\ LockTypes /\ IdTypes /\ Calls /\ DataTypes /\ Held /\ Current /\ Named /\ Directed
      /\ Pending /\ AheadClean /\ NoLostUpdate /\ Counted
  BY StoreFacts
<1>1. blk[p] \in Uses[p] /\ blk[p] # NODEV
  BY <1>0, UsesIn DEF Calls, Listing, Syncing
<1>2. flag[x] \cap {"NTP", "ERR"} = {} /\ x \notin io
  BY <1>1, FreeIsValid
<1>3. /\ flag' = flag /\ io' = io /\ req' = [req EXCEPT ![x] = "BWRITE"]
      /\ gate' = [gate EXCEPT ![x] = p]
      /\ UNCHANGED <<bno, iodone, body, disk, latest>>
  <2>1. BreadClaimed(p, x, flag[x], "BWRITE") /\ "NTP" \notin flag[x]
    BY <1>2 DEF ClaimCached
  <2>2. flag' = [flag EXCEPT ![x] = flag[x]] /\ io' = io /\ req' = [req EXCEPT ![x] = "BWRITE"]
        /\ gate' = [gate EXCEPT ![x] = p]
    BY <2>1 DEF BreadClaimed
  <2>3. flag' = flag
    BY <1>0, <2>2 DEF LockTypes
  <2> QED BY <2>2, <2>3 DEF ClaimCached
<1>4. /\ \A q \in Procs \ {p} : pc'[q] = pc[q] /\ buf'[q] = buf[q] /\ blk'[q] = blk[q] /\ op'[q] = op[q]
      /\ \/ pc'[p] = "user"
         \/ pc'[p] = "hold" /\ buf'[p] = x /\ blk'[p] = blk[p]
  <2>1. BreadClaimed(p, x, flag[x], "BWRITE") /\ "NTP" \notin flag[x]
    BY <1>2 DEF ClaimCached
  <2>2. CASE op[p] \in {"ahead", "ahead_sync"}
    BY <1>0, <2>1, <2>2 DEF BreadClaimed, Return, Locals, LockTypes, IdTypes
  <2>3. CASE op[p] \notin {"ahead", "ahead_sync"}
    BY <1>0, <2>1, <2>3 DEF BreadClaimed, LockTypes, IdTypes
  <2> QED BY <2>2, <2>3
<1>5. DataTypes' /\ Current' /\ Named' /\ NoLostUpdate'
  BY <1>0, <1>3 DEF DataTypes, Current, Named, NoLostUpdate
<1>6. Directed'
  BY <1>0, <1>2, <1>3 DEF Directed, DataTypes
<1>7. Held'
  BY <1>0, <1>2, <1>3, <1>4 DEF Held, Owning
<1>8. Pending'
  BY <1>0, <1>2, <1>3, <1>4 DEF Pending, OwnedBy, Owning, LockTypes
<1>9. AheadClean'
  BY <1>0, <1>3, <1>4 DEF AheadClean
<1> QED BY <1>5, <1>6, <1>7, <1>8, <1>9 DEF DataInv

\* bclaim of a clean buffer for another block.
LEMMA TakeKeeps == ASSUME Sound, NEW p \in Procs, ScanTake(p) PROVE DataInv'
<1>0. /\ LockTypes /\ IdTypes /\ Calls /\ DataTypes /\ Held /\ Current /\ Named /\ Directed
      /\ Pending /\ AheadClean /\ NoLostUpdate /\ Counted /\ Transfers /\ Owned
  BY StoreFacts
<1>1. PICK x \in Bufs : x = Candidate(p) /\ gate[x] = None /\ "MOD" \notin flag[x]
  BY <1>0, Searches DEF ScanTake
<1>2. /\ pc[p] \in {"scan", "rescan"} /\ bno' = [bno EXCEPT ![x] = blk[p]]
      /\ iodone' = [iodone EXCEPT ![x] = "none"]
      /\ BreadClaimed(p, x, {"NTP"}, "BWRITE")
      /\ UNCHANGED <<body, disk, latest>>
  BY <1>1 DEF ScanTake, At
<1>3. blk[p] \in Uses[p] /\ blk[p] # NODEV /\ blk[p] \in Blocks
  BY <1>0, <1>2, UsesIn DEF Calls, Listing, Syncing
<1>4. x \notin io /\ \A q \in Procs : pc[q] \in Owning => buf[q] # x /\ buf[q] \in Bufs
  BY <1>0, <1>1, BufAssumption DEF Transfers, Owned
<1>5. flag' = [flag EXCEPT ![x] = {"NTP", "ASY"}] \/ flag' = [flag EXCEPT ![x] = {"NTP"}]
  <2>1. \/ flag' = [flag EXCEPT ![x] = {"NTP"} \cup {"ASY"}]
        \/ flag' = [flag EXCEPT ![x] = {"NTP"}]
    BY <1>2 DEF BreadClaimed
  <2>2. {"NTP"} \cup {"ASY"} = {"NTP", "ASY"}
    OBVIOUS
  <2> QED BY <2>1, <2>2
<1>6. \/ /\ io' = io \cup {x} /\ req' = [req EXCEPT ![x] = "BREAD"]
         /\ pc'[p] \in {"user", "iowait"}
         /\ gate'[x] # None
      \/ /\ io' = io /\ req' = [req EXCEPT ![x] = "BWRITE"]
         /\ pc'[p] = "hold" /\ gate'[x] = p
         /\ op[p] \in {"claim", "super"}
  <2>1. CASE op[p] \in {"claim", "super"}
    BY <1>0, <1>2, <2>1 DEF BreadClaimed, LockTypes
  <2>2. CASE op[p] \notin {"claim", "super"}
    BY <1>0, <1>2, <2>2, BufAssumption DEF BreadClaimed, LockTypes
  <2> QED BY <2>1, <2>2
<1>7. /\ \A q \in Procs \ {p} : pc'[q] = pc[q] /\ buf'[q] = buf[q] /\ blk'[q] = blk[q] /\ op'[q] = op[q]
      /\ \/ pc'[p] = "user"
         \/ pc'[p] \in {"hold", "iowait"} /\ buf'[p] = x /\ blk'[p] = blk[p] /\ op'[p] = op[p]
  <2>2. CASE op[p] \in {"ahead", "ahead_sync"}
    BY <1>0, <1>2, <2>2 DEF BreadClaimed, Return, Locals, LockTypes, IdTypes
  <2>3. CASE op[p] \notin {"ahead", "ahead_sync"}
    BY <1>0, <1>2, <2>3 DEF BreadClaimed, LockTypes, IdTypes
  <2> QED BY <2>2, <2>3
<1>8. \A y \in Bufs \ {x} : gate'[y] = gate[y]
  BY <1>0, <1>2 DEF BreadClaimed, LockTypes
<1>a. pc[p] \notin Owning
  BY <1>2 DEF Owning
<1>b. /\ \A y \in Bufs \ {x} : bno'[y] = bno[y] /\ flag'[y] = flag[y] /\ (y \in io' <=> y \in io)
                               /\ req'[y] = req[y] /\ iodone'[y] = iodone[y]
      /\ bno'[x] = blk[p] /\ "NTP" \in flag'[x] /\ "MOD" \notin flag'[x] /\ "ERR" \notin flag'[x]
      /\ iodone'[x] = "none"
  BY <1>0, <1>2, <1>5, <1>6 DEF LockTypes, IdTypes, DataTypes
<1>9. DataTypes'
  BY <1>0, <1>2, <1>6 DEF DataTypes
<1>10. Current' /\ Named'
  BY <1>0, <1>2, <1>3, <1>b DEF Current, Named
<1>11. Directed'
  <2>1. x \in io' => req'[x] = "BREAD"
    BY <1>0, <1>4, <1>6 DEF DataTypes
  <2> QED BY <1>0, <1>b, <2>1 DEF Directed
<1>12. Held'
  <2>1. ASSUME NEW q \in Procs, q # p, pc'[q] \in Owning
        PROVE  /\ bno'[buf'[q]] = blk'[q] \/ (pc'[q] = "iowait" /\ "ERR" \in flag'[buf'[q]])
               /\ pc'[q] = "hold" /\ op'[q] \in {"read", "write"} => "NTP" \notin flag'[buf'[q]]
               /\ pc'[q] = "wwait" /\ buf'[q] \in io' => "MOD" \in flag'[buf'[q]]
    BY <1>0, <1>4, <1>7, <1>b, <2>1 DEF Held
  <2>2. ASSUME pc'[p] \in Owning
        PROVE  /\ bno'[buf'[p]] = blk'[p]
               /\ pc'[p] # "wwait"
               /\ pc'[p] = "hold" => op'[p] \in {"claim", "super"}
    BY <1>6, <1>7, <1>b, <2>2 DEF Owning
  <2> QED BY <2>1, <2>2 DEF Held
<1>13. Pending'
  <2>1. x \in io' \/ OwnedBy(x, p)'
    BY <1>6, <1>7 DEF OwnedBy, Owning
  <2>2. ASSUME NEW y \in Bufs, y # x, NEW q \in Procs, OwnedBy(y, q) PROVE OwnedBy(y, q)'
    BY <1>7, <1>8, <1>a, <2>2 DEF OwnedBy
  <2> QED BY <1>0, <1>b, <2>1, <2>2 DEF Pending
<1>14. AheadClean'
  <2>1. ASSUME NEW q \in Procs, pc'[q] = "ragate", bno'[buf'[q]] = blk'[q]
        PROVE  "MOD" \notin flag'[buf'[q]] \/ buf'[q] \in io'
    <3>1. q # p /\ pc[q] = "ragate" /\ buf'[q] = buf[q] /\ blk'[q] = blk[q] /\ buf[q] \in Bufs
      BY <1>0, <1>7, <2>1 DEF Owned
    <3> QED BY <1>0, <1>b, <2>1, <3>1 DEF AheadClean
  <2> QED BY <2>1 DEF AheadClean
<1>15. NoLostUpdate'
  BY <1>0, <1>1, <1>2, <1>b DEF NoLostUpdate
<1> QED BY <1>9, <1>10, <1>11, <1>12, <1>13, <1>14, <1>15 DEF DataInv

\* The late read of read-ahead finds a clean buffer.
LEMMA AheadKeeps ==
  ASSUME Sound, NEW p \in Procs, AheadGate(p), bno[buf[p]] = blk[p]
  PROVE  DataInv'
<1>0. /\ LockTypes /\ IdTypes /\ Calls /\ DataTypes /\ Held /\ Current /\ Named /\ Directed
      /\ Pending /\ AheadClean /\ NoLostUpdate /\ Counted /\ Transfers /\ Owned
  BY StoreFacts
<1>1. PICK x \in Bufs : x = buf[p] /\ gate[x] = None /\ bno[x] = blk[p] /\ pc[p] = "ragate"
  BY <1>0 DEF Owned, AheadGate, At
<1>2. blk[p] # NODEV
  BY <1>0, <1>1, UsesIn DEF Calls, Listing, Syncing
<1>3. "NTP" \notin flag[x] /\ "ERR" \notin flag[x] /\ x \notin io /\ iodone[x] = "none"
      /\ "MOD" \notin flag[x]
  BY <1>0, <1>1, <1>2, FreeIsValid DEF Counted, LockTypes, AheadClean
<1>4. /\ flag' = [flag EXCEPT ![x] = @ \cup {"ASY"}]
      /\ req' = [req EXCEPT ![x] = "BREAD"] /\ io' = io \cup {x}
      /\ gate' = [gate EXCEPT ![x] = Intr]
      /\ pc' = [pc EXCEPT ![p] = "user"]
      /\ UNCHANGED <<bno, iodone, body, disk, latest>>
      /\ \A q \in Procs \ {p} : buf'[q] = buf[q] /\ blk'[q] = blk[q] /\ op'[q] = op[q]
  BY <1>0, <1>1 DEF AheadGate, Return, Locals, LockTypes, IdTypes
<1>5. DataTypes' /\ Current' /\ Named' /\ NoLostUpdate'
  BY <1>0, <1>2, <1>1, <1>4 DEF DataTypes, Current, Named, NoLostUpdate, LockTypes
<1>6. Directed'
  BY <1>0, <1>3, <1>4 DEF Directed, DataTypes, LockTypes
<1>8. \A q \in Procs : /\ pc[q] \in Owning => buf[q] \in Bufs /\ buf[q] # x /\ q # p
                       /\ pc'[q] \in Owning => pc[q] \in Owning /\ pc'[q] = pc[q]
                       /\ pc'[q] = "ragate" => pc[q] = "ragate" /\ q # p
  BY <1>0, <1>1, <1>4, BufAssumption DEF Owned, Owning, LockTypes
<1>9. Held'
  BY <1>0, <1>4, <1>8 DEF Held, LockTypes, Owning
<1>10. Pending'
  BY <1>0, <1>1, <1>4, <1>8 DEF Pending, OwnedBy, LockTypes
<1>7. Held' /\ Pending' /\ AheadClean'
  BY <1>0, <1>1, <1>4, <1>8, <1>9, <1>10 DEF AheadClean, LockTypes
<1> QED BY <1>5, <1>6, <1>7 DEF DataInv

\* buffer_wait returns: the buffer is valid.
LEMMA ReadKeeps ==
  ASSUME Sound, NEW p \in Procs, ReadDone(p), "ERR" \notin flag[buf[p]]
  PROVE  DataInv'
<1>0. /\ LockTypes /\ IdTypes /\ DataTypes /\ Held /\ Current /\ Named /\ Directed
      /\ Pending /\ AheadClean /\ NoLostUpdate
  BY StoreFacts
<1>1. /\ Still /\ pc[p] = "iowait" /\ pc' = [pc EXCEPT ![p] = "hold"]
      /\ UNCHANGED <<op, blk, buf>> /\ "NTP" \notin flag[buf[p]]
  BY DEF ReadDone, Still, At
<1>2. DataTypes' /\ Current' /\ Named' /\ Directed' /\ NoLostUpdate'
  BY <1>0, <1>1 DEF Still, DataTypes, Current, Named, Directed, NoLostUpdate
<1>3. Held' /\ Pending' /\ AheadClean'
  BY <1>0, <1>1 DEF Still, Held, Pending, OwnedBy, AheadClean, Owning, LockTypes
<1> QED BY <1>2, <1>3 DEF DataInv

----------------------------------------------------------------------------
\* general_sync of p visits unlocked buffers: the dirty ones in start are
\* written, the clean ones in fin lose their block.
Sweeps(p, start, fin) ==
  /\ start \subseteq Bufs /\ fin \subseteq Bufs
  /\ \A x \in start : /\ gate[x] = None /\ "MOD" \in flag[x] /\ "MOD" \in flag'[x]
                      /\ "ERR" \notin flag'[x]
                      /\ bno'[x] = bno[x] /\ x \in io' /\ req'[x] = "BWRITE" /\ gate'[x] # None
  /\ \A x \in fin : /\ gate[x] = None /\ "MOD" \notin flag[x] /\ flag'[x] = {"NTP"}
                    /\ bno'[x] = NODEV /\ (x \in io' <=> x \in io)
                    /\ req'[x] = req[x] /\ gate'[x] = gate[x] /\ iodone'[x] = iodone[x]
  /\ \A x \in Bufs \ (start \cup fin) :
       /\ flag'[x] = flag[x] /\ bno'[x] = bno[x] /\ (x \in io' <=> x \in io)
       /\ req'[x] = req[x] /\ gate'[x] = gate[x] /\ iodone'[x] = iodone[x]
  /\ req' \in [Bufs -> {"BREAD", "BWRITE"}]
  /\ UNCHANGED <<body, disk, latest, op, blk, buf>>
  /\ \A q \in Procs \ {p} : pc'[q] = pc[q]
  /\ {pc[p], pc'[p]} \cap (Owning \cup {"ragate"}) = {}

LEMMA SweepKeeps ==
  ASSUME Sound, NEW p \in Procs, NEW start, NEW fin, Sweeps(p, start, fin)
  PROVE  DataInv'
<1>0. /\ LockTypes /\ IdTypes /\ Calls /\ DataTypes /\ Held /\ Current /\ Named /\ Directed
      /\ Pending /\ AheadClean /\ NoLostUpdate /\ Owned /\ Transfers
  BY StoreFacts
<1>1. \A q \in Procs : pc[q] \in Owning =>
        buf[q] \in Bufs /\ buf[q] \notin start /\ buf[q] \notin fin
  BY <1>0, BufAssumption DEF Owned, Sweeps
<1>2. \A x \in start \cup fin : x \notin io
  BY <1>0 DEF Transfers, Sweeps
<1>3. DataTypes'
  BY <1>0 DEF Sweeps, DataTypes
<1>4. Current'
  BY <1>0 DEF Sweeps, Current
<1>5. Named'
  BY <1>0, <1>2 DEF Sweeps, Named
<1>6. Directed'
  BY <1>0, <1>2 DEF Sweeps, Directed
<1>7. Held'
  BY <1>0, <1>1 DEF Sweeps, Held
<1>8. Pending'
  BY <1>0, <1>1 DEF Sweeps, Pending, OwnedBy
<1>9. AheadClean'
  <2>1. ASSUME NEW q \in Procs, pc'[q] = "ragate", bno'[buf'[q]] = blk'[q]
        PROVE  "MOD" \notin flag'[buf'[q]] \/ buf'[q] \in io'
    <3>1. pc[q] = "ragate" /\ buf[q] \in Bufs /\ buf'[q] = buf[q] /\ blk'[q] = blk[q]
      BY <1>0, <2>1 DEF Owned, Sweeps
    <3>2. blk[q] # NODEV
      BY <1>0, <3>1, UsesIn DEF Calls, Listing, Syncing
    <3>3. CASE buf[q] \in start
      BY <3>1, <3>3 DEF Sweeps
    <3>4. CASE buf[q] \in fin
      BY <2>1, <3>1, <3>2, <3>4 DEF Sweeps
    <3>5. CASE buf[q] \notin start \cup fin
      BY <1>0, <2>1, <3>1, <3>5 DEF Sweeps, AheadClean
    <3> QED BY <3>3, <3>4, <3>5
  <2> QED BY <2>1 DEF AheadClean
<1>10. NoLostUpdate'
  <2>1. ASSUME NEW b \in Blocks, disk[b] # latest[b]
        PROVE  \E x \in Bufs : bno'[x] = b /\ body'[x] = latest'[b] /\ "MOD" \in flag'[x]
    <3>1. PICK x \in Bufs : bno[x] = b /\ body[x] = latest[b] /\ "MOD" \in flag[x]
      BY <1>0, <2>1 DEF NoLostUpdate
    <3> QED BY <3>1 DEF Sweeps
  <2>2. UNCHANGED <<disk, latest>>
    BY DEF Sweeps
  <2> QED BY <2>1, <2>2 DEF NoLostUpdate
<1> QED BY <1>3, <1>4, <1>5, <1>6, <1>7, <1>8, <1>9, <1>10 DEF DataInv

\* What build_sync_list visits in one step.
BuildEnd(p) == FirstLocked({x \in Bufs : x >= idx[p]})
BuildFin(p) == {x \in Bufs : idx[p] <= x /\ x < BuildEnd(p) /\ op[p] = "flush" /\ Clean(p, x)}

LEMMA BuildSweeps ==
  ASSUME Sound, NEW p \in Procs, Build(p)
  PROVE  Sweeps(p, {}, BuildFin(p))
<1>0. LockTypes /\ IdTypes /\ DataTypes
  BY StoreFacts
<1>1. \A x \in BuildFin(p) : gate[x] = None /\ "MOD" \notin flag[x] /\ op[p] = "flush"
  <2>1. {x \in Bufs : x >= idx[p]} \subseteq Bufs
    OBVIOUS
  <2>2. \A x \in {x \in Bufs : x >= idx[p]} : x < BuildEnd(p) => gate[x] = None
    BY <2>1, FirstIs DEF BuildEnd
  <2>3. \A x \in BuildFin(p) : x \in Bufs /\ idx[p] <= x /\ x < BuildEnd(p) /\ Clean(p, x) /\ op[p] = "flush"
    BY DEF BuildFin
  <2>4. \A x \in BuildFin(p) : x >= idx[p]
    BY <2>3
  <2>5. \A x \in BuildFin(p) : gate[x] = None
    BY <2>2, <2>3, <2>4
  <2> QED BY <2>3, <2>5 DEF Clean
<1>2. /\ FlushFinish(p, BuildFin(p))
      /\ flag' = [x \in Bufs |-> IF x \in BuildFin(p) THEN {"NTP"} ELSE flag[x]]
  <2>1. BuildFin(p) = {x \in {x \in Bufs : idx[p] <= x /\ x < BuildEnd(p)} :
                           op[p] = "flush" /\ Clean(p, x)}
    BY DEF BuildFin
  <2> QED BY <2>1 DEF Build, BuildEnd
<1>3. \A x \in Bufs : bno'[x] = IF x \in BuildFin(p) THEN NODEV ELSE bno[x]
  BY <1>1, <1>2 DEF FlushFinish
<1>4. UNCHANGED <<req, iodone, gate, io, body, disk, latest, op, blk, buf>>
  BY DEF Build
<1>5. pc[p] \in {"build", "buildwait"}
      /\ (pc' = [pc EXCEPT ![p] = "write"] \/ pc' = [pc EXCEPT ![p] = "buildwait"])
  BY DEF Build, At
<1>6. BuildFin(p) \subseteq Bufs
  BY DEF BuildFin
<1> HIDE DEF BuildFin
<1>7. {pc[p], pc'[p]} \cap (Owning \cup {"ragate"}) = {} /\ \A q \in Procs \ {p} : pc'[q] = pc[q]
  BY <1>0, <1>5 DEF LockTypes, Owning
<1> QED BY <1>0, <1>1, <1>2, <1>3, <1>4, <1>6, <1>7 DEF Sweeps, DataTypes

\* What the second loop of general_sync takes in one step.
Taken(p) == {x \in list[p] : \A y \in list[p] : gate[y] # None => (y # x /\ Before(x, y))}
Starts(p) == {x \in Taken(p) : Dirty(p, x) /\ "ERR" \notin flag[x]}
Ends(p) == {x \in Taken(p) : op[p] = "flush" /\ Clean(p, x) /\ "ERR" \notin flag[x]}

LEMMA WriteSweeps ==
  ASSUME Sound, NEW p \in Procs, WriteList(p)
  PROVE  Sweeps(p, Starts(p), Ends(p))
<1>0. LockTypes /\ IdTypes /\ DataTypes
  BY StoreFacts
<1>1. /\ Taken(p) \subseteq Bufs /\ \A x \in Taken(p) : gate[x] = None
      /\ \A x \in Starts(p) : "MOD" \in flag[x] /\ "ERR" \notin flag[x]
      /\ \A x \in Ends(p) : "MOD" \notin flag[x] /\ op[p] = "flush"
      /\ Starts(p) \subseteq Taken(p) /\ Ends(p) \subseteq Taken(p)
      /\ Starts(p) \cap Ends(p) = {}
  BY <1>0 DEF Taken, Starts, Ends, LockTypes, Dirty, Clean
<1>2. /\ flag' = [x \in Bufs |->
           CASE x \in Starts(p) /\ Syncing(p) -> (flag[x] \ {"ASY"}) \cup {"NTP"}
             [] x \in Starts(p) /\ ~Syncing(p) -> flag[x] \cup {"ASY", "NTP"}
             [] x \in Ends(p) -> {"NTP"}
             [] OTHER -> flag[x]]
      /\ FlushFinish(p, Ends(p))
      /\ req' = [x \in Bufs |-> IF x \in Starts(p) THEN "BWRITE" ELSE req[x]]
      /\ iodone' = [x \in Bufs |->
           CASE x \in Starts(p) /\ op[p] = "sync" -> "sync_iodone"
             [] x \in Starts(p) /\ op[p] = "flush" -> "bflush_iodone"
             [] OTHER -> iodone[x]]
      /\ gate' = [x \in Bufs |->
           CASE x \in Starts(p) /\ Syncing(p) -> p
             [] x \in Starts(p) /\ ~Syncing(p) -> Intr
             [] OTHER -> gate[x]]
      /\ io' = io \cup Starts(p)
  BY DEF WriteList, Taken, Starts, Ends
<1>3. UNCHANGED <<body, disk, latest, op, blk, buf>> /\ pc[p] \in {"write", "writewait"}
      /\ \/ pc' = [pc EXCEPT ![p] = "writewait"] \/ pc' = [pc EXCEPT ![p] = "syncwait"]
         \/ pc' = [pc EXCEPT ![p] = "scan"]
  BY DEF WriteList, At
<1>4. {pc[p], pc'[p]} \cap (Owning \cup {"ragate"}) = {} /\ \A q \in Procs \ {p} : pc'[q] = pc[q]
  BY <1>0, <1>3 DEF LockTypes, Owning
<1>5. \A x \in Bufs : bno'[x] = IF x \in Ends(p) THEN NODEV ELSE bno[x]
  BY <1>1, <1>2 DEF FlushFinish
<1>6. \A x \in Starts(p) : /\ "MOD" \in flag'[x] /\ "ERR" \notin flag'[x] /\ gate'[x] # None
                           /\ x \in io' /\ req'[x] = "BWRITE"
  <2>1. CASE Syncing(p)
    BY <1>1, <1>2, <2>1, BufAssumption
  <2>2. CASE ~Syncing(p)
    BY <1>1, <1>2, <2>2, BufAssumption
  <2> QED BY <2>1, <2>2
<1>7. \A x \in Bufs \ Starts(p) :
         /\ flag'[x] = IF x \in Ends(p) THEN {"NTP"} ELSE flag[x]
         /\ (x \in io' <=> x \in io) /\ req'[x] = req[x] /\ gate'[x] = gate[x]
         /\ iodone'[x] = iodone[x]
  BY <1>2
<1>8. req' \in [Bufs -> {"BREAD", "BWRITE"}]
  BY <1>0, <1>2 DEF DataTypes
<1> QED BY <1>1, <1>3, <1>4, <1>5, <1>6, <1>7, <1>8 DEF Sweeps

----------------------------------------------------------------------------
\* What p knows of the buffer it has locked.
LEMMA Mine ==
  ASSUME Sound, NEW p \in Procs, pc[p] \in Owning
  PROVE  /\ buf[p] \in Bufs /\ gate[buf[p]] = p /\ iodone[buf[p]] = "none"
         /\ blk[p] \in Blocks /\ blk[p] # NODEV
         /\ pc[p] # "iowait" => /\ bno[buf[p]] = blk[p] /\ "ERR" \notin flag[buf[p]]
         /\ "NTP" \notin flag[buf[p]] => buf[p] \notin io
         /\ \A q \in Procs : pc[q] \in Owning /\ buf[q] = buf[p] => q = p
         /\ pc[p] # "iowait" => \A y \in Bufs : bno[y] = blk[p] => y = buf[p]
<1>0. /\ LockTypes /\ Owned /\ Transfers /\ IdTypes /\ Calls /\ NoAlias /\ Held /\ Named
  BY StoreFacts
<1>1. blk[p] \in Uses[p] /\ blk[p] # NODEV /\ blk[p] \in Blocks
  BY <1>0, UsesIn DEF Calls, Listing, Owning, Syncing
<1>2. buf[p] \in Bufs /\ gate[buf[p]] = p /\ iodone[buf[p]] = "none"
  BY <1>0 DEF Owned
<1>3. pc[p] # "iowait" => bno[buf[p]] = blk[p]
  BY <1>0 DEF Held
<1>4. pc[p] # "iowait" => "ERR" \notin flag[buf[p]]
  BY <1>0, <1>1, <1>2, <1>3 DEF Named
<1>5. "NTP" \notin flag[buf[p]] => buf[p] \notin io
  BY <1>0, <1>2 DEF Transfers
<1>6. \A q \in Procs : pc[q] \in Owning /\ buf[q] = buf[p] => q = p
  BY <1>0, <1>2 DEF Owned
<1>7. pc[p] # "iowait" => \A y \in Bufs : bno[y] = blk[p] => y = buf[p]
  BY <1>0, <1>1, <1>2, <1>3 DEF NoAlias
<1> QED BY <1>1, <1>2, <1>3, <1>4, <1>5, <1>6, <1>7

\* The other processes stay where they are; some are told of a free buffer.
Others(p) ==
  \A q \in Procs : q # p =>
    /\ pc'[q] = pc[q] \/ (pc[q] = "need" /\ pc'[q] = "rescan")
    /\ buf'[q] = buf[q] /\ blk'[q] = blk[q] /\ op'[q] = op[q]

\* unlock_block of a valid buffer that p had.
LetsGo(p, x) ==
  /\ x = buf[p] /\ pc[p] \in Owning /\ "NTP" \notin flag[x]
  /\ flag' = [flag EXCEPT ![x] = @ \ {"ERR"}]
  /\ gate' = [gate EXCEPT ![x] = None]
  /\ UNCHANGED <<bno, req, iodone, body, io, disk, latest>>
  /\ pc'[p] = "user" /\ Others(p)

LEMMA LetsGoKeeps == ASSUME Sound, NEW p \in Procs, NEW x, LetsGo(p, x) PROVE DataInv'
<1>0. /\ LockTypes /\ IdTypes /\ DataTypes /\ Held /\ Current /\ Named /\ Directed
      /\ Pending /\ AheadClean /\ NoLostUpdate /\ Owned
  BY StoreFacts
<1>1. /\ x \in Bufs /\ x \notin io
      /\ \A q \in Procs : pc[q] \in Owning /\ buf[q] = x => q = p
  BY Mine DEF LetsGo
<1>2. \A y \in Bufs : /\ flag'[y] = IF y = x THEN flag[y] \ {"ERR"} ELSE flag[y]
                      /\ gate'[y] = IF y = x THEN None ELSE gate[y]
  BY <1>0 DEF LetsGo, LockTypes
<1>3. DataTypes' /\ Current' /\ NoLostUpdate'
  BY <1>0, <1>1, <1>2 DEF LetsGo, DataTypes, Current, NoLostUpdate
<1>4. Named' /\ Directed'
  BY <1>0, <1>1, <1>2 DEF LetsGo, Named, Directed
<1>5. \A q \in Procs : /\ pc'[q] \in Owning \cup {"ragate"} => q # p /\ pc[q] = pc'[q]
  BY DEF LetsGo, Others, Owning
<1>6. \A q \in Procs : pc'[q] \in Owning => buf[q] \in Bufs /\ buf[q] # x
  BY <1>0, <1>1, <1>5 DEF Owned
<1>7. Held'
  BY <1>0, <1>2, <1>5, <1>6 DEF LetsGo, Others, Held
<1>8. Pending'
  <2>1. ASSUME NEW y \in Bufs, NEW q \in Procs, OwnedBy(y, q), y # x PROVE OwnedBy(y, q)'
    BY <1>2, <2>1 DEF OwnedBy, LetsGo, Others, Owning
  <2>2. "NTP" \notin flag'[x]
    BY <1>1, <1>2 DEF LetsGo
  <2> QED BY <1>0, <1>2, <2>1, <2>2 DEF Pending, LetsGo
<1>9. AheadClean'
  <2>1. ASSUME NEW q \in Procs, pc'[q] = "ragate"
        PROVE  pc[q] = "ragate" /\ buf'[q] = buf[q] /\ blk'[q] = blk[q] /\ buf[q] \in Bufs
    BY <1>0, <1>5, <2>1 DEF LetsGo, Others, Owned
  <2> QED BY <1>0, <1>2, <2>1 DEF AheadClean, LetsGo
<1> QED BY <1>3, <1>4, <1>7, <1>8, <1>9 DEF DataInv

LetsGoStep(p) == UseRead(p) \/ WriteDone(p) \/ (ReadDone(p) /\ "ERR" \in flag[buf[p]])

LEMMA LetsGoSteps == ASSUME Sound, NEW p \in Procs, LetsGoStep(p) PROVE LetsGo(p, buf[p])
<1>0. LockTypes /\ IdTypes /\ Held /\ Named
  BY StoreFacts
<1> DEFINE x == buf[p]
<1>1. /\ pc[p] \in Owning /\ "NTP" \notin flag[x]
  BY <1>0 DEF LetsGoStep, UseRead, WriteDone, ReadDone, At, Owning, Held
<1>2. x \in Bufs /\ (pc[p] # "iowait" => "ERR" \notin flag[x])
  BY <1>1, Mine
<1>3. /\ UnlockBlock(x, p, "user") /\ Return(p)
      /\ UNCHANGED <<req, iodone, body, io, disk, latest>>
  BY DEF LetsGoStep, UseRead, WriteDone, ReadDone, Release
<1>4. /\ gate' = [gate EXCEPT ![x] = None] /\ pc'[p] = "user" /\ Others(p)
  BY <1>0, <1>3 DEF UnlockBlock, Return, Locals, Others, Woken, LockTypes, IdTypes
<1>5. CASE ReadDone(p) /\ "ERR" \in flag[x]
  <2>1. /\ flag' = [flag EXCEPT ![x] = @ \ {"ERR"}] /\ bno' = [bno EXCEPT ![x] = NODEV]
    BY <1>5 DEF ReadDone
  <2>2. bno[x] = NODEV
    BY <1>0, <1>2, <1>5 DEF Named
  <2>3. bno' = bno
    BY <1>0, <2>1, <2>2 DEF IdTypes
  <2> QED BY <1>1, <1>3, <1>4, <2>1, <2>3 DEF LetsGo
<1>6. CASE UseRead(p) \/ WriteDone(p)
  <2>1. /\ Release(p, flag[x]) /\ pc[p] # "iowait"
    BY <1>6 DEF UseRead, WriteDone, At
  <2>2. flag' = [flag EXCEPT ![x] = flag[x] \ {"NTP", "ERR"}]
        /\ bno' = [bno EXCEPT ![x] = @]
    BY <1>2, <2>1 DEF Release
  <2>3. flag[x] \ {"NTP", "ERR"} = flag[x] \ {"ERR"}
    BY <1>1
  <2>4. flag' = [flag EXCEPT ![x] = @ \ {"ERR"}]
    BY <2>2, <2>3
  <2>5. bno' = bno
    BY <1>0, <2>2 DEF IdTypes
  <2> HIDE DEF x
  <2> QED BY <1>1, <1>3, <1>4, <2>4, <2>5 DEF LetsGo, x
<1> QED BY <1>5, <1>6 DEF LetsGoStep

----------------------------------------------------------------------------
\* A process stores a new version in the buffer x it has, which is dirty
\* from then on, and either releases it or has it written.
Stores(p, x) ==
  /\ x = buf[p] /\ pc[p] = "hold"
  /\ body' = [body EXCEPT ![x] = latest[blk[p]] + 1]
  /\ latest' = [latest EXCEPT ![blk[p]] = @ + 1]
  /\ UNCHANGED <<bno, iodone, disk>>
  /\ \A y \in Bufs : y # x => flag'[y] = flag[y] /\ gate'[y] = gate[y]
  /\ "MOD" \in flag'[x] /\ "ERR" \notin flag'[x]
  /\ \/ io' = io /\ req' = req /\ "NTP" \notin flag'[x] /\ pc'[p] = "user"
     \/ /\ io' = io \cup {x} /\ req' = [req EXCEPT ![x] = "BWRITE"]
        /\ pc'[p] = "user" \/ (pc'[p] = "wwait" /\ UNCHANGED <<buf, blk>>)
  /\ Others(p)

LEMMA StoreKeeps == ASSUME Sound, NEW p \in Procs, NEW x, Stores(p, x) PROVE DataInv'
<1>0. /\ LockTypes /\ IdTypes /\ Calls /\ DataTypes /\ Held /\ Current /\ Named /\ Directed
      /\ Pending /\ AheadClean /\ NoLostUpdate /\ Owned
  BY StoreFacts
<1>1. pc[p] = "hold" /\ x = buf[p] /\ pc[p] \in Owning /\ pc[p] # "iowait"
  BY DEF Stores, Owning
<1>2. /\ x \in Bufs /\ bno[x] = blk[p] /\ blk[p] \in Blocks /\ blk[p] # NODEV
      /\ iodone[x] = "none"
      /\ \A q \in Procs : pc[q] \in Owning /\ buf[q] = x => q = p
      /\ \A y \in Bufs : bno[y] = blk[p] => y = x
  BY <1>1, Mine
<1>3. x \notin io
  BY <1>0, <1>1 DEF Owned
<1>4. /\ \A b \in Blocks : latest'[b] = IF b = blk[p] THEN latest[b] + 1 ELSE latest[b]
      /\ \A y \in Bufs : body'[y] = IF y = x THEN latest'[blk[p]] ELSE body[y]
  BY <1>0, <1>2 DEF Stores, DataTypes
<1>5. DataTypes'
  <2>1. latest[blk[p]] + 1 \in Nat
    BY <1>0, <1>2 DEF DataTypes
  <2> QED BY <1>0, <1>2, <2>1 DEF Stores, DataTypes
<1>6. Current'
  <2>1. ASSUME NEW y \in Bufs, bno'[y] # NODEV, "NTP" \notin flag'[y] \/ "MOD" \in flag'[y]
        PROVE  body'[y] = latest'[bno'[y]]
    <3>1. CASE y = x
      BY <1>2, <1>4, <3>1 DEF Stores
    <3>2. CASE y # x
      <4>1. bno[y] # blk[p] /\ bno'[y] = bno[y] /\ bno[y] \in Blocks
        BY <1>0, <1>2, <2>1, <3>2 DEF Stores, IdTypes
      <4>2. body[y] = latest[bno[y]]
        BY <1>0, <2>1, <3>2, <4>1 DEF Stores, Current
      <4> QED BY <1>4, <3>2, <4>1, <4>2
    <3> QED BY <3>1, <3>2
  <2> QED BY <2>1 DEF Current
<1>7. Named'
  BY <1>0, <1>2 DEF Stores, Named
<1>8. Directed'
  BY <1>0, <1>2, <1>3 DEF Stores, Directed, DataTypes
<1>9. /\ \A q \in Procs : q # p /\ pc'[q] \in Owning \cup {"ragate"} => pc[q] = pc'[q]
      /\ pc'[p] \in {"user", "wwait"}
  BY DEF Stores, Others, Owning
<1>10. Held'
  <2>1. ASSUME NEW q \in Procs, q # p, pc'[q] \in Owning
        PROVE  /\ bno'[buf'[q]] = blk'[q] \/ (pc'[q] = "iowait" /\ "ERR" \in flag'[buf'[q]])
               /\ pc'[q] = "hold" /\ op'[q] \in {"read", "write"} => "NTP" \notin flag'[buf'[q]]
               /\ pc'[q] = "wwait" /\ buf'[q] \in io' => "MOD" \in flag'[buf'[q]]
    <3>1. pc[q] = pc'[q] /\ buf'[q] = buf[q] /\ blk'[q] = blk[q] /\ op'[q] = op[q]
      BY <1>9, <2>1 DEF Stores, Others
    <3>2. buf[q] \in Bufs /\ buf[q] # x
      BY <1>0, <1>2, <2>1, <3>1 DEF Owned
    <3>3. flag'[buf[q]] = flag[buf[q]] /\ bno' = bno /\ (buf[q] \in io' => buf[q] \in io)
      BY <3>2 DEF Stores
    <3> QED BY <1>0, <2>1, <3>1, <3>3 DEF Held
  <2>2. ASSUME pc'[p] \in Owning
        PROVE  pc'[p] = "wwait" /\ bno'[buf'[p]] = blk'[p] /\ "MOD" \in flag'[buf'[p]]
    BY <1>2, <2>2 DEF Stores, Owning
  <2> QED BY <2>1, <2>2 DEF Held
<1>11. Pending'
  <2>1. ASSUME NEW y \in Bufs, NEW q \in Procs, OwnedBy(y, q), y # x PROVE OwnedBy(y, q)'
    BY <1>1, <2>1 DEF OwnedBy, Stores, Others, Owning
  <2>2. "NTP" \notin flag'[x] \/ x \in io'
    BY DEF Stores
  <2>3. \A y \in Bufs : y # x => flag'[y] = flag[y] /\ (y \in io => y \in io') /\ bno'[y] = bno[y]
    BY DEF Stores
  <2> QED BY <1>0, <2>1, <2>2, <2>3 DEF Pending
<1>12. AheadClean'
  <2>1. ASSUME NEW q \in Procs, pc'[q] = "ragate", bno'[buf'[q]] = blk'[q]
        PROVE  "MOD" \notin flag'[buf'[q]] \/ buf'[q] \in io'
    <3>1. q # p /\ pc[q] = "ragate" /\ buf'[q] = buf[q] /\ blk'[q] = blk[q] /\ buf[q] \in Bufs
          /\ bno[buf[q]] = blk[q]
      BY <1>0, <1>9, <2>1 DEF Stores, Others, Owned
    <3>2. blk[q] \in Uses[q] /\ blk[p] \in Uses[p]
      BY <1>0, <1>1, <3>1 DEF Calls, Listing, Syncing
    <3>3. blk[q] # blk[p]
      BY <3>1, <3>2 DEF Sound, PrivateUses
    <3>4. buf[q] # x
      BY <1>2, <3>1, <3>3
    <3> QED BY <1>0, <3>1, <3>4 DEF AheadClean, Stores
  <2> QED BY <2>1 DEF AheadClean
<1>13. NoLostUpdate'
  <2>1. ASSUME NEW b \in Blocks, disk'[b] # latest'[b]
        PROVE  \E y \in Bufs : bno'[y] = b /\ body'[y] = latest'[b] /\ "MOD" \in flag'[y]
    <3>1. CASE b = blk[p]
      BY <1>2, <1>4, <3>1 DEF Stores
    <3>2. CASE b # blk[p]
      <4>1. disk[b] # latest[b]
        BY <1>4, <2>1, <3>2 DEF Stores
      <4>2. PICK y \in Bufs : bno[y] = b /\ body[y] = latest[b] /\ "MOD" \in flag[y]
        BY <1>0, <4>1 DEF NoLostUpdate
      <4> QED BY <1>2, <1>4, <3>2, <4>2 DEF Stores
    <3> QED BY <3>1, <3>2
  <2> QED BY <2>1 DEF NoLostUpdate
<1> QED BY <1>5, <1>6, <1>7, <1>8, <1>10, <1>11, <1>12, <1>13 DEF DataInv

LEMMA StoreSteps ==
  ASSUME Sound, NEW p \in Procs, UseWrite(p) \/ UseStart(p)
  PROVE  Stores(p, buf[p])
<1>0. LockTypes /\ IdTypes /\ Held /\ Named
  BY StoreFacts
<1> DEFINE x == buf[p]
<1>1. pc[p] = "hold" /\ pc[p] \in Owning /\ pc[p] # "iowait" /\ Store(p)
  BY DEF UseWrite, UseStart, At, Owning
<1>2. x \in Bufs /\ "ERR" \notin flag[x]
  BY <1>1, Mine
<1>3. /\ body' = [body EXCEPT ![x] = latest[blk[p]] + 1]
      /\ latest' = [latest EXCEPT ![blk[p]] = @ + 1]
  BY <1>1 DEF Store
<1>4. UNCHANGED <<iodone, disk>>
  BY DEF UseWrite, UseStart
<1>5. CASE UseWrite(p)
  <2>1. Release(p, flag[x] \cup {"MOD"}) /\ UNCHANGED <<req, io>>
    BY <1>5 DEF UseWrite
  <2>2. /\ flag' = [flag EXCEPT ![x] = (flag[x] \cup {"MOD"}) \ {"NTP", "ERR"}]
        /\ bno' = [bno EXCEPT ![x] = @]
        /\ UnlockBlock(x, p, "user") /\ Return(p)
    BY <1>2, <2>1 DEF Release
  <2>3. bno' = bno
    BY <1>0, <2>2 DEF IdTypes
  <2>4. gate' = [gate EXCEPT ![x] = None] /\ pc'[p] = "user" /\ Others(p)
    BY <1>0, <2>2 DEF UnlockBlock, Return, Locals, Others, Woken, LockTypes, IdTypes
  <2>5. /\ \A y \in Bufs : y # x => flag'[y] = flag[y] /\ gate'[y] = gate[y]
        /\ "MOD" \in flag'[x] /\ "ERR" \notin flag'[x] /\ "NTP" \notin flag'[x]
    BY <1>0, <1>2, <2>2, <2>4 DEF LockTypes
  <2> HIDE DEF x
  <2> QED BY <1>1, <1>3, <1>4, <2>1, <2>3, <2>4, <2>5 DEF Stores, x
<1>6. CASE UseStart(p)
  <2>1. /\ io' = io \cup {x} /\ req' = [req EXCEPT ![x] = "BWRITE"] /\ bno' = bno
    BY <1>6 DEF UseStart
  <2>2. CASE op[p] = "claim"
    <3>1. /\ flag' = [flag EXCEPT ![x] = @ \cup {"MOD", "ASY", "NTP"}]
          /\ gate' = [gate EXCEPT ![x] = Intr] /\ pc' = [pc EXCEPT ![p] = "user"] /\ Return(p)
      BY <1>6, <2>2 DEF UseStart
    <3>2. pc'[p] = "user" /\ Others(p)
      BY <1>0, <3>1 DEF Return, Locals, Others, LockTypes, IdTypes
    <3>3. /\ \A y \in Bufs : y # x => flag'[y] = flag[y] /\ gate'[y] = gate[y]
          /\ "MOD" \in flag'[x] /\ "ERR" \notin flag'[x]
      BY <1>0, <1>2, <3>1 DEF LockTypes
    <3> HIDE DEF x
    <3> QED BY <1>1, <1>3, <1>4, <2>1, <3>2, <3>3 DEF Stores, x
  <2>3. CASE op[p] # "claim"
    <3>1. /\ flag' = [flag EXCEPT ![x] = (@ \ {"ASY"}) \cup {"MOD", "NTP"}]
          /\ pc' = [pc EXCEPT ![p] = "wwait"] /\ UNCHANGED <<gate, op, blk, buf>>
      BY <1>6, <2>3 DEF UseStart
    <3>2. pc'[p] = "wwait" /\ Others(p)
      BY <1>0, <3>1 DEF Others, LockTypes
    <3>3. /\ \A y \in Bufs : y # x => flag'[y] = flag[y] /\ gate'[y] = gate[y]
          /\ "MOD" \in flag'[x] /\ "ERR" \notin flag'[x]
      BY <1>0, <1>2, <3>1 DEF LockTypes
    <3> HIDE DEF x
    <3> QED BY <1>1, <1>3, <1>4, <2>1, <3>1, <3>2, <3>3 DEF Stores, x
  <2> QED BY <2>2, <2>3
<1> QED BY <1>5, <1>6

----------------------------------------------------------------------------
\* biodone of a read: the buffer is valid, or it has failed and lost its block.
LEMMA DoneRead ==
  ASSUME Sound, NEW x \in Bufs, NEW ok \in BOOLEAN, biodone(x, ok), req[x] = "BREAD"
  PROVE  /\ bno[x] \in Blocks /\ bno[x] # NODEV /\ iodone' = iodone
         /\ UNCHANGED <<req, disk, latest>>
         /\ \A y \in Bufs : y # x => body'[y] = body[y]
         /\ body' \in [Bufs -> Nat]
         /\ {"NTP", "MOD"} \cap flag'[x] = {}
         /\ \/ ok /\ bno' = bno /\ body'[x] = latest[bno[x]] /\ "ERR" \notin flag'[x]
            \/ ~ok /\ bno'[x] = NODEV /\ "ERR" \in flag'[x]
<1>0. /\ LockTypes /\ IdTypes /\ DataTypes /\ Current /\ Named /\ Directed /\ NoAlias
      /\ NoLostUpdate
  BY StoreFacts
<1>1. /\ x \in io /\ bno[x] \in Blocks /\ bno[x] # NODEV /\ "ERR" \notin flag[x]
      /\ "MOD" \notin flag[x] /\ iodone[x] = "none"
  BY <1>0 DEF biodone, Named, Directed, IdTypes, LockTypes
<1>2. /\ iodone' = [iodone EXCEPT ![x] = "none"]
      /\ UNCHANGED <<req, latest, disk>>
      /\ body' = [body EXCEPT ![x] = IF ok THEN disk[bno[x]] ELSE @]
  BY DEF biodone, Transfer
<1>3. iodone' = iodone
  BY <1>0, <1>1, <1>2 DEF LockTypes
<1>4. \A y \in Bufs : bno[y] = bno[x] => "MOD" \notin flag[y]
  BY <1>0, <1>1 DEF NoAlias
<1>5. disk[bno[x]] = latest[bno[x]]
  BY <1>0, <1>1, <1>4 DEF NoLostUpdate
<1>6. body' \in [Bufs -> Nat]
  <2>1. disk[bno[x]] \in Nat
    BY <1>0, <1>1 DEF DataTypes
  <2> QED BY <1>0, <1>2, <2>1 DEF DataTypes
<1>7. CASE ok
  <2>1. /\ flag' = [flag EXCEPT ![x] = (flag[x] \ {"NTP"}) \ {"ASY"}]
        /\ bno' = [bno EXCEPT ![x] = @]
    BY <1>0, <1>1, <1>7 DEF biodone, LockTypes
  <2>2. bno' = bno /\ flag'[x] = (flag[x] \ {"NTP"}) \ {"ASY"} /\ body'[x] = latest[bno[x]]
    BY <1>0, <1>2, <1>5, <1>7, <2>1 DEF LockTypes, IdTypes, DataTypes
  <2> QED BY <1>0, <1>1, <1>2, <1>3, <1>6, <1>7, <2>2 DEF DataTypes
<1>8. CASE ~ok
  <2>1. /\ flag' = [flag EXCEPT ![x] = ((flag[x] \cup {"ERR"}) \ {"NTP"}) \ {"ASY"}]
        /\ bno' = [bno EXCEPT ![x] = NODEV]
    BY <1>0, <1>1, <1>8 DEF biodone, LockTypes
  <2>2. bno'[x] = NODEV /\ flag'[x] = ((flag[x] \cup {"ERR"}) \ {"NTP"}) \ {"ASY"}
    BY <1>0, <2>1 DEF LockTypes, IdTypes
  <2> QED BY <1>0, <1>1, <1>2, <1>3, <1>6, <1>8, <2>2 DEF DataTypes
<1> QED BY <1>7, <1>8

\* biodone of a write: the last version is on the device.
LEMMA DoneWrite ==
  ASSUME Sound, NEW x \in Bufs, NEW ok \in BOOLEAN, biodone(x, ok), req[x] = "BWRITE"
  PROVE  /\ bno[x] \in Blocks /\ bno[x] # NODEV
         /\ UNCHANGED <<req, body, latest>>
         /\ disk' = [disk EXCEPT ![bno[x]] = latest[bno[x]]]
         /\ "MOD" \notin flag'[x] /\ "ERR" \notin flag'[x] /\ iodone'[x] = "none"
         /\ \/ bno' = bno /\ "NTP" \notin flag'[x] /\ body[x] = latest[bno[x]]
            \/ bno'[x] = NODEV /\ iodone[x] # "none"
<1>0. /\ LockTypes /\ IdTypes /\ DataTypes /\ Current /\ Named /\ Directed
  BY StoreFacts
<1>1. /\ x \in io /\ bno[x] \in Blocks /\ bno[x] # NODEV /\ "ERR" \notin flag[x]
      /\ "MOD" \in flag[x] /\ body[x] = latest[bno[x]]
  BY <1>0 DEF biodone, Named, Directed, IdTypes, LockTypes, Current
<1>2. ok
  BY DEF biodone, Sound, WritesSucceed
<1>3. /\ UNCHANGED <<req, body, latest>>
      /\ disk' = [disk EXCEPT ![bno[x]] = latest[bno[x]]]
      /\ iodone' = [iodone EXCEPT ![x] = "none"]
  BY <1>1, <1>2 DEF biodone, Transfer
<1>4. iodone[x] \in {"none", "sync_iodone", "bflush_iodone"} /\ iodone'[x] = "none"
  BY <1>0, <1>3 DEF LockTypes
<1>5. CASE iodone[x] = "bflush_iodone"
  <2>1. flag' = [flag EXCEPT ![x] = {"NTP"}] /\ bno' = [bno EXCEPT ![x] = NODEV]
    BY <1>5 DEF biodone
  <2>2. flag'[x] = {"NTP"} /\ bno'[x] = NODEV
    BY <1>0, <2>1 DEF LockTypes, IdTypes
  <2> QED BY <1>1, <1>3, <1>4, <1>5, <2>2
<1>6. CASE iodone[x] # "bflush_iodone"
  <2>1. /\ bno' = [bno EXCEPT ![x] = @]
        /\ \/ flag' = [flag EXCEPT ![x] = flag[x] \ {"NTP", "MOD"}]
           \/ flag' = [flag EXCEPT ![x] = (flag[x] \ {"NTP", "MOD"}) \ {"ASY"}]
    BY <1>1, <1>2, <1>4, <1>6 DEF biodone
  <2>2. /\ bno' = bno
        /\ flag'[x] = flag[x] \ {"NTP", "MOD"} \/ flag'[x] = (flag[x] \ {"NTP", "MOD"}) \ {"ASY"}
    BY <1>0, <2>1 DEF LockTypes, IdTypes
  <2> QED BY <1>1, <1>3, <1>4, <2>2
<1> QED BY <1>5, <1>6

LEMMA DoneKeeps ==
  ASSUME Sound, NEW x \in Bufs, NEW ok \in BOOLEAN, biodone(x, ok)
  PROVE  DataInv'
<1>0. /\ LockTypes /\ IdTypes /\ Calls /\ DataTypes /\ Held /\ Current /\ Named /\ Directed
      /\ Pending /\ AheadClean /\ NoLostUpdate /\ Owned /\ NoAlias
  BY StoreFacts
<1>1. /\ x \in io /\ io' = io \ {x} /\ UNCHANGED <<op, blk, buf>>
      /\ \A y \in Bufs : y # x => /\ flag'[y] = flag[y] /\ bno'[y] = bno[y]
                                  /\ iodone'[y] = iodone[y] /\ gate'[y] = gate[y]
      /\ \A q \in Procs : pc'[q] = pc[q] \/ (pc[q] = "need" /\ pc'[q] = "rescan")
  <2>1. /\ x \in io /\ io' = io \ {x} /\ UNCHANGED <<op, blk, buf>>
    BY DEF biodone
  <2>2. /\ \E b : bno' = [bno EXCEPT ![x] = b]
        /\ \E f : flag' = [flag EXCEPT ![x] = f]
        /\ iodone' = [iodone EXCEPT ![x] = "none"]
    BY DEF biodone
  <2>3. /\ gate' = gate \/ gate' = [gate EXCEPT ![x] = None]
        /\ \A q \in Procs : pc'[q] = pc[q] \/ (pc[q] = "need" /\ pc'[q] = "rescan")
    BY BufAssumption DEF biodone, UnlockBlock, Woken
  <2> QED BY <1>0, <2>1, <2>2, <2>3 DEF LockTypes, IdTypes
<1>2. req[x] = "BREAD" \/ req[x] = "BWRITE"
  BY <1>0 DEF DataTypes
<1>3. /\ req' = req /\ latest' = latest /\ bno[x] \in Blocks /\ bno[x] # NODEV
      /\ \A y \in Bufs : y # x => body'[y] = body[y]
      /\ "MOD" \notin flag'[x] /\ iodone'[x] = "none"
      /\ \/ bno'[x] = bno[x] /\ body'[x] = latest[bno[x]] /\ {"NTP", "ERR"} \cap flag'[x] = {}
         \/ bno'[x] = NODEV
      /\ bno'[x] = NODEV => iodone[x] # "none" \/ ("ERR" \in flag'[x] /\ req[x] = "BREAD")
  BY <1>0, <1>1, <1>2, DoneRead, DoneWrite DEF Directed
<1>4. DataTypes'
  BY <1>0, <1>2, DoneRead, DoneWrite DEF DataTypes
<1>5. Current' /\ Named' /\ Directed'
  BY <1>0, <1>1, <1>3 DEF Current, Named, Directed
<1>6. Held'
  <2>1. ASSUME NEW q \in Procs, pc'[q] \in Owning
        PROVE  /\ bno'[buf'[q]] = blk'[q] \/ (pc'[q] = "iowait" /\ "ERR" \in flag'[buf'[q]])
               /\ pc'[q] = "hold" /\ op'[q] \in {"read", "write"} => "NTP" \notin flag'[buf'[q]]
               /\ pc'[q] = "wwait" /\ buf'[q] \in io' => "MOD" \in flag'[buf'[q]]
    <3>1. pc'[q] = pc[q] /\ buf'[q] = buf[q] /\ blk'[q] = blk[q] /\ op'[q] = op[q]
          /\ buf[q] \in Bufs /\ iodone[buf[q]] = "none" /\ (pc[q] = "hold" => buf[q] \notin io)
      BY <1>0, <1>1, <2>1 DEF Owned, Owning
    <3>2. CASE buf[q] # x
      BY <1>0, <1>1, <2>1, <3>1, <3>2 DEF Held
    <3>3. CASE buf[q] = x
      <4>1. pc[q] # "hold" /\ buf'[q] \notin io'
        BY <1>1, <3>1, <3>3
      <4>2. bno[x] = blk[q]
        BY <1>0, <1>3, <2>1, <3>1, <3>3 DEF Held, Named
      <4>3. CASE bno'[x] = bno[x]
        BY <3>1, <3>3, <4>1, <4>2, <4>3
      <4>4. CASE bno'[x] = NODEV
        <5>1. "ERR" \in flag'[x] /\ req[x] = "BREAD"
          BY <1>3, <3>1, <3>3, <4>4
        <5>2. pc[q] = "iowait"
          BY <1>0, <1>1, <2>1, <3>1, <3>3, <4>1, <5>1 DEF Held, Directed, Owning
        <5> QED BY <3>1, <3>3, <4>1, <5>1, <5>2
      <4> QED BY <1>3, <4>3, <4>4
    <3> QED BY <3>2, <3>3
  <2> QED BY <2>1 DEF Held
<1>7. Pending'
  <2>1. ASSUME NEW y \in Bufs, NEW q \in Procs, OwnedBy(y, q), y # x PROVE OwnedBy(y, q)'
    BY <1>1, <2>1 DEF OwnedBy, Owning
  <2> QED BY <1>0, <1>1, <1>3, <2>1 DEF Pending
<1>8. AheadClean'
  <2>1. ASSUME NEW q \in Procs, pc'[q] = "ragate"
        PROVE  pc[q] = "ragate" /\ buf'[q] = buf[q] /\ blk'[q] = blk[q] /\ buf[q] \in Bufs
    BY <1>0, <1>1, <2>1 DEF Owned
  <2> QED BY <1>0, <1>1, <1>3, <2>1 DEF AheadClean
<1>9. NoLostUpdate'
  <2>1. ASSUME NEW b \in Blocks, disk'[b] # latest'[b]
        PROVE  \E y \in Bufs : bno'[y] = b /\ body'[y] = latest'[b] /\ "MOD" \in flag'[y]
    <3>1. disk'[b] = disk[b] \/ disk'[b] = latest[b]
      BY <1>0, <1>2, DoneRead, DoneWrite DEF DataTypes
    <3>2. PICK y \in Bufs : bno[y] = b /\ body[y] = latest[b] /\ "MOD" \in flag[y]
      BY <1>0, <1>3, <2>1, <3>1 DEF NoLostUpdate
    <3>3. CASE y # x
      BY <1>1, <1>3, <3>2, <3>3
    <3>4. CASE y = x
      <4>1. req[x] = "BWRITE"
        BY <1>0, <1>1, <3>2, <3>4 DEF Directed
      <4>2. disk'[b] = latest[b]
        BY <1>0, <3>2, <3>4, <4>1, DoneWrite DEF DataTypes
      <4> QED BY <1>3, <2>1, <4>2
    <3> QED BY <3>3, <3>4
  <2> QED BY <2>1 DEF NoLostUpdate
<1> QED BY <1>4, <1>5, <1>6, <1>7, <1>8, <1>9 DEF DataInv

----------------------------------------------------------------------------
LEMMA DataNext == PrivateUses /\ WritesSucceed /\ StoreInv /\ [Next]_vars => StoreInv'
<1> SUFFICES ASSUME PrivateUses, WritesSucceed, StoreInv, [Next]_vars PROVE DataInv'
  BY AliasNext DEF StoreInv
<1>0. Sound
  BY DEF Sound
<1>1. LockTypes /\ IdTypes /\ Owned
  BY <1>0, StoreFacts
<1>2. ASSUME NEW p \in Procs, FindHit(p) PROVE DataInv'
  <2>1. /\ Found(blk[p]) \in Bufs /\ bno[Found(blk[p])] = blk[p]
        /\ gate[Found(blk[p])] = None /\ pc[p] = "find" /\ ClaimCached(p, Found(blk[p]))
    BY <1>1, <1>2, FoundIs DEF FindHit, At
  <2> QED BY <1>0, <2>1, GrantKeeps
<1>3. ASSUME NEW p \in Procs, GateFree(p) PROVE DataInv'
  <2>1. buf[p] \in Bufs /\ gate[buf[p]] = None /\ pc[p] = "gate"
    BY <1>1, <1>3 DEF GateFree, At, Owned
  <2>2. CASE bno[buf[p]] = blk[p]
    BY <1>0, <1>3, <2>1, <2>2, GrantKeeps DEF GateFree
  <2>3. CASE bno[buf[p]] # blk[p]
    BY <1>0, <1>3, <2>3, PassSteps, PassKeeps DEF PassStep
  <2> QED BY <2>2, <2>3
<1>4. ASSUME NEW p \in Procs, AheadGate(p) PROVE DataInv'
  <2>1. CASE bno[buf[p]] = blk[p]
    BY <1>0, <1>4, <2>1, AheadKeeps
  <2>2. CASE bno[buf[p]] # blk[p]
    BY <1>0, <1>4, <2>2, PassSteps, PassKeeps DEF PassStep
  <2> QED BY <2>1, <2>2
<1>5. ASSUME NEW p \in Procs, ReadDone(p) PROVE DataInv'
  <2>1. CASE "ERR" \in flag[buf[p]]
    BY <1>0, <1>5, <2>1, LetsGoSteps, LetsGoKeeps DEF LetsGoStep
  <2>2. CASE "ERR" \notin flag[buf[p]]
    BY <1>0, <1>5, <2>2, ReadKeeps
  <2> QED BY <2>1, <2>2
<1>6. ASSUME NEW p \in Procs,
             \/ \E o \in Ops, b \in Blocks \cup {NODEV} : Call(p, o, b)
             \/ FindMiss(p) \/ FindBusy(p) \/ AheadHit(p)
             \/ ScanDirty(p) \/ ScanFail(p) \/ NeedSleep(p) \/ SyncWait(p)
      PROVE  DataInv'
  <2>1. PassStep(p)
    BY <1>6 DEF PassStep
  <2> QED BY <1>0, <2>1, PassSteps, PassKeeps
<1>7. ASSUME NEW p \in Procs, UseRead(p) \/ WriteDone(p) PROVE DataInv'
  <2>1. LetsGoStep(p)
    BY <1>7 DEF LetsGoStep
  <2> QED BY <1>0, <2>1, LetsGoSteps, LetsGoKeeps
<1>8. ASSUME NEW p \in Procs, UseWrite(p) \/ UseStart(p) PROVE DataInv'
  BY <1>0, <1>8, StoreSteps, StoreKeeps
<1>9. ASSUME NEW p \in Procs, Build(p) PROVE DataInv'
  BY <1>0, <1>9, BuildSweeps, SweepKeeps
<1>10. ASSUME NEW p \in Procs, WriteList(p) PROVE DataInv'
  BY <1>0, <1>10, WriteSweeps, SweepKeeps
<1>11. ASSUME NEW p \in Procs, ScanTake(p) PROVE DataInv'
  BY <1>0, <1>11, TakeKeeps
<1>12. ASSUME NEW x \in Bufs, NEW ok \in BOOLEAN, biodone(x, ok) PROVE DataInv'
  BY <1>0, <1>12, DoneKeeps
<1>13. CASE UNCHANGED vars
  <2>1. DataInv
    BY DEF StoreInv
  <2> QED BY <1>13, <2>1 DEF vars, DataInv, DataTypes, Held, Current, Named, Directed, Pending,
               OwnedBy, AheadClean, NoLostUpdate
<1> QED BY <1>2, <1>3, <1>4, <1>5, <1>6, <1>7, <1>8, <1>9, <1>10, <1>11, <1>12, <1>13 DEF Next

LEMMA StoreAlways == ASSUME PrivateUses, WritesSucceed PROVE Spec => []StoreInv
<1>1. Init => StoreInv
  BY AliasInit, StoreInit DEF StoreInv
<1>2. StoreInv /\ [Next]_vars => StoreInv'
  BY DataNext
<1> QED BY <1>1, <1>2, PTL DEF Spec

(***************************************************************************)
(* What bread returns is locked by its caller alone, is the block it asked *)
(* for and its last version, whatever was evicted, read ahead, written     *)
(* behind or synced meanwhile, and whatever reads failed.                  *)
(***************************************************************************)
THEOREM BufferCoherent == ASSUME PrivateUses, WritesSucceed PROVE Spec => []Coherent
<1>1. StoreInv => Coherent
  <2> SUFFICES ASSUME StoreInv, NEW p \in Procs, pc[p] = "hold"
               PROVE  /\ gate[buf[p]] = p /\ bno[buf[p]] = blk[p] /\ buf[p] \notin io
                      /\ op[p] \in {"read", "write"} => body[buf[p]] = latest[blk[p]]
    BY DEF Coherent
  <2>1. Sound
    BY DEF Sound
  <2>2. Owned /\ Held /\ Current
    BY <2>1, StoreFacts
  <2>3. buf[p] \in Bufs /\ gate[buf[p]] = p /\ bno[buf[p]] = blk[p] /\ blk[p] # NODEV
    BY <2>1, Mine DEF Owning
  <2> QED BY <2>2, <2>3 DEF Owned, Held, Current, Owning
<1> QED BY <1>1, StoreAlways, PTL

(***************************************************************************)
(* No stored version is lost between the buffers and the device: not by an *)
(* eviction, a sync that meets a locked buffer, a flush, nor a late read   *)
(* of read-ahead.                                                          *)
(***************************************************************************)
THEOREM BufferKeepsUpdates == ASSUME PrivateUses, WritesSucceed PROVE Spec => []NoLostUpdate
<1>1. StoreInv => NoLostUpdate
  BY DEF StoreInv, DataInv
<1> QED BY <1>1, StoreAlways, PTL

----------------------------------------------------------------------------
\* What a process does, in one step.
Acts(q) ==
  \/ \E o \in Ops, b \in Blocks \cup {NODEV} : Call(q, o, b)
  \/ FindMiss(q) \/ FindBusy(q) \/ FindHit(q) \/ GateFree(q)
  \/ AheadHit(q) \/ AheadGate(q)
  \/ ScanTake(q) \/ ScanDirty(q) \/ ScanFail(q) \/ NeedSleep(q)
  \/ Build(q) \/ WriteList(q) \/ SyncWait(q)
  \/ ReadDone(q) \/ UseRead(q) \/ UseWrite(q) \/ UseStart(q) \/ WriteDone(q)

\* The place of p in a sync is its own.
Undisturbed(p) ==
  pc'[p] = pc[p] /\ op'[p] = op[p] /\ list'[p] = list[p] /\ goal'[p] = goal[p] /\ idx'[p] = idx[p]

SyncTypes ==
  /\ DOMAIN list = Procs /\ DOMAIN goal = Procs /\ DOMAIN idx = Procs
  /\ DOMAIN op = Procs /\ DOMAIN pc = Procs

LEMMA Bystander ==
  ASSUME SyncTypes, NEW p \in Procs, NEW q \in Procs, p # q, pc[p] # "need", Acts(q)
  PROVE  Undisturbed(p)
<1> USE DEF SyncTypes, Undisturbed
<1>1. ASSUME NEW o \in Ops, NEW b \in Blocks \cup {NODEV}, Call(q, o, b) PROVE Undisturbed(p)
  <2>1. op' = [op EXCEPT ![q] = o]
    BY <1>1 DEF Call, Locals
  <2>2. CASE o \in {"sync", "flush"}
    <3>1. /\ pc' = [pc EXCEPT ![q] = "build"] /\ idx' = [idx EXCEPT ![q] = 1]
          /\ list' = [list EXCEPT ![q] = {}] /\ goal' = [goal EXCEPT ![q] = latest]
      BY <1>1, <2>2 DEF Call
    <3> QED BY <2>1, <3>1
  <2>3. CASE o \notin {"sync", "flush"}
    <3>1. pc' = [pc EXCEPT ![q] = "find"] /\ UNCHANGED <<idx, list, goal>>
      BY <1>1, <2>3 DEF Call
    <3> QED BY <2>1, <3>1
  <2> QED BY <2>2, <2>3
<1>2. ASSUME NEW x, NEW fl, NEW r, BreadClaimed(q, x, fl, r), UNCHANGED <<list, goal>>,
             idx' = idx \/ idx' = [idx EXCEPT ![q] = 0]
      PROVE  Undisturbed(p)
  BY <1>2 DEF BreadClaimed, Return, Locals
<1>3. CASE FindHit(q)
  BY <1>2, <1>3 DEF FindHit, ClaimCached
<1>4. CASE GateFree(q)
  <2>1. CASE bno[buf[q]] = blk[q]
    BY <1>2, <1>4, <2>1 DEF GateFree, ClaimCached
  <2>2. CASE bno[buf[q]] # blk[q]
    BY <1>4, <2>2 DEF GateFree
  <2> QED BY <2>1, <2>2
<1>5. CASE ScanTake(q)
  BY <1>2, <1>5 DEF ScanTake
<1>6. CASE FindMiss(q) \/ FindBusy(q) \/ AheadHit(q) \/ AheadGate(q)
  BY <1>6 DEF FindMiss, FindBusy, AheadHit, AheadGate, Return, Locals
<1>7. CASE ScanDirty(q) \/ ScanFail(q) \/ NeedSleep(q) \/ SyncWait(q)
  BY <1>7 DEF ScanDirty, ScanFail, NeedSleep, SyncWait, Return, Locals
<1>8. CASE Build(q) \/ WriteList(q)
  BY <1>8 DEF Build, WriteList
<1>9. ASSUME NEW x, UnlockBlock(x, q, "user"), Return(q), UNCHANGED <<list, goal>>
      PROVE  Undisturbed(p)
  BY <1>9 DEF UnlockBlock, Woken, Return, Locals
<1>10. CASE ReadDone(q)
  <2>1. CASE "ERR" \in flag[buf[q]]
    BY <1>9, <1>10, <2>1 DEF ReadDone
  <2>2. CASE "ERR" \notin flag[buf[q]]
    BY <1>10, <2>2 DEF ReadDone
  <2> QED BY <2>1, <2>2
<1>11. CASE UseRead(q) \/ UseWrite(q) \/ WriteDone(q)
  BY <1>9, <1>11 DEF UseRead, UseWrite, WriteDone, Release
<1>12. CASE UseStart(q)
  BY <1>12 DEF UseStart, Return, Locals
<1> QED
  BY <1>1, <1>3, <1>4, <1>5, <1>6, <1>7, <1>8, <1>10, <1>11, <1>12 DEF Acts

LEMMA DoneBystander ==
  ASSUME SyncTypes, NEW p \in Procs, pc[p] # "need", NEW x \in Bufs, NEW ok \in BOOLEAN,
         biodone(x, ok)
  PROVE  Undisturbed(p)
BY BufAssumption DEF biodone, UnlockBlock, Woken, Undisturbed, SyncTypes

----------------------------------------------------------------------------
\* A dirty buffer keeps its block until its last version is on the device.
Stays(x) == /\ bno'[x] = bno[x] /\ "MOD" \in flag'[x]
            /\ x \in io /\ iodone[x] # "none" => x \in io' /\ iodone'[x] # "none"

LEMMA DirtyStays ==
  ASSUME Sound, NEW q \in Procs, Acts(q), NEW x \in Bufs, "MOD" \in flag[x]
  PROVE  Stays(x)
<1>0. /\ LockTypes /\ IdTypes /\ Held /\ Named /\ Transfers /\ Counted /\ Owned /\ Calls
  BY StoreFacts
<1>1. bno[x] # NODEV /\ "ERR" \notin flag[x]
  BY <1>0 DEF Named
<1>2. ASSUME UNCHANGED <<bno, flag, iodone, io>> PROVE Stays(x)
  BY <1>2 DEF Stays
<1>3. ASSUME PassStep(q) PROVE Stays(x)
  <2>1. Passes(q)
    BY <1>3, PassSteps
  <2> QED BY <1>2, <2>1 DEF Passes, Still
<1>4. ASSUME NEW y \in Bufs, bno[y] = blk[q], gate[y] = None, pc[q] \in {"find", "gate"},
             ClaimCached(q, y)
      PROVE  Stays(x)
  <2>1. flag[y] \cap {"NTP", "ERR"} = {} /\ y \notin io
    BY <1>0, <1>4, UsesIn, FreeIsValid DEF Calls, Listing, Syncing
  <2>2. BreadClaimed(q, y, flag[y], "BWRITE") /\ UNCHANGED <<bno, iodone>>
    BY <1>4, <2>1 DEF ClaimCached
  <2>3. flag' = [flag EXCEPT ![y] = flag[y]] /\ io' = io
    BY <2>1, <2>2 DEF BreadClaimed
  <2>4. flag' = flag
    BY <1>0, <2>3 DEF LockTypes
  <2> QED BY <1>2, <2>2, <2>3, <2>4
<1>5. CASE FindHit(q)
  <2>1. /\ Found(blk[q]) \in Bufs /\ bno[Found(blk[q])] = blk[q]
        /\ gate[Found(blk[q])] = None /\ pc[q] = "find" /\ ClaimCached(q, Found(blk[q]))
    BY <1>0, <1>5, FoundIs DEF FindHit, At
  <2> QED BY <1>4, <2>1
<1>6. CASE GateFree(q)
  <2>1. buf[q] \in Bufs /\ gate[buf[q]] = None /\ pc[q] = "gate"
    BY <1>0, <1>6 DEF GateFree, At, Owned
  <2>2. CASE bno[buf[q]] = blk[q]
    BY <1>4, <1>6, <2>1, <2>2 DEF GateFree
  <2>3. CASE bno[buf[q]] # blk[q]
    BY <1>3, <1>6, <2>3 DEF PassStep
  <2> QED BY <2>2, <2>3
<1>7. CASE AheadGate(q)
  <2>1. CASE bno[buf[q]] = blk[q]
    <3>1. /\ flag' = [flag EXCEPT ![buf[q]] = @ \cup {"ASY"}]
          /\ io' = io \cup {buf[q]} /\ UNCHANGED <<bno, iodone>>
      BY <1>7, <2>1 DEF AheadGate
    <3>2. "MOD" \in flag'[x]
      BY <1>0, <3>1 DEF LockTypes
    <3> QED BY <3>1, <3>2 DEF Stays
  <2>2. CASE bno[buf[q]] # blk[q]
    BY <1>3, <1>7, <2>2 DEF PassStep
  <2> QED BY <2>1, <2>2
<1>8. CASE ScanTake(q)
  <2>1. PICK y \in Bufs : y = Candidate(q) /\ gate[y] = None /\ "MOD" \notin flag[y]
    BY <1>0, <1>8, Searches DEF ScanTake
  <2>2. y # x /\ \E b : bno' = [bno EXCEPT ![y] = b]
    BY <1>8, <2>1 DEF ScanTake
  <2>3. (\E f : flag' = [flag EXCEPT ![y] = f]) /\ iodone' = [iodone EXCEPT ![y] = "none"]
        /\ io \subseteq io'
    BY <1>8, <2>1 DEF ScanTake, BreadClaimed
  <2> QED BY <1>0, <2>2, <2>3 DEF Stays, LockTypes, IdTypes
<1>9. ASSUME NEW start, NEW fin, Sweeps(q, start, fin) PROVE Stays(x)
  <2>1. CASE x \in start
    BY <1>0, <1>9, <2>1 DEF Sweeps, Stays, Transfers
  <2>2. CASE x \in fin
    BY <1>9, <2>2 DEF Sweeps
  <2>3. CASE x \notin start \cup fin
    BY <1>9, <2>3 DEF Sweeps, Stays
  <2> QED BY <2>1, <2>2, <2>3
<1>10. CASE Build(q)
  BY <1>9, <1>10, BuildSweeps
<1>11. CASE WriteList(q)
  BY <1>9, <1>11, WriteSweeps
<1>12. ASSUME LetsGo(q, buf[q]) PROVE Stays(x)
  BY <1>0, <1>12 DEF LetsGo, Stays, LockTypes
<1>13. CASE UseRead(q) \/ WriteDone(q)
  <2>1. LetsGoStep(q)
    BY <1>13 DEF LetsGoStep
  <2> QED BY <1>12, <2>1, LetsGoSteps
<1>14. CASE ReadDone(q)
  <2>1. CASE "ERR" \in flag[buf[q]]
    BY <1>12, <1>14, <2>1, LetsGoSteps DEF LetsGoStep
  <2>2. CASE "ERR" \notin flag[buf[q]]
    BY <1>2, <1>14, <2>2 DEF ReadDone
  <2> QED BY <2>1, <2>2
<1>15. CASE UseWrite(q) \/ UseStart(q)
  <2>1. Stores(q, buf[q])
    BY <1>15, StoreSteps
  <2> QED BY <2>1 DEF Stores, Stays
<1>16. CASE \/ \E o \in Ops, b \in Blocks \cup {NODEV} : Call(q, o, b)
            \/ FindMiss(q) \/ FindBusy(q) \/ AheadHit(q)
            \/ ScanDirty(q) \/ ScanFail(q) \/ NeedSleep(q) \/ SyncWait(q)
  BY <1>3, <1>16 DEF PassStep
<1> QED
  BY <1>5, <1>6, <1>7, <1>8, <1>10, <1>11, <1>13, <1>14, <1>15, <1>16 DEF Acts

\* Versions only grow, on the device and elsewhere.
Grows == /\ \A b \in Blocks : latest'[b] >= latest[b] /\ disk'[b] >= disk[b]
         /\ \A b \in Blocks : disk'[b] <= latest'[b]

LEMMA VersionsGrow ==
  ASSUME Sound, \A b \in Blocks : disk[b] <= latest[b], Next
  PROVE  Grows
<1>0. DataTypes /\ IdTypes
  BY StoreFacts
<1>1. ASSUME UNCHANGED <<disk, latest>> PROVE Grows
  BY <1>0, <1>1 DEF Grows, DataTypes
<1>2. ASSUME NEW p \in Procs, Acts(p) PROVE Grows
  <2>1. CASE UseWrite(p) \/ UseStart(p)
    <3>1. disk' = disk /\ latest' = [latest EXCEPT ![blk[p]] = @ + 1]
      BY <2>1 DEF UseWrite, UseStart, Store
    <3>2. \A b \in Blocks : latest'[b] = latest[b] \/ latest'[b] = latest[b] + 1
      BY <1>0, <3>1 DEF DataTypes
    <3>3. \A b \in Blocks : disk[b] \in Nat /\ latest[b] \in Nat
      BY <1>0 DEF DataTypes
    <3> QED BY <3>1, <3>2, <3>3 DEF Grows
  <2>2. CASE ~ (UseWrite(p) \/ UseStart(p))
    <3>1. UNCHANGED <<disk, latest>>
      BY <1>2, <2>2 DEF Acts, Call, FindMiss, FindBusy, FindHit, GateFree, AheadHit,
         AheadGate, ScanTake, ScanDirty, ScanFail, NeedSleep, Build, WriteList, SyncWait,
         ReadDone, UseRead, WriteDone, ClaimCached
    <3> QED BY <1>1, <3>1
  <2> QED BY <2>1, <2>2
<1>3. ASSUME NEW x \in Bufs, NEW ok \in BOOLEAN, biodone(x, ok) PROVE Grows
  <2>1. req[x] = "BREAD" \/ req[x] = "BWRITE"
    BY <1>0 DEF DataTypes
  <2>2. CASE req[x] = "BREAD"
    BY <1>1, <1>3, <2>2, DoneRead
  <2>3. CASE req[x] = "BWRITE"
    <3>1. latest' = latest /\ disk' = [disk EXCEPT ![bno[x]] = latest[bno[x]]]
      BY <1>3, <2>3, DoneWrite
    <3>2. \A b \in Blocks : disk'[b] = disk[b] \/ disk'[b] = latest[b]
      BY <1>0, <3>1 DEF DataTypes
    <3>3. \A b \in Blocks : disk[b] \in Nat /\ latest[b] \in Nat
      BY <1>0 DEF DataTypes
    <3> QED BY <3>1, <3>2, <3>3 DEF Grows
  <2> QED BY <2>1, <2>2, <2>3
<1> QED BY <1>2, <1>3 DEF Next, Acts

----------------------------------------------------------------------------
SyncInv == StoreInv /\ Goals /\ Synced /\ Drained

LEMMA SyncInit == Init => Goals /\ Synced /\ Drained
<1> SUFFICES ASSUME Init PROVE Goals /\ Synced /\ Drained
  OBVIOUS
<1>1. latest = [b \in Blocks |-> 0] /\ disk = [b \in Blocks |-> 0]
      /\ goal = [p \in Procs |-> latest]
  BY DEF Init
<1>2. \A p \in Procs : ~Syncing(p) /\ pc[p] = "user"
  BY DEF Init, Syncing
<1>3. Goals
  <2>1. goal \in [Procs -> [Blocks -> Nat]] /\ DOMAIN idx = Procs
    BY <1>1 DEF Init
  <2>2. \A b \in Blocks : disk[b] <= latest[b]
    BY <1>1
  <2>3. \A p \in Procs, b \in Blocks : goal[p][b] <= latest[b]
    BY <1>1
  <2> QED BY <1>2, <2>1, <2>2, <2>3 DEF Goals
<1> QED BY <1>2, <1>3 DEF Synced, Drained

\* How the sync of p itself goes on, and what it then has still to write.
LEMMA BuildGoes ==
  ASSUME Sound, Goals, NEW p \in Procs, Syncing(p), Build(p)
  PROVE  /\ pc'[p] \in {"write", "buildwait"} /\ op'[p] = op[p] /\ goal' = goal /\ DOMAIN idx' = Procs
         /\ pc'[p] = "buildwait" => idx'[p] \in 1 .. NBUF + 1
         /\ \A x \in Bufs : "MOD" \in flag[x] /\ ToWrite(p, x) => ToWrite(p, x)'
<1>0. /\ LockTypes /\ IdTypes /\ Named
  BY StoreFacts
<1> DEFINE end == BuildEnd(p)
           visited == {x \in Bufs : idx[p] <= x /\ x < end}
<1>1. /\ pc[p] \in {"build", "buildwait"} /\ UNCHANGED <<op, goal>>
      /\ list' = [list EXCEPT ![p] = @ \cup {x \in visited : Dirty(p, x)}]
      /\ idx' = [idx EXCEPT ![p] = end]
      /\ pc' = [pc EXCEPT ![p] = IF end > NBUF THEN "write" ELSE "buildwait"]
  BY DEF Build, BuildEnd, At
<1>2. /\ end \in 1 .. NBUF + 1 /\ idx[p] \in 1 .. NBUF + 1
      /\ \A x \in {x \in Bufs : x >= idx[p]} : x < end => gate[x] = None
  <2>1. {x \in Bufs : x >= idx[p]} \subseteq Bufs
    OBVIOUS
  <2> QED BY <1>1, <2>1, FirstIs DEF BuildEnd, Goals
<1> HIDE DEF end
<1>3. /\ pc'[p] = (IF end > NBUF THEN "write" ELSE "buildwait") /\ idx'[p] = end
      /\ list'[p] = list[p] \cup {x \in visited : Dirty(p, x)} /\ op'[p] = op[p]
      /\ DOMAIN idx' = Procs
  BY <1>0, <1>1 DEF LockTypes, Goals
<1>4. ASSUME NEW x \in Bufs, "MOD" \in flag[x], ToWrite(p, x) PROVE ToWrite(p, x)'
  <2>1. x \in Nat /\ x <= NBUF /\ NBUF \in Nat
    BY BufAssumption DEF Bufs
  <2>2. CASE x \in list[p]
    BY <1>3, <2>2 DEF ToWrite, Listing
  <2>3. CASE x >= idx[p] /\ x >= end
    <3>1. ~ (end > NBUF)
      BY <1>2, <2>1, <2>3, BufAssumption
    <3> QED BY <1>3, <2>3, <3>1 DEF ToWrite
  <2>4. CASE x >= idx[p] /\ ~ (x >= end)
    <3>1. idx[p] <= x /\ x < end
      BY <1>2, <2>1, <2>4, BufAssumption
    <3>2. gate[x] = None
      BY <1>2, <2>4, <3>1
    <3>3. bno[x] # NODEV
      BY <1>0, <1>4 DEF Named
    <3>4. Dirty(p, x)
      BY <1>4, <3>2, <3>3, FreeIsValid DEF Dirty, Selected
    <3> QED BY <1>3, <3>1, <3>4 DEF ToWrite, Listing
  <2> QED BY <1>1, <1>4, <2>2, <2>3, <2>4 DEF ToWrite
<1> QED BY <1>1, <1>2, <1>3, <1>4

LEMMA WriteGoes ==
  ASSUME Sound, NEW p \in Procs, Syncing(p), WriteList(p)
  PROVE  /\ pc'[p] \in {"writewait", "syncwait"} /\ op'[p] = op[p] /\ goal' = goal /\ DOMAIN idx' = DOMAIN idx
         /\ pc'[p] = "syncwait" => list'[p] = {}
         /\ \A x \in Bufs : "MOD" \in flag[x] /\ ToWrite(p, x) => ToWrite(p, x)'
<1>0. /\ LockTypes /\ IdTypes /\ Named /\ Transfers
  BY StoreFacts
<1>1. /\ pc[p] \in {"write", "writewait"} /\ UNCHANGED <<op, goal>>
      /\ list' = [list EXCEPT ![p] = @ \ Taken(p)]
      /\ pc' = [pc EXCEPT ![p] = IF list[p] = Taken(p) THEN "syncwait" ELSE "writewait"]
      /\ io' = io \cup Starts(p)
      /\ iodone' = [x \in Bufs |->
           CASE x \in Starts(p) /\ op[p] = "sync" -> "sync_iodone"
             [] x \in Starts(p) /\ op[p] = "flush" -> "bflush_iodone"
             [] OTHER -> iodone[x]]
      /\ idx' = [idx EXCEPT ![p] = @]
  BY DEF WriteList, Taken, Starts, At, Syncing
<1>2. /\ pc'[p] = (IF list[p] = Taken(p) THEN "syncwait" ELSE "writewait")
      /\ list'[p] = list[p] \ Taken(p) /\ op'[p] = op[p]
  BY <1>0, <1>1 DEF LockTypes
<1>3. DOMAIN idx' = DOMAIN idx
  BY <1>1
<1>4. ASSUME NEW x \in Bufs, "MOD" \in flag[x], ToWrite(p, x) PROVE ToWrite(p, x)'
  <2>1. CASE x \in list[p] /\ x \notin Taken(p)
    BY <1>1, <1>2, <2>1 DEF ToWrite, Listing
  <2>2. CASE x \in list[p] /\ x \in Taken(p)
    <3>1. gate[x] = None
      BY <2>2 DEF Taken
    <3>2. bno[x] # NODEV
      BY <1>0, <1>4 DEF Named
    <3>3. flag[x] \cap {"NTP", "ERR"} = {}
      BY <3>1, <3>2, FreeIsValid
    <3>4. x \in Starts(p)
      BY <1>4, <2>2, <3>2, <3>3 DEF Starts, Dirty, Selected
    <3>5. x \in io' /\ iodone'[x] # "none"
      BY <1>1, <3>4 DEF Syncing
    <3> QED BY <1>2, <3>5 DEF ToWrite
  <2>3. CASE x \in io /\ iodone[x] # "none"
    <3>1. x \in io' /\ iodone'[x] # "none"
      BY <1>1, <2>3
    <3> QED BY <1>2, <3>1 DEF ToWrite
  <2> QED BY <1>1, <1>4, <2>1, <2>2, <2>3 DEF ToWrite
<1> QED BY <1>1, <1>2, <1>3, <1>4

\* Which processes are in a sync after a step, and how they came there.
Begins(p) == /\ op'[p] \in {"sync", "flush"} /\ pc'[p] = "build" /\ idx'[p] = 1 /\ goal'[p] = latest
             /\ UNCHANGED <<bno, flag, body, disk, latest>>
Proceeds(p) == Syncing(p) /\ (Build(p) \/ WriteList(p))
Leaves(p) == op'[p] \notin {"sync", "flush"} /\ pc'[p] # "syncwait"

LEMMA SyncSteps ==
  ASSUME Sound, SyncTypes, NEW p \in Procs, Next
  PROVE  \/ Begins(p) \/ Leaves(p) \/ Proceeds(p)
         \/ Undisturbed(p) /\ pc[p] # "need"
<1>0. LockTypes /\ IdTypes /\ Calls
  BY StoreFacts
<1>1. CASE Acts(p)
  <2>1. ASSUME NEW o \in Ops, NEW b \in Blocks \cup {NODEV}, Call(p, o, b)
        PROVE  Begins(p) \/ Leaves(p)
    <3>1. op' = [op EXCEPT ![p] = o]
      BY <2>1 DEF Call, Locals
    <3>2. CASE o \in {"sync", "flush"}
      <4>1. /\ pc' = [pc EXCEPT ![p] = "build"] /\ idx' = [idx EXCEPT ![p] = 1]
            /\ goal' = [goal EXCEPT ![p] = latest]
            /\ UNCHANGED <<bno, flag, body, disk, latest>>
        BY <2>1, <3>2 DEF Call, bufVars
      <4> QED BY <3>1, <3>2, <4>1 DEF Begins, SyncTypes
    <3>3. CASE o \notin {"sync", "flush"}
      <4>1. pc' = [pc EXCEPT ![p] = "find"]
        BY <2>1, <3>3 DEF Call
      <4> QED BY <3>1, <3>3, <4>1 DEF Leaves, SyncTypes
    <3> QED BY <3>2, <3>3
  <2>2. CASE ~Syncing(p) /\ ~ (\E o \in Ops, b \in Blocks \cup {NODEV} : Call(p, o, b))
    <3>1. op'[p] \notin {"sync", "flush"}
      <4>1. \/ op' = op \/ op' = [op EXCEPT ![p] = "none"] \/ op' = [op EXCEPT ![p] = "ahead_sync"]
        BY <1>1, <2>2 DEF Acts, FindMiss, FindBusy, FindHit, GateFree, AheadHit,
           AheadGate, ScanTake, ScanDirty, ScanFail, NeedSleep, Build, WriteList, SyncWait,
           ReadDone, UseRead, UseWrite, UseStart, WriteDone, ClaimCached, BreadClaimed,
           Release, Return, Locals
      <4> QED BY <1>0, <2>2, <4>1 DEF Syncing, IdTypes
    <3>2. Calls' /\ IdTypes'
      BY CallsNext DEF Sound, StoreInv, AliasInv
    <3> QED BY <3>1, <3>2 DEF Leaves, Calls, Syncing
  <2>3. CASE Syncing(p)
    <3>1. pc[p] \in {"build", "buildwait", "write", "writewait", "syncwait"}
      BY <1>0, <2>3 DEF Calls, Listing
    <3>2. Build(p) \/ WriteList(p) \/ SyncWait(p)
      BY <1>1, <3>1 DEF Acts, Call, FindMiss, FindBusy, FindHit, GateFree, AheadHit,
         AheadGate, ScanTake, ScanDirty, ScanFail, NeedSleep,
         ReadDone, UseRead, UseWrite, UseStart, WriteDone, At
    <3>3. CASE SyncWait(p)
      BY <3>3 DEF SyncWait, Return, Locals, Leaves, SyncTypes
    <3> QED BY <2>3, <3>2, <3>3 DEF Proceeds
  <2> QED BY <2>1, <2>2, <2>3
<1>2. ASSUME NEW q \in Procs, q # p, Acts(q) PROVE Leaves(p) \/ (Undisturbed(p) /\ pc[p] # "need")
  <2>1. CASE pc[p] # "need"
    BY <1>2, <2>1, Bystander
  <2>2. CASE pc[p] = "need"
    <3>1. ~Syncing(p)
      BY <1>0, <2>2 DEF Calls, Listing
    <3>2. op'[p] = op[p]
      <4>1. \E o : op' = [op EXCEPT ![q] = o]
        <5>1. \/ \E o \in Ops : op' = [op EXCEPT ![q] = o]
              \/ op' = op \/ op' = [op EXCEPT ![q] = "none"] \/ op' = [op EXCEPT ![q] = "ahead_sync"]
          BY <1>2 DEF Acts, Call, FindMiss, FindBusy, FindHit, GateFree, AheadHit,
           AheadGate, ScanTake, ScanDirty, ScanFail, NeedSleep, Build, WriteList, SyncWait,
           ReadDone, UseRead, UseWrite, UseStart, WriteDone, ClaimCached, BreadClaimed,
           Release, Return, Locals
        <5>2. op = [op EXCEPT ![q] = op[q]]
          BY <1>0 DEF IdTypes
        <5> QED BY <5>1, <5>2
      <4> QED BY <1>2, <4>1 DEF SyncTypes
    <3>3. Calls' /\ IdTypes'
      BY CallsNext DEF Sound, StoreInv, AliasInv
    <3> QED BY <3>1, <3>2, <3>3 DEF Leaves, Calls, Syncing
  <2> QED BY <2>1, <2>2
<1>3. ASSUME NEW x \in Bufs, NEW ok \in BOOLEAN, biodone(x, ok)
      PROVE  Leaves(p) \/ (Undisturbed(p) /\ pc[p] # "need")
  <2>1. CASE pc[p] # "need"
    BY <1>3, <2>1, DoneBystander
  <2>2. CASE pc[p] = "need"
    <3>1. ~Syncing(p) /\ op'[p] = op[p]
      BY <1>0, <1>3, <2>2 DEF Calls, Listing, biodone
    <3>2. pc'[p] \in {"need", "rescan"}
      BY <1>0, <1>3, <2>2, BufAssumption DEF biodone, UnlockBlock, Woken, LockTypes
    <3> QED BY <3>1, <3>2 DEF Leaves, Syncing
  <2> QED BY <2>1, <2>2
<1> QED BY <1>1, <1>2, <1>3 DEF Next, Acts

----------------------------------------------------------------------------
LEMMA SyncTypesHold == Sound /\ Goals => SyncTypes
<1> SUFFICES ASSUME Sound, Goals PROVE SyncTypes
  OBVIOUS
<1>1. LockTypes /\ IdTypes
  BY StoreFacts
<1> QED BY <1>1 DEF LockTypes, IdTypes, Goals, SyncTypes

\* A step of the device: the block of a buffer it does not end stays to be
\* written, and what it has written is the last version.
LEMMA DoneSynced ==
  ASSUME Sound, Goals, NEW p \in Procs, Undisturbed(p), NEW b \in Blocks,
         NEW y \in Bufs, NEW ok \in BOOLEAN, biodone(y, ok),
         NEW x \in Bufs, bno[x] = b, "MOD" \in flag[x], ToWrite(p, x)
  PROVE  \/ disk'[b] >= goal[p][b]
         \/ bno'[x] = b /\ "MOD" \in flag'[x] /\ ToWrite(p, x)'
<1>0. /\ LockTypes /\ IdTypes /\ DataTypes /\ Directed
  BY StoreFacts
<1>1. y \in io /\ io' = io \ {y} /\ iodone' = [iodone EXCEPT ![y] = "none"]
  BY DEF biodone
<1>2. CASE x = y
  <2>1. req[y] = "BWRITE"
    BY <1>0, <1>1, <1>2 DEF Directed
  <2>2. disk' = [disk EXCEPT ![bno[y]] = latest[bno[y]]]
    BY <2>1, DoneWrite
  <2>3. disk'[b] = latest[b]
    BY <1>0, <1>2, <2>2 DEF DataTypes
  <2>4. latest[b] >= goal[p][b]
    BY <1>0 DEF Goals, DataTypes
  <2> QED BY <2>3, <2>4
<1>3. CASE x # y
  <2>1. bno'[x] = bno[x] /\ flag'[x] = flag[x]
    BY <1>0, <1>3 DEF biodone, LockTypes, IdTypes
  <2>2. iodone'[x] = iodone[x] /\ (x \in io <=> x \in io')
    BY <1>0, <1>1, <1>3 DEF LockTypes
  <2> QED BY <2>1, <2>2 DEF ToWrite, Undisturbed
<1> QED BY <1>2, <1>3

\* A step of another process.
LEMMA OtherSynced ==
  ASSUME Sound, NEW p \in Procs, Undisturbed(p), NEW q \in Procs, Acts(q),
         NEW x \in Bufs, "MOD" \in flag[x], ToWrite(p, x)
  PROVE  bno'[x] = bno[x] /\ "MOD" \in flag'[x] /\ ToWrite(p, x)'
<1>1. Stays(x)
  BY DirtyStays
<1> QED BY <1>1 DEF Stays, ToWrite, Undisturbed

LEMMA SyncedNext ==
  ASSUME Sound, Goals, Synced, Next, NEW p \in Procs, NEW b \in Blocks, Syncing(p)',
         \A c \in Blocks : disk'[c] >= disk[c] /\ disk[c] \in Nat /\ disk'[c] \in Nat
                           /\ latest[c] \in Nat /\ goal[p][c] \in Nat,
         DataInv'
  PROVE  \/ disk'[b] >= goal'[p][b]
         \/ \E x \in Bufs : bno'[x] = b /\ "MOD" \in flag'[x] /\ ToWrite(p, x)'
<1>0. SyncTypes /\ NoLostUpdate
  BY StoreFacts, SyncTypesHold
<1>1. CASE Begins(p)
  <2>1. CASE disk[b] = latest[b]
    <3>1. disk'[b] = latest[b] /\ goal'[p][b] = latest[b]
      BY <1>1, <2>1 DEF Begins
    <3> QED BY <3>1
  <2>2. CASE disk[b] # latest[b]
    <3>1. PICK x \in Bufs : bno[x] = b /\ "MOD" \in flag[x]
      BY <1>0, <2>2 DEF NoLostUpdate
    <3>2. bno'[x] = b /\ "MOD" \in flag'[x] /\ x >= idx'[p] /\ pc'[p] = "build"
      BY <1>1, <3>1, BufAssumption DEF Begins, Bufs
    <3>3. ToWrite(p, x)'
      BY <3>2 DEF ToWrite
    <3> QED BY <3>2, <3>3
  <2> QED BY <2>1, <2>2
<1>2. CASE Leaves(p)
  BY <1>2 DEF Leaves, Syncing
<1>3. CASE Proceeds(p)
  <2>1. /\ Syncing(p) /\ goal' = goal /\ Acts(p)
        /\ \A x \in Bufs : "MOD" \in flag[x] /\ ToWrite(p, x) => ToWrite(p, x)'
    <3>1. CASE Build(p)
      BY <1>3, <3>1, BuildGoes DEF Proceeds, Acts
    <3>2. CASE WriteList(p)
      BY <1>3, <3>2, WriteGoes DEF Proceeds, Acts
    <3> QED BY <1>3, <3>1, <3>2 DEF Proceeds
  <2>2. CASE disk[b] >= goal[p][b]
    BY <2>1, <2>2
  <2>3. CASE ~ (disk[b] >= goal[p][b])
    <3>1. PICK x \in Bufs : bno[x] = b /\ "MOD" \in flag[x] /\ ToWrite(p, x)
      BY <2>1, <2>3 DEF Synced
    <3>2. Stays(x)
      BY <2>1, <3>1, DirtyStays
    <3>3. bno'[x] = b /\ "MOD" \in flag'[x] /\ ToWrite(p, x)'
      BY <2>1, <3>1, <3>2 DEF Stays
    <3> QED BY <3>3
  <2> QED BY <2>2, <2>3
<1>4. CASE Undisturbed(p)
  <2>1. Syncing(p) /\ goal'[p] = goal[p]
    BY <1>4 DEF Undisturbed, Syncing
  <2>2. CASE disk[b] >= goal[p][b]
    BY <2>1, <2>2
  <2>3. CASE ~ (disk[b] >= goal[p][b])
    <3>1. PICK x \in Bufs : bno[x] = b /\ "MOD" \in flag[x] /\ ToWrite(p, x)
      BY <2>1, <2>3 DEF Synced
    <3>2. CASE \E q \in Procs : Acts(q)
      BY <1>4, <3>1, <3>2, OtherSynced
    <3>3. CASE \E y \in Bufs, ok \in BOOLEAN : biodone(y, ok)
      BY <1>4, <2>1, <3>1, <3>3, DoneSynced
    <3>4. (\E q \in Procs : Acts(q)) \/ \E y \in Bufs, ok \in BOOLEAN : biodone(y, ok)
      BY DEF Next, Acts
    <3> QED BY <3>2, <3>3, <3>4
  <2> QED BY <2>2, <2>3
<1> QED BY <1>0, <1>1, <1>2, <1>3, <1>4, SyncSteps

LEMMA GoalsNext == Sound /\ Goals /\ Next => Goals'
<1> SUFFICES ASSUME Sound, Goals, Next PROVE Goals'
  OBVIOUS
<1>0. DataTypes /\ SyncTypes
  BY StoreFacts, SyncTypesHold
<1>1. Grows
  BY VersionsGrow DEF Goals
<1>2. /\ goal \in [Procs -> [Blocks -> Nat]] /\ DOMAIN idx = Procs
      /\ latest \in [Blocks -> Nat] /\ disk \in [Blocks -> Nat]
      /\ \A p \in Procs, b \in Blocks : goal[p][b] <= latest[b]
  BY <1>0 DEF Goals, DataTypes
<1>3. DataTypes'
  BY DataNext DEF Sound, StoreInv, DataInv
<1>4. DOMAIN idx' = Procs
  <2>1. ASSUME NEW x, NEW q, NEW c, UnlockBlock(x, q, c) PROVE DOMAIN idx' = Procs
    BY <2>1 DEF UnlockBlock
  <2>2. ASSUME NEW q \in Procs, Acts(q) PROVE DOMAIN idx' = Procs
    <3>1. CASE UseRead(q) \/ UseWrite(q) \/ WriteDone(q)
      BY <2>1, <3>1 DEF UseRead, UseWrite, WriteDone, Release
    <3>2. CASE ReadDone(q)
      BY <1>2, <2>1, <3>2 DEF ReadDone
    <3>3. CASE ~ (UseRead(q) \/ UseWrite(q) \/ WriteDone(q) \/ ReadDone(q))
      <4>1. idx' = idx \/ \E v : idx' = [idx EXCEPT ![q] = v]
        BY <2>2, <3>3 DEF Acts, Call, FindMiss, FindBusy, FindHit, GateFree, AheadHit,
           AheadGate, ScanTake, ScanDirty, ScanFail, NeedSleep, Build, WriteList, SyncWait,
           UseStart, ClaimCached, BreadClaimed
      <4> QED BY <1>2, <4>1
    <3> QED BY <3>1, <3>2, <3>3
  <2>3. ASSUME NEW x \in Bufs, NEW ok \in BOOLEAN, biodone(x, ok) PROVE DOMAIN idx' = Procs
    BY <1>2, <2>1, <2>3 DEF biodone
  <2> QED BY <2>2, <2>3 DEF Next, Acts
<1>5. /\ goal' \in [Procs -> [Blocks -> Nat]]
      /\ \A p \in Procs : \/ goal'[p] = goal[p] \/ goal'[p] = latest
                          \/ goal'[p] = [b \in Blocks |-> 0]
  <2> DEFINE Moves == \/ goal' = goal
                      \/ \E q \in Procs : goal' = [goal EXCEPT ![q] = latest]
                      \/ \E q \in Procs : goal' = [goal EXCEPT ![q] = [b \in Blocks |-> 0]]
  <2>1. ASSUME NEW q \in Procs, Acts(q) PROVE Moves
    <3>1. CASE \E o \in Ops, b \in Blocks \cup {NODEV} : Call(q, o, b)
      BY <3>1 DEF Call
    <3>2. CASE SyncWait(q)
      BY <3>2 DEF SyncWait
    <3>3. CASE ~ (SyncWait(q) \/ \E o \in Ops, b \in Blocks \cup {NODEV} : Call(q, o, b))
      BY <2>1, <3>3 DEF Acts, FindMiss, FindBusy, FindHit, GateFree, AheadHit,
         AheadGate, ScanTake, ScanDirty, ScanFail, NeedSleep, Build, WriteList,
         ReadDone, UseRead, UseWrite, UseStart, WriteDone, ClaimCached
    <3> QED BY <3>1, <3>2, <3>3
  <2>2. ASSUME NEW x \in Bufs, NEW ok \in BOOLEAN, biodone(x, ok) PROVE Moves
    BY <2>2 DEF biodone
  <2>3. Moves
    BY <2>1, <2>2 DEF Next, Acts
  <2>4. CASE goal' = goal
    BY <1>2, <2>4
  <2>5. ASSUME NEW q \in Procs, NEW f \in [Blocks -> Nat], goal' = [goal EXCEPT ![q] = f]
        PROVE  goal' \in [Procs -> [Blocks -> Nat]] /\ \A p \in Procs : goal'[p] = goal[p] \/ goal'[p] = f
    BY <1>2, <2>5
  <2>6. CASE \E q \in Procs : goal' = [goal EXCEPT ![q] = latest]
    BY <1>2, <2>5, <2>6
  <2>7. CASE \E q \in Procs : goal' = [goal EXCEPT ![q] = [b \in Blocks |-> 0]]
    <3>1. [b \in Blocks |-> 0] \in [Blocks -> Nat]
      OBVIOUS
    <3> QED BY <2>5, <2>7, <3>1
  <2> QED BY <2>3, <2>4, <2>6, <2>7
<1>6. ASSUME NEW p \in Procs, NEW b \in Blocks PROVE goal'[p][b] <= latest'[b]
  <2>1. /\ goal[p][b] \in Nat /\ latest[b] \in Nat /\ latest'[b] \in Nat
        /\ latest'[b] >= latest[b] /\ goal[p][b] <= latest[b]
    BY <1>1, <1>2, <1>3 DEF Grows, DataTypes
  <2>2. goal'[p][b] = goal[p][b] \/ goal'[p][b] = latest[b] \/ goal'[p][b] = 0
    BY <1>5
  <2> QED BY <2>1, <2>2
<1>7. ASSUME NEW p \in Procs, Syncing(p)', pc'[p] \in {"build", "buildwait"}
      PROVE  idx'[p] \in 1 .. NBUF + 1
  <2>1. CASE Begins(p)
    BY <2>1, BufAssumption DEF Begins
  <2>2. CASE Leaves(p)
    BY <1>7, <2>2 DEF Leaves, Syncing
  <2>3. CASE Proceeds(p)
    <3>1. CASE Build(p)
      BY <1>7, <2>3, <3>1, BuildGoes DEF Proceeds
    <3>2. CASE WriteList(p)
      BY <1>7, <2>3, <3>2, WriteGoes DEF Proceeds
    <3> QED BY <2>3, <3>1, <3>2 DEF Proceeds
  <2>4. CASE Undisturbed(p)
    BY <1>7, <2>4 DEF Undisturbed, Goals, Syncing
  <2> QED BY <1>0, <2>1, <2>2, <2>3, <2>4, SyncSteps
<1> QED BY <1>1, <1>4, <1>5, <1>6, <1>7 DEF Goals, Grows

LEMMA DrainedNext == Sound /\ Goals /\ Drained /\ Next => Drained'
<1> SUFFICES ASSUME Sound, Goals, Drained, Next, NEW p \in Procs, pc'[p] = "syncwait"
             PROVE  list'[p] = {}
  BY DEF Drained
<1>0. SyncTypes
  BY SyncTypesHold
<1>1. CASE Begins(p) \/ Leaves(p)
  BY <1>1 DEF Begins, Leaves
<1>2. CASE Proceeds(p)
  <2>1. CASE Build(p)
    BY <1>2, <2>1, BuildGoes DEF Proceeds
  <2>2. CASE WriteList(p)
    BY <1>2, <2>2, WriteGoes DEF Proceeds
  <2> QED BY <1>2, <2>1, <2>2 DEF Proceeds
<1>3. CASE Undisturbed(p)
  BY <1>3 DEF Undisturbed, Drained
<1> QED BY <1>0, <1>1, <1>2, <1>3, SyncSteps

LEMMA SyncNext == PrivateUses /\ WritesSucceed /\ SyncInv /\ [Next]_vars => SyncInv'
<1> SUFFICES ASSUME PrivateUses, WritesSucceed, SyncInv, [Next]_vars PROVE SyncInv'
  OBVIOUS
<1>1. Sound /\ StoreInv' /\ Goals /\ Synced /\ Drained
  BY DataNext DEF Sound, SyncInv
<1>2. CASE Next
  <2>1. Goals' /\ Drained'
    BY <1>1, <1>2, GoalsNext, DrainedNext
  <2>2. \A c \in Blocks : /\ disk[c] \in Nat /\ disk'[c] \in Nat /\ latest[c] \in Nat
    BY <1>1, StoreFacts DEF StoreInv, DataInv, DataTypes
  <2>3. \A c \in Blocks : disk'[c] >= disk[c]
    BY <1>1, <1>2, VersionsGrow DEF Grows, Goals
  <2>4. \A p \in Procs, c \in Blocks : goal[p][c] \in Nat
    BY <1>1 DEF Goals
  <2>5. DataInv'
    BY <1>1 DEF StoreInv
  <2>6. Synced'
    BY <1>1, <1>2, <2>2, <2>3, <2>4, <2>5, SyncedNext DEF Synced
  <2> QED BY <1>1, <2>1, <2>6 DEF SyncInv
<1>3. CASE UNCHANGED vars
  <2>1. Goals' /\ Drained' /\ Synced'
    BY <1>1, <1>3 DEF vars, Goals, Drained, Synced, Syncing, ToWrite
  <2> QED BY <1>1, <2>1 DEF SyncInv
<1> QED BY <1>2, <1>3

(***************************************************************************)
(* sync () and bflush () return with every version stored before they were *)
(* called on the device, though they passed locked buffers by, shared the  *)
(* counter bufsync with other syncs and raced with asynchronous writes.    *)
(***************************************************************************)
THEOREM BufferSyncDurable == ASSUME PrivateUses, WritesSucceed PROVE Spec => SyncDurable
<1>1. Init => SyncInv /\ BufsyncInv
  <2> SUFFICES ASSUME Init PROVE SyncInv /\ BufsyncExact
    BY LockInit DEF BufsyncInv
  <2>1. {x \in io : iodone[x] # "none"} = {} /\ bufsync = 0
    BY DEF Init
  <2>2. BufsyncExact
    BY <2>1, FS_EmptySet DEF BufsyncExact
  <2> QED BY <2>2, AliasInit, StoreInit, SyncInit DEF SyncInv, StoreInv
<1>2. SyncInv /\ BufsyncInv /\ [Next]_vars => SyncInv' /\ BufsyncInv'
  BY SyncNext, BufsyncNext
<1>3. ASSUME SyncInv, BufsyncInv, [Next]_vars
      PROVE  [\A p \in Procs : Syncing(p) /\ pc[p] # "user" /\ pc'[p] = "user"
                => \A b \in Blocks : disk'[b] >= goal[p][b]]_vars
  <2> SUFFICES ASSUME Next, NEW p \in Procs, Syncing(p), pc[p] # "user", pc'[p] = "user",
                      NEW b \in Blocks
               PROVE  disk'[b] >= goal[p][b]
    BY <1>3
  <2>0. Sound /\ Goals /\ Synced /\ Drained /\ SyncTypes
    BY <1>3, SyncTypesHold DEF SyncInv, Sound
  <2>1. pc[p] \in {"build", "buildwait", "write", "writewait", "syncwait"}
    BY <2>0, StoreFacts DEF Calls, Listing
  <2>2. SyncWait(p)
    <3>1. ~ Undisturbed(p) /\ ~ Proceeds(p) /\ ~ Begins(p)
      <4>1. ~ Proceeds(p)
        BY <2>0, BuildGoes, WriteGoes DEF Proceeds
      <4> QED BY <4>1 DEF Undisturbed, Begins
    <3>2. Acts(p)
      <4>1. ASSUME NEW q \in Procs, q # p, Acts(q) PROVE FALSE
        BY <2>0, <2>1, <3>1, <4>1, Bystander
      <4>2. ASSUME NEW x \in Bufs, NEW ok \in BOOLEAN, biodone(x, ok) PROVE FALSE
        BY <2>0, <2>1, <3>1, <4>2, DoneBystander
      <4> QED BY <4>1, <4>2 DEF Next, Acts
    <3>3. Build(p) \/ WriteList(p) \/ SyncWait(p)
      BY <2>1, <3>2 DEF Acts, Call, FindMiss, FindBusy, FindHit, GateFree, AheadHit,
         AheadGate, ScanTake, ScanDirty, ScanFail, NeedSleep,
         ReadDone, UseRead, UseWrite, UseStart, WriteDone, At
    <3> QED BY <3>1, <3>3 DEF Proceeds
  <2>3. pc[p] = "syncwait" /\ bufsync = 0 /\ disk' = disk
    BY <2>2 DEF SyncWait, At
  <2>4. \A x \in io : iodone[x] = "none"
    <3>1. IsFiniteSet(Writing) /\ bufsync = Cardinality(Writing)
      <4>1. IsFiniteSet(Bufs)
        BY FS_Interval, BufAssumption DEF Bufs
      <4>2. Writing \subseteq Bufs
        BY <1>3 DEF Writing, BufsyncInv, LockInv, LockTypes
      <4> QED BY <1>3, <4>1, <4>2, FS_Subset DEF BufsyncInv, BufsyncExact, Writing
    <3>2. Writing = {}
      BY <2>3, <3>1, FS_EmptySet
    <3> QED BY <3>2 DEF Writing
  <2>5. \A x \in Bufs : ~ ToWrite(p, x)
    BY <2>0, <2>3, <2>4 DEF ToWrite, Drained, Listing
  <2> QED BY <2>0, <2>3, <2>5 DEF Synced
<1>4. SyncInv /\ BufsyncInv /\ [Next]_vars =>
        [\A p \in Procs : Syncing(p) /\ pc[p] # "user" /\ pc'[p] = "user"
           => \A b \in Blocks : disk'[b] >= goal[p][b]]_vars
  BY <1>3
<1> QED BY <1>1, <1>2, <1>4, PTL DEF Spec, SyncDurable
====
