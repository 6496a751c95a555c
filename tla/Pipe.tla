---- MODULE Pipe ----
(***************************************************************************)
(* Pipes and FIFOs: coh.386/pipe.c, driven by open, read, write, close and *)
(* poll of sys3.c, fd.c, fs3.c and sys6.c on one pipe inode.               *)
(*                                                                         *)
(* The inode gate is held over each operation and dropped in psleep; Gate  *)
(* shows what it guarantees, here it is its owner.  A process runs from    *)
(* one sleep to the next, and it may sleep waiting for the gate, in        *)
(* psleep, or (with the gate held) inside fread and fwrite, so every turn  *)
(* of the loops of pread and pwrite is one step.                           *)
(***************************************************************************)
EXTENDS Integers, FiniteSets

CONSTANTS
  Procs,      \* the processes
  Files,      \* open file table entries (__fd_t) of this inode
  Mode,       \* Mode[f]: "r", "w" or "rw", the access f is opened for
  PIPE_MAX,   \* capacity of the ring
  Named,      \* TRUE: a FIFO in a directory; FALSE: made by pipe ()
  Forking,    \* TRUE when processes share entries through fork ()
  MaySignal,  \* the processes that receive signals
  Pollers,    \* the processes that call poll ()
  MayFault,   \* the processes whose copy from or to user space may fail
  Flags,      \* subset of {"block", "ndelay", "nonblock"}
  Sizes,      \* sizes of reads and writes
  MaxBytes,   \* bound on the number of bytes written
  NoProc,     \* no owner of the inode gate
  NoFile      \* no file

ASSUME PipeAssumption ==
  /\ IsFiniteSet(Procs)
  /\ IsFiniteSet(Files)
  /\ Mode \in [Files -> {"r", "w", "rw"}]
  /\ PIPE_MAX \in Nat \ {0}
  /\ Named \in BOOLEAN
  /\ Forking \in BOOLEAN
  /\ Sizes \subseteq Nat \ {0}
  /\ MaxBytes \in Nat
  /\ NoProc \notin Procs
  /\ NoFile \notin Files

VARIABLES
  pnc, prx, pwx,        \* characters in the pipe, read and write offsets
  par, paw, psr, psw,   \* awake and sleeping readers and writers
  owner,                \* the process that holds the inode gate
  entry,                \* entry[f]: "free", "opening" or "open"
  fds,                  \* fds[p]: the entries that u_filep of p refers to
  pc, op, file, flag, ioc,   \* what each process does in the kernel
  sig,                  \* the processes with a signal pending
  ring, wseq, rseq      \* the blocks' contents; bytes are numbered

counters == <<par, paw, psr, psw>>
data == <<pnc, prx, pwx, ring, wseq, rseq>>
call == <<op, file, flag, ioc>>
vars == <<pnc, prx, pwx, par, paw, psr, psw, owner, entry, fds, pc, op, file,
          flag, ioc, sig, ring, wseq, rseq>>

IFWFR == "IFWFR"   \* sleeping, waiting for a reader
IFWFW == "IFWFW"   \* sleeping, waiting for a writer
IEV == "i_iev"     \* polling for input
OEV == "i_oev"     \* polling for output

Readable == {f \in Files : Mode[f] \in {"r", "rw"}}
Writable == {f \in Files : Mode[f] \in {"w", "rw"}}

\* What process p sleeps on in psleep or in poll.
Chan(p) == CASE op[p] = "pollin" -> IEV
             [] op[p] = "pollout" -> OEV
             [] op[p] = "write" -> IFWFR
             [] op[p] = "open" /\ Mode[file[p]] = "w" -> IFWFR
             [] OTHER -> IFWFW

(***************************************************************************)
(* pipe () leaves its caller with a read and a write entry; a FIFO starts  *)
(* with nothing open.  Either way pclear () zeroed the inode's fields.     *)
(***************************************************************************)
pclear == /\ pnc = 0 /\ prx = 0 /\ pwx = 0
          /\ par = 0 /\ paw = 0 /\ psr = 0 /\ psw = 0

Created(p, r, w) ==
  /\ pnc = 0 /\ prx = 0 /\ pwx = 0
  /\ par = 1 /\ paw = 1 /\ psr = 0 /\ psw = 0
  /\ entry = [f \in Files |-> IF f \in {r, w} THEN "open" ELSE "free"]
  /\ fds = [q \in Procs |-> IF q = p THEN {r, w} ELSE {}]

Init ==
  /\ IF Named
     THEN /\ pclear
          /\ entry = [f \in Files |-> "free"]
          /\ fds = [p \in Procs |-> {}]
     ELSE \E p \in Procs, r, w \in Files :
            Mode[r] = "r" /\ Mode[w] = "w" /\ Created(p, r, w)
  /\ owner = NoProc
  /\ pc = [p \in Procs |-> "user"]
  /\ op = [p \in Procs |-> "none"]
  /\ file = [p \in Procs |-> NoFile]
  /\ flag = [p \in Procs |-> "block"]
  /\ ioc = [p \in Procs |-> 0]
  /\ sig = {}
  /\ ring = [i \in 0 .. PIPE_MAX - 1 |-> 0]
  /\ wseq = 0
  /\ rseq = 0

----------------------------------------------------------------------------
\* Mutant of pwakeW: pollwake () is forgotten.
pwakeWnoPoll(nc, aw, sr, sw) == IF sr # 0 THEN {IFWFW} ELSE {}

(***************************************************************************)
(* pwake (ip, who) in a state with the given fields: the channels woken.   *)
(* wakeup () and pollwake () make all the sleepers of a channel runnable.  *)
(***************************************************************************)
pwakeW(nc, aw, sr, sw) ==
  (IF sr # 0 THEN {IFWFW} ELSE {})
    \cup (IF nc > 0 \/ (aw = 0 /\ sw = 0) THEN {IEV} ELSE {})

pwakeR(nc, ar, sr, sw) ==
  (IF sw # 0 THEN {IFWFR} ELSE {})
    \cup (IF nc < PIPE_MAX /\ (ar # 0 \/ sr # 0) THEN {OEV} ELSE {})

\* Process p goes to "at" after waking the sleepers of the given channels.
Goto(p, at, woken) ==
  pc' = [q \in Procs |->
          CASE q = p -> at
            [] q # p /\ pc[q] = "sleep" /\ Chan(q) \in woken -> "woken"
            [] OTHER -> pc[q]]

(***************************************************************************)
(* The end of a system call: the inode is unlocked, and a pending signal   *)
(* is delivered on the way to user level.                                  *)
(***************************************************************************)
Finish(p, woken) ==
  /\ owner' = NoProc
  /\ sig' = sig \ {p}
  /\ op' = [op EXCEPT ![p] = "none"]
  /\ file' = [file EXCEPT ![p] = NoFile]
  /\ flag' = [flag EXCEPT ![p] = "block"]
  /\ ioc' = [ioc EXCEPT ![p] = 0]
  /\ Goto(p, "user", woken)

(***************************************************************************)
(* psleep (ip, who), called with ar awake readers and aw awake writers.    *)
(* x_sleep (slpriSigCatch) returns at once when a signal is pending.       *)
(* Otherwise the process sleeps counted as a sleeping one.                 *)
(***************************************************************************)
psleep(p, who, ar, aw) ==
  /\ owner' = NoProc
  /\ IF p \in sig
     THEN /\ par' = ar /\ paw' = aw
          /\ UNCHANGED <<psr, psw>>
          /\ pc' = [pc EXCEPT ![p] = "relock_intr"]
     ELSE /\ IF who = IFWFW
             THEN /\ par' = ar - 1 /\ psr' = psr + 1
                  /\ paw' = aw /\ UNCHANGED psw
             ELSE /\ paw' = aw - 1 /\ psw' = psw + 1
                  /\ par' = ar /\ UNCHANGED psr
          /\ pc' = [pc EXCEPT ![p] = "sleep"]

\* x_sleep returns: the process counts as awake before it has the inode.
Resume(p) ==
  /\ pc[p] = "woken"
  /\ Chan(p) \in {IFWFR, IFWFW}
  /\ IF Chan(p) = IFWFW
     THEN par' = par + 1 /\ psr' = psr - 1 /\ UNCHANGED <<paw, psw>>
     ELSE paw' = paw + 1 /\ psw' = psw - 1 /\ UNCHANGED <<par, psr>>
  /\ pc' = [pc EXCEPT ![p] = IF p \in sig THEN "relock_intr" ELSE "relock"]
  /\ UNCHANGED <<data, call, owner, entry, fds, sig>>

\* ilock (): at the start of a call, and at the end of psleep ().
ILock(p) ==
  /\ owner = NoProc
  /\ \E from \in {"lock", "relock", "relock_intr"} :
       /\ pc[p] = from
       /\ pc' = [pc EXCEPT ![p] = CASE from = "lock" -> "start"
                                    [] from = "relock" -> "again"
                                    [] from = "relock_intr" -> "intr"]
  /\ owner' = p
  /\ UNCHANGED <<data, counters, call, entry, fds, sig>>

----------------------------------------------------------------------------
\* A system call on entry f begins by locking the inode.
Begin(p, o, f, fl, n) ==
  /\ pc[p] = "user"
  /\ pc' = [pc EXCEPT ![p] = "lock"]
  /\ op' = [op EXCEPT ![p] = o]
  /\ file' = [file EXCEPT ![p] = f]
  /\ flag' = [flag EXCEPT ![p] = fl]
  /\ ioc' = [ioc EXCEPT ![p] = n]
  /\ UNCHANGED <<data, counters, owner, entry, sig>>

\* open () of a FIFO on an entry nobody uses (fd_alloc).
OpenCall(p, f, fl) ==
  /\ Named
  /\ entry[f] = "free"
  /\ \A q \in Procs : file[q] # f
  /\ Begin(p, "open", f, fl, 0)
  /\ UNCHANGED fds

ReadCall(p, f, fl, n) ==
  /\ f \in fds[p] \cap Readable
  /\ Begin(p, "read", f, fl, n)
  /\ UNCHANGED fds

WriteCall(p, f, fl, n) ==
  /\ f \in fds[p] \cap Writable
  /\ wseq + n <= MaxBytes
  /\ Begin(p, "write", f, fl, n)
  /\ UNCHANGED fds

(***************************************************************************)
(* fd_close (): the entry of another process's descriptor stays open; the  *)
(* last one calls iclose (), which locks the inode.                        *)
(***************************************************************************)
CloseLast(p, f) ==
  /\ f \in fds[p]
  /\ \A q \in Procs \ {p} : f \notin fds[q]
  /\ fds' = [fds EXCEPT ![p] = @ \ {f}]
  /\ Begin(p, "close", f, "block", 0)

CloseShared(p, f) ==
  /\ pc[p] = "user"
  /\ f \in fds[p]
  /\ \E q \in Procs \ {p} : f \in fds[q]
  /\ fds' = [fds EXCEPT ![p] = @ \ {f}]
  /\ UNCHANGED <<data, counters, owner, entry, pc, call, sig>>

\* fork (): a process without descriptors inherits all those of another.
Fork(p, q) ==
  /\ Forking
  /\ pc[p] = "user" /\ pc[q] = "user"
  /\ fds[p] # {} /\ fds[q] = {}
  /\ fds' = [fds EXCEPT ![q] = fds[p]]
  /\ UNCHANGED <<data, counters, owner, entry, pc, call, sig>>

----------------------------------------------------------------------------
(***************************************************************************)
(* popen (ip, mode): the first entry of each case, with the awake count    *)
(* already incremented.                                                    *)
(***************************************************************************)
SetEntry(p, st) == entry' = [entry EXCEPT ![file[p]] = st]

Opened(p, woken) ==
  /\ SetEntry(p, "open")
  /\ fds' = [fds EXCEPT ![p] = @ \cup {file[p]}]
  /\ Finish(p, woken)
  /\ UNCHANGED <<data, psr, psw>>

\* The awake counts once popen counted its caller, on entry only.
NewPar(p) == IF pc[p] = "start" THEN par + 1 ELSE par
NewPaw(p) == IF pc[p] = "start" THEN paw + 1 ELSE paw

popenR(p) ==
  /\ op[p] = "open" /\ pc[p] \in {"start", "again"}
  /\ Mode[file[p]] = "r"
  /\ \/ /\ \/ paw # 0 \/ psw # 0
           \/ flag[p] \in {"ndelay", "nonblock"}
           \/ pc[p] = "again" /\ pnc # 0
        /\ par' = NewPar(p) /\ UNCHANGED paw
        /\ Opened(p, pwakeR(pnc, NewPar(p), psr, psw))
     \/ /\ paw = 0 /\ psw = 0 /\ flag[p] = "block"
        /\ pc[p] = "again" => pnc = 0
        /\ psleep(p, IFWFW, NewPar(p), paw)
        /\ SetEntry(p, "opening")
        /\ UNCHANGED <<data, call, fds, sig>>

popenW(p) ==
  /\ op[p] = "open" /\ pc[p] \in {"start", "again"}
  /\ Mode[file[p]] = "w"
  /\ \/ /\ par # 0 \/ psr # 0 \/ pc[p] = "again"
        /\ paw' = NewPaw(p) /\ UNCHANGED par
        /\ Opened(p, pwakeW(pnc, NewPaw(p), psr, psw))
     \/ /\ pc[p] = "start" /\ par = 0 /\ psr = 0 /\ flag[p] = "block"
        /\ psleep(p, IFWFR, par, NewPaw(p))
        /\ SetEntry(p, "opening")
        /\ UNCHANGED <<data, call, fds, sig>>
     \/ /\ pc[p] = "start" /\ par = 0 /\ psr = 0 /\ flag[p] # "block"
        /\ Finish(p, {})                      \* ENXIO
        /\ UNCHANGED <<data, counters, entry, fds>>

popenRW(p) ==
  /\ op[p] = "open" /\ pc[p] = "start"
  /\ Mode[file[p]] = "rw"
  /\ par' = par + 1 /\ paw' = paw + 1
  /\ Opened(p, pwakeW(pnc, paw + 1, psr, psw)
                 \cup pwakeR(pnc, par + 1, psr, psw))

\* Mutant of popenIntr: the interrupted caller stays counted.
popenIntrCounted(p) ==
  /\ op[p] = "open" /\ pc[p] = "intr"
  /\ SetEntry(p, "free")
  /\ Finish(p, {})
  /\ UNCHANGED <<data, counters, fds>>

\* popen after psleep () < 0: the caller is no longer counted.
popenIntr(p) ==
  /\ op[p] = "open" /\ pc[p] = "intr"
  /\ IF Mode[file[p]] = "r" THEN par' = par - 1 /\ UNCHANGED paw
                            ELSE paw' = paw - 1 /\ UNCHANGED par
  /\ SetEntry(p, "free")
  /\ Finish(p, {})
  /\ UNCHANGED <<data, psr, psw, fds>>

(***************************************************************************)
(* pclose (ip, mode).  Both sides are woken before the counts go down; a   *)
(* negative count makes it panic, which halts the machine.                 *)
(***************************************************************************)
pclose(p) ==
  LET r == file[p] \in Readable
      w == file[p] \in Writable
      ar == IF r THEN par - 1 ELSE par
      aw == IF w THEN paw - 1 ELSE paw
      panics == (r /\ ar < 0) \/ (w /\ aw < 0)
      gone == aw = 0 /\ psw = 0 /\ ar = 0 /\ psr = 0
  IN
  /\ op[p] = "close" /\ pc[p] = "start"
  /\ par' = ar /\ paw' = aw
  /\ IF gone THEN pnc' = 0 /\ prx' = 0 /\ pwx' = 0 /\ rseq' = wseq
             ELSE UNCHANGED <<pnc, prx, pwx, rseq>>
  /\ IF panics
     THEN /\ pc' = [q \in Procs |-> "halted"]
          /\ UNCHANGED <<entry, owner, sig, call>>
     ELSE /\ SetEntry(p, "free")
          /\ Finish(p, pwakeR(pnc, par, psr, psw) \cup pwakeW(pnc, paw, psr, psw)
                       \cup (IF r /\ ar = 0 /\ psr = 0 THEN {OEV} ELSE {})
                       \cup (IF w /\ aw = 0 /\ psw = 0 THEN {IEV} ELSE {}))
  /\ UNCHANGED <<psr, psw, fds, ring, wseq>>

----------------------------------------------------------------------------
(***************************************************************************)
(* pread (ip, iop): wait for data, then copy what there is.  Bytes carry   *)
(* numbers; byte rseq is the next one a reader must get.                   *)
(***************************************************************************)
AtRead(p) == op[p] = "read" /\ pc[p] \in {"start", "again"}

preadNothing(p) ==
  /\ AtRead(p) /\ pnc = 0
  /\ \/ flag[p] = "ndelay"
     \/ paw = 0 /\ psw = 0                   \* end of file
     \/ flag[p] = "nonblock"                 \* EAGAIN
  /\ Finish(p, {})
  /\ UNCHANGED <<data, counters, entry, fds>>

preadWait(p) ==
  /\ AtRead(p) /\ pnc = 0
  /\ flag[p] = "block"
  /\ paw # 0 \/ psw # 0
  /\ psleep(p, IFWFW, par, paw)
  /\ UNCHANGED <<data, call, entry, fds, sig>>

MinOf(a, b) == IF a < b THEN a ELSE b

ReadChunk(p) == MinOf(MinOf(PIPE_MAX - prx, ioc[p]), pnc)

\* The characters that fread or fwrite moves of n; fewer set the user error.
Moved(p, n) == IF p \in MayFault THEN 0 .. n ELSE {n}

\* The offsets after m characters were read: an empty ring starts afresh.
ReadPrx(m) == IF pnc - m = 0 \/ prx + m = PIPE_MAX THEN 0 ELSE prx + m
ReadPwxKept(m) == pwx   \* mutant of ReadPwx: only i_prx is reset
ReadPwx(m) == IF pnc - m = 0 THEN 0 ELSE pwx

preadCopy(p) ==
  /\ \/ AtRead(p)
     \/ op[p] = "read" /\ pc[p] = "copy"
  /\ ioc[p] > 0 /\ pnc > 0
  /\ \E m \in Moved(p, ReadChunk(p)) :
       /\ pnc' = pnc - m
       /\ prx' = ReadPrx(m) /\ pwx' = ReadPwx(m)
       /\ rseq' = rseq + m
       /\ ioc' = [ioc EXCEPT ![p] = @ - m]
       /\ pc' = [pc EXCEPT ![p] = IF m < ReadChunk(p) THEN "fault" ELSE "copy"]
  /\ UNCHANGED <<counters, owner, entry, fds, op, file, flag, sig,
                 ring, wseq>>

preadEnd(p) ==
  /\ op[p] = "read"
  /\ \/ pc[p] = "fault"
     \/ pc[p] = "copy" /\ (ioc[p] = 0 \/ pnc = 0)
  /\ Finish(p, IF pnc < PIPE_MAX THEN pwakeR(pnc, par, psr, psw) ELSE {})
  /\ UNCHANGED <<data, counters, entry, fds>>

(***************************************************************************)
(* pwrite (ip, iop).                                                       *)
(***************************************************************************)
AtWrite(p) == op[p] = "write" /\ pc[p] \in {"start", "again"}

WriteChunk(p) == MinOf(MinOf(PIPE_MAX - pwx, ioc[p]), PIPE_MAX - pnc)

\* Mutant of MustWait: writes of more than the capacity are atomic too.
MustWaitAtomic(p) == WriteChunk(p) # ioc[p]

\* The write has to wait: the ring is full, or it would split an atomic one.
MustWait(p) ==
  WriteChunk(p) = 0 \/ (ioc[p] <= PIPE_MAX /\ WriteChunk(p) # ioc[p])

NoReadersAwake == par = 0   \* mutant of NoReaders: sleeping ones ignored
NoReaders == par = 0 /\ psr = 0
NoWriters == paw = 0 /\ psw = 0

\* All written; EPIPE with SIGPIPE, taken at once; a full pipe not waited for.
pwriteEnd(p) ==
  /\ \/ AtWrite(p) /\ \/ ioc[p] = 0
                      \/ NoReaders
                      \/ MustWait(p) /\ flag[p] # "block"
     \/ op[p] = "write" /\ pc[p] = "fault"
  /\ Finish(p, {})
  /\ UNCHANGED <<data, counters, entry, fds>>

pwriteWait(p) ==
  /\ AtWrite(p) /\ ioc[p] > 0 /\ ~NoReaders
  /\ MustWait(p) /\ flag[p] = "block"
  /\ psleep(p, IFWFR, par, paw)
  /\ UNCHANGED <<data, call, entry, fds, sig>>

pwriteCopy(p) ==
  /\ AtWrite(p) /\ ioc[p] > 0 /\ ~NoReaders
  /\ ~MustWait(p)
  /\ \E m \in Moved(p, WriteChunk(p)) :
       /\ ring' = [i \in 0 .. PIPE_MAX - 1 |->
                    IF i \in pwx .. pwx + m - 1 THEN wseq + (i - pwx)
                                                ELSE ring[i]]
       /\ wseq' = wseq + m
       /\ pwx' = IF pwx + m = PIPE_MAX THEN 0 ELSE pwx + m
       /\ pnc' = pnc + m
       /\ ioc' = [ioc EXCEPT ![p] = @ - m]
       /\ Goto(p, IF m < WriteChunk(p) THEN "fault" ELSE "again",
               IF pnc + m > 0 THEN pwakeW(pnc + m, paw, psr, psw) ELSE {})
  /\ UNCHANGED <<counters, owner, entry, fds, op, file, flag, sig,
                 prx, rseq>>

\* Mutant of rwIntr: the caller is no longer counted, as in popen.
rwIntrUncounted(p) ==
  /\ op[p] \in {"read", "write"} /\ pc[p] = "intr"
  /\ IF op[p] = "read" THEN par' = par - 1 /\ UNCHANGED paw
                       ELSE paw' = paw - 1 /\ UNCHANGED par
  /\ Finish(p, {})
  /\ UNCHANGED <<data, psr, psw, entry, fds>>

\* pread and pwrite after psleep () < 0.
rwIntr(p) ==
  /\ op[p] \in {"read", "write"} /\ pc[p] = "intr"
  /\ Finish(p, {})
  /\ UNCHANGED <<data, counters, entry, fds>>

----------------------------------------------------------------------------
(***************************************************************************)
(* upoll () of one entry, waiting for ever: ppoll () does not lock the     *)
(* inode, and pollsleep () returns after pollwake () to poll again.        *)
(***************************************************************************)
ppollIn == pnc > 0 \/ NoWriters
ppollOut == (pnc < PIPE_MAX /\ ~NoReaders) \/ NoReaders

Poll(p) ==
  /\ p \in Pollers
  /\ \/ pc[p] = "user"
        /\ \E o \in {"pollin", "pollout"}, f \in fds[p] :
          /\ f \in (IF o = "pollin" THEN Readable ELSE Writable)
          /\ IF o = "pollin" THEN ~ppollIn ELSE ~ppollOut
          /\ pc' = [pc EXCEPT ![p] = "sleep"]
          /\ op' = [op EXCEPT ![p] = o]
          /\ file' = [file EXCEPT ![p] = f]
     \/ /\ pc[p] = "woken" /\ op[p] \in {"pollin", "pollout"}
        /\ IF p \notin sig /\ (IF op[p] = "pollin" THEN ~ppollIn ELSE ~ppollOut)
           THEN /\ pc' = [pc EXCEPT ![p] = "sleep"]
                /\ UNCHANGED <<op, file>>
           ELSE /\ pc' = [pc EXCEPT ![p] = "user"]
                /\ op' = [op EXCEPT ![p] = "none"]
                /\ file' = [file EXCEPT ![p] = NoFile]
  /\ sig' = IF pc'[p] = "user" THEN sig \ {p} ELSE sig
  /\ UNCHANGED <<data, counters, flag, ioc, owner, entry, fds>>

\* A signal is sent; only a process in x_sleep is made to run by it.
Signal(p) ==
  /\ p \in MaySignal \ sig
  /\ pc[p] \notin {"user", "halted"}
  /\ sig' = sig \cup {p}
  /\ pc' = [pc EXCEPT ![p] = IF @ = "sleep" THEN "woken" ELSE @]
  /\ UNCHANGED <<data, counters, call, owner, entry, fds>>

Next ==
  \E p \in Procs :
    \/ Resume(p) \/ ILock(p)
    \/ \E f \in Files :
         \/ \E fl \in Flags :
              \/ OpenCall(p, f, fl)
              \/ \E n \in Sizes : ReadCall(p, f, fl, n) \/ WriteCall(p, f, fl, n)
         \/ CloseLast(p, f) \/ CloseShared(p, f)
    \/ \E q \in Procs : Fork(p, q)
    \/ popenR(p) \/ popenW(p) \/ popenRW(p) \/ popenIntr(p)
    \/ pclose(p)
    \/ preadNothing(p) \/ preadWait(p) \/ preadCopy(p) \/ preadEnd(p)
    \/ pwriteEnd(p) \/ pwriteWait(p) \/ pwriteCopy(p) \/ rwIntr(p)
    \/ Poll(p)
    \/ Signal(p)

Spec == Init /\ [][Next]_vars

----------------------------------------------------------------------------
\* Types of the variables; the awake counts are signed shorts.
TypeOK ==
  /\ pnc \in 0 .. PIPE_MAX /\ prx \in 0 .. PIPE_MAX - 1
  /\ pwx \in 0 .. PIPE_MAX - 1
  /\ par \in Int /\ paw \in Int /\ psr \in Nat /\ psw \in Nat
  /\ owner \in Procs \cup {NoProc}
  /\ entry \in [Files -> {"free", "opening", "open"}]
  /\ fds \in [Procs -> SUBSET Files]
  /\ pc \in [Procs -> {"user", "lock", "start", "again", "copy", "fault",
                       "intr", "sleep", "woken", "relock", "relock_intr",
                       "halted"}]
  /\ op \in [Procs -> {"none", "open", "read", "write", "close",
                       "pollin", "pollout"}]
  /\ file \in [Procs -> Files \cup {NoFile}]
  /\ flag \in [Procs -> {"block", "ndelay", "nonblock"}]
  /\ ioc \in [Procs -> Nat]
  /\ sig \in SUBSET Procs
  /\ ring \in [0 .. PIPE_MAX - 1 -> Nat]
  /\ wseq \in Nat /\ rseq \in Nat

InUse(S) == {f \in S : entry[f] # "free"}
Asleep(who) == {p \in Procs : pc[p] \in {"sleep", "woken"} /\ Chan(p) = who}

(***************************************************************************)
(* The counters of the inode agree with the entries and the processes: a   *)
(* sleeper is counted once, and awake plus sleeping readers are the        *)
(* entries open (or being opened) for reading, however entries are shared  *)
(* and opens interrupted.                                                  *)
(***************************************************************************)
CountersExact ==
  /\ par + psr = Cardinality(InUse(Readable))
  /\ paw + psw = Cardinality(InUse(Writable))
  /\ psr = Cardinality(Asleep(IFWFW))
  /\ psw = Cardinality(Asleep(IFWFR))

(***************************************************************************)
(* The tests "! i_par && ! i_psr" and "! i_paw && ! i_psw", on which EPIPE,*)
(* end of file and POLLHUP rest, are true exactly when no entry is in use  *)
(* for reading or for writing, although an awake count may be negative.    *)
(***************************************************************************)
TestsExact ==
  /\ NoReaders <=> InUse(Readable) = {}
  /\ NoWriters <=> InUse(Writable) = {}

(***************************************************************************)
(* The ring holds the bytes rseq .. wseq - 1 in order between the offsets  *)
(* that pread and pwrite maintain: nothing is lost, repeated or reordered  *)
(* across wrap-around, partial copies and the reset of an empty ring.      *)
(***************************************************************************)
Slot(i) == IF prx + i < PIPE_MAX THEN prx + i ELSE prx + i - PIPE_MAX

RingFIFO ==
  /\ wseq = rseq + pnc
  /\ pnc > 0 => pwx = Slot(pnc)
  /\ \A i \in 0 .. pnc - 1 : ring[Slot(i)] = rseq + i

(***************************************************************************)
(* The pipe implements a Channel: every byte comes out once and in order,  *)
(* none is accepted that nobody could read, and bytes are dropped exactly  *)
(* when pclose leaves no entry in use, although pclose goes by its four    *)
(* counters, of which a shared entry makes some negative.                  *)
(***************************************************************************)
EntriesIn(st) == {f \in Files : entry[f] = st}
Unread == [i \in 1 .. pnc |-> ring[Slot(i - 1)]]

Ch == INSTANCE Channel WITH
  Ends <- Files, ReadEnds <- Readable, Capacity <- PIPE_MAX,
  opening <- EntriesIn("opening"), open <- EntriesIn("open"),
  queue <- Unread, sent <- wseq

ImplementsChannel == Ch!ChSpec

(***************************************************************************)
(* No wakeup is lost: when nobody is inside the pipe, a process asleep in  *)
(* psleep still has the reason it went to sleep for.  A writer waits for a *)
(* read: it stays asleep when another writer's bytes wrap the offset round *)
(* so that its own would fit, since pwrite wakes readers only.             *)
(***************************************************************************)
Blocked(p) ==
  CASE op[p] = "read"  -> pnc = 0 /\ ~NoWriters
    [] op[p] = "write" -> ~NoReaders /\ pnc > 0
    [] op[p] = "open" /\ Mode[file[p]] = "r" -> NoWriters
    [] op[p] = "open" /\ Mode[file[p]] = "w" -> InUse(Readable) = {}
    [] op[p] = "pollin" -> ~ppollIn
    [] op[p] = "pollout" -> ~ppollOut

NoLostWakeup ==
  owner = NoProc => \A p \in Procs : pc[p] = "sleep" => Blocked(p)

(***************************************************************************)
(* Readers and writers never wait for each other: nobody sleeps in pwrite  *)
(* on an empty pipe, which no reader could ever drain to let it go on.     *)
(***************************************************************************)
NoReaderWriterDeadlock ==
  owner = NoProc =>
    \A p \in Procs : pc[p] = "sleep" /\ op[p] = "write" => pnc > 0

\* pclose never finds its counters out of step with the opens.
NoPanic == \A p \in Procs : pc[p] # "halted"
====
