---- MODULE PipeProofs ----
(***************************************************************************)
(* Proofs about pipes and FIFOs, for any number of processes and entries,  *)
(* any capacity and sizes, and any faults, signals and forks.              *)
(*                                                                         *)
(* The ring delivers every byte once and in order.  The counters of the    *)
(* inode, i_par, i_paw, i_psr and i_psw, are exact until pclose panics,    *)
(* and it never does on a pipe, nor on a FIFO whose entries are not        *)
(* shared.  A pipe implements a Channel.  At the end: who sleeps.          *)
(***************************************************************************)
EXTENDS Pipe, FiniteSetTheorems, TLAPS, Sequences

----------------------------------------------------------------------------
(* The ring. *)
RingTypes ==
  /\ pnc \in 0 .. PIPE_MAX /\ prx \in 0 .. PIPE_MAX - 1
  /\ pwx \in 0 .. PIPE_MAX - 1
  /\ wseq \in Nat /\ rseq \in Nat
  /\ ring \in [0 .. PIPE_MAX - 1 -> Nat]
  /\ ioc \in [Procs -> Nat]

\* An empty ring has been reset, so that both offsets agree.
EmptyReset == pnc = 0 => prx = 0 /\ pwx = 0

RingInv == RingTypes /\ EmptyReset /\ RingFIFO

LEMMA RingInit == Init => RingInv
BY PipeAssumption
   DEF Init, pclear, Created, RingInv, RingTypes, EmptyReset, RingFIFO, Slot

\* Taking m characters from the front.
LEMMA RingRead ==
  ASSUME RingInv, NEW p \in Procs, preadCopy(p)
  PROVE  RingInv'
<1> USE PipeAssumption DEF RingInv, RingTypes
<1>1. PICK m \in Moved(p, ReadChunk(p)) :
        /\ pnc' = pnc - m
        /\ prx' = ReadPrx(m) /\ pwx' = ReadPwx(m)
        /\ rseq' = rseq + m
        /\ ioc' = [ioc EXCEPT ![p] = @ - m]
        /\ ring' = ring /\ wseq' = wseq
  BY DEF preadCopy
<1>2. m \in Nat /\ m <= PIPE_MAX - prx /\ m <= ioc[p] /\ m <= pnc
  BY <1>1 DEF Moved, ReadChunk, MinOf
<1>3. RingTypes'
  BY <1>1, <1>2 DEF ReadPrx, ReadPwx
<1>4. EmptyReset'
  BY <1>1, <1>2 DEF ReadPrx, ReadPwx, EmptyReset
<1>5. RingFIFO'
  <2>1. CASE m = pnc
    BY <1>1, <1>2, <2>1 DEF RingFIFO
  <2>2. CASE m < pnc
    <3>1. pnc' = pnc - m /\ pnc' > 0 /\ pwx' = pwx /\ prx' \in 0 .. PIPE_MAX - 1
          /\ prx' = IF prx + m = PIPE_MAX THEN 0 ELSE prx + m
      BY <1>1, <1>2, <2>2 DEF ReadPrx, ReadPwx
    <3>2. \A i \in 0 .. pnc - m : Slot(i)' = Slot(i + m)
      BY <1>2, <2>2, <3>1 DEF Slot
    <3>3. pwx' = Slot(pnc)'
      BY <1>2, <2>2, <3>1 DEF RingFIFO, Slot
    <3>4. wseq' = rseq' + pnc'
      BY <1>1, <1>2, <3>1 DEF RingFIFO
    <3>5. ASSUME NEW i \in 0 .. pnc' - 1 PROVE ring'[Slot(i)'] = rseq' + i
      <4>1. i + m \in 0 .. pnc - 1 /\ Slot(i)' = Slot(i + m)
        BY <1>2, <2>2, <3>1, <3>2
      <4>2. ring[Slot(i + m)] = rseq + (i + m)
        BY <4>1 DEF RingFIFO
      <4> QED BY <1>1, <1>2, <4>1, <4>2
    <3>6. (\A i \in 0 .. pnc - 1 : ring[Slot(i)] = rseq + i)'
      BY <3>5
    <3> QED BY <3>3, <3>4, <3>6 DEF RingFIFO
  <2> QED BY <1>2, <2>1, <2>2
<1> QED BY <1>3, <1>4, <1>5

\* Adding m characters at the end, without wrapping round.
LEMMA RingWrite ==
  ASSUME RingInv, NEW p \in Procs, pwriteCopy(p)
  PROVE  RingInv'
<1> USE PipeAssumption DEF RingInv, RingTypes
<1>1. PICK m \in Moved(p, WriteChunk(p)) :
        /\ ring' = [i \in 0 .. PIPE_MAX - 1 |->
                     IF i \in pwx .. pwx + m - 1 THEN wseq + (i - pwx) ELSE ring[i]]
        /\ wseq' = wseq + m
        /\ pwx' = IF pwx + m = PIPE_MAX THEN 0 ELSE pwx + m
        /\ pnc' = pnc + m
        /\ ioc' = [ioc EXCEPT ![p] = @ - m]
        /\ prx' = prx /\ rseq' = rseq
  BY DEF pwriteCopy
<1>2. m \in Nat /\ m <= PIPE_MAX - pwx /\ m <= ioc[p] /\ m <= PIPE_MAX - pnc
  BY <1>1 DEF Moved, WriteChunk, MinOf
<1>3. RingTypes'
  BY <1>1, <1>2
<1>4. EmptyReset'
  BY <1>1, <1>2 DEF EmptyReset
<1>5. RingFIFO'
  <2>1. pwx = Slot(pnc) /\ wseq = rseq + pnc
    BY DEF RingFIFO, EmptyReset, Slot
  <2>2. \A i : Slot(i)' = Slot(i)
    BY <1>1 DEF Slot
  <2>3. \A i \in 0 .. m - 1 : Slot(pnc + i) = pwx + i
    BY <1>2, <2>1 DEF Slot
  <2>4. ASSUME NEW i \in 0 .. pnc + m - 1 PROVE ring'[Slot(i)] = rseq + i
    <3>1. CASE i < pnc
      <4>1. Slot(i) \in 0 .. PIPE_MAX - 1 /\ Slot(i) \notin pwx .. pwx + m - 1
        BY <1>2, <2>1, <3>1 DEF Slot
      <4>2. ring[Slot(i)] = rseq + i
        BY <3>1 DEF RingFIFO
      <4> QED BY <1>1, <4>1, <4>2
    <3>2. CASE i >= pnc
      <4>1. PICK j \in 0 .. m - 1 : i = pnc + j
        BY <1>2, <3>2
      <4>2. Slot(i) = pwx + j /\ Slot(i) \in 0 .. PIPE_MAX - 1
        BY <1>2, <2>3, <4>1
      <4>3. Slot(i) \in pwx .. pwx + m - 1
        BY <1>2, <4>2
      <4> QED BY <1>1, <1>2, <2>1, <4>1, <4>2, <4>3
    <3> QED BY <1>2, <3>1, <3>2
  <2>5. (\A i \in 0 .. pnc - 1 : ring[Slot(i)] = rseq + i)'
    <3>1. ASSUME NEW i \in 0 .. pnc' - 1 PROVE ring'[Slot(i)'] = rseq' + i
      <4>1. i \in 0 .. pnc + m - 1
        <5>1. pnc' = pnc + m
          BY <1>1
        <5> QED BY <1>2, <5>1
      <4>2. Slot(i)' = Slot(i) /\ rseq' = rseq
        BY <1>1, <2>2
      <4> QED BY <2>4, <4>1, <4>2
    <3> QED BY <3>1
  <2>6. (pnc > 0 => pwx = Slot(pnc))'
    BY <1>1, <1>2, <2>1 DEF Slot
  <2>7. wseq' = rseq' + pnc'
    BY <1>1, <1>2, <2>1
  <2> QED BY <2>5, <2>6, <2>7 DEF RingFIFO
<1> QED BY <1>3, <1>4, <1>5

\* Every step keeps the ring.
LEMMA RingNext == RingInv /\ [Next]_vars => RingInv'
<1> SUFFICES ASSUME RingInv, [Next]_vars PROVE RingInv'
  OBVIOUS
<1> USE PipeAssumption
<1>1. ASSUME UNCHANGED data, ioc' \in [Procs -> Nat] PROVE RingInv'
  BY <1>1 DEF RingInv, RingTypes, EmptyReset, RingFIFO, Slot, data
<1>2. ASSUME NEW p \in Procs, NEW woken, Finish(p, woken), UNCHANGED data
      PROVE  RingInv'
  BY <1>1, <1>2 DEF Finish, RingInv, RingTypes
<1>3. ASSUME UNCHANGED data, UNCHANGED ioc PROVE RingInv'
  BY <1>1, <1>3 DEF RingInv, RingTypes
<1>4. ASSUME NEW p \in Procs, NEW o, NEW f, NEW fl, NEW n \in Nat, Begin(p, o, f, fl, n)
      PROVE  RingInv'
  BY <1>1, <1>4 DEF Begin, RingInv, RingTypes
<1>5. ASSUME NEW p \in Procs, Resume(p) \/ ILock(p) \/ Poll(p) \/ Signal(p)
      PROVE  RingInv'
  BY <1>3, <1>5 DEF Resume, ILock, Poll, Signal, call
<1>6. ASSUME NEW p \in Procs, NEW f \in Files, NEW fl \in Flags, NEW n \in Sizes,
             OpenCall(p, f, fl) \/ ReadCall(p, f, fl, n) \/ WriteCall(p, f, fl, n)
      PROVE  RingInv'
  BY <1>4, <1>6 DEF OpenCall, ReadCall, WriteCall
<1>16. ASSUME NEW p \in Procs, NEW f \in Files, NEW fl \in Flags, OpenCall(p, f, fl)
      PROVE  RingInv'
  BY <1>4, <1>16 DEF OpenCall
<1>7. ASSUME NEW p \in Procs, NEW f \in Files, CloseLast(p, f) \/ CloseShared(p, f)
      PROVE  RingInv'
  BY <1>3, <1>4, <1>7 DEF CloseLast, CloseShared, call
<1>8. ASSUME NEW p \in Procs, NEW q \in Procs, Fork(p, q) PROVE RingInv'
  BY <1>3, <1>8 DEF Fork, call
<1>9. ASSUME NEW p \in Procs, popenR(p) \/ popenW(p) \/ popenRW(p) \/ popenIntr(p)
      PROVE  RingInv'
  <2>1. UNCHANGED data /\ (UNCHANGED ioc \/ \E woken : Finish(p, woken))
    BY <1>9 DEF popenR, popenW, popenRW, popenIntr, Opened, call
  <2> QED BY <1>2, <1>3, <2>1
<1>10. ASSUME NEW p \in Procs, pclose(p) PROVE RingInv'
  <2>1. ioc' \in [Procs -> Nat]
    BY <1>10 DEF pclose, Finish, call, RingInv, RingTypes
  <2>2. CASE UNCHANGED data
    BY <1>1, <2>1, <2>2
  <2>3. CASE pnc' = 0 /\ prx' = 0 /\ pwx' = 0 /\ rseq' = wseq /\ UNCHANGED <<ring, wseq>>
    BY <2>1, <2>3 DEF RingInv, RingTypes, EmptyReset, RingFIFO
  <2> QED BY <1>10, <2>2, <2>3 DEF pclose, data
<1>11. ASSUME NEW p \in Procs,
              preadNothing(p) \/ preadWait(p) \/ preadEnd(p) \/ pwriteEnd(p)
                \/ pwriteWait(p) \/ rwIntr(p)
       PROVE  RingInv'
  <2>1. UNCHANGED data /\ (UNCHANGED ioc \/ \E woken : Finish(p, woken))
    BY <1>11 DEF preadNothing, preadWait, preadEnd, pwriteEnd, pwriteWait, rwIntr, call
  <2> QED BY <1>2, <1>3, <2>1
<1>12. CASE UNCHANGED vars
  BY <1>3, <1>12 DEF vars, data
<1> QED
  BY <1>5, <1>6, <1>16, <1>7, <1>8, <1>9, <1>10, <1>11, <1>12, RingRead, RingWrite DEF Next

(***************************************************************************)
(* A pipe delivers every byte exactly once and in the order written, across*)
(* wrap-around, partial copies, faults, resets and any interleaving.       *)
(***************************************************************************)
THEOREM PipeFIFO == Spec => []RingFIFO
<1>1. RingInv => RingFIFO
  BY DEF RingInv
<1> QED BY <1>1, RingInit, RingNext, PTL DEF Spec

----------------------------------------------------------------------------
(* The counters. *)
LiveTypes ==
  /\ par \in Int /\ paw \in Int /\ psr \in Int /\ psw \in Int
  /\ entry \in [Files -> {"free", "opening", "open"}]
  /\ fds \in [Procs -> SUBSET Files]
  /\ pc \in [Procs -> {"user", "lock", "start", "again", "copy", "fault",
                       "intr", "sleep", "woken", "relock", "relock_intr"}]
  /\ op \in [Procs -> {"none", "open", "read", "write", "close",
                       "pollin", "pollout"}]
  /\ file \in [Procs -> Files \cup {NoFile}]

\* Where each call can be, and the entry it works on.
CallFits ==
  \A p \in Procs :
    /\ pc[p] = "user" <=> op[p] = "none"
    /\ op[p] # "none" <=> file[p] \in Files
    /\ op[p] \in {"pollin", "pollout"} => pc[p] \in {"sleep", "woken"}
    /\ op[p] = "close" => pc[p] \in {"lock", "start"}
    /\ op[p] = "open" => pc[p] \notin {"copy", "fault"}
    /\ op[p] = "open" /\ pc[p] \notin {"lock", "start"} => Mode[file[p]] # "rw"

\* An entry that is being opened or closed belongs to that call alone.
Opening ==
  \A p \in Procs : op[p] = "open" =>
    /\ entry[file[p]] = IF pc[p] \in {"lock", "start"} THEN "free" ELSE "opening"
    /\ \A q \in Procs \ {p} : file[q] # file[p]

Closing ==
  \A p \in Procs : op[p] = "close" =>
    /\ entry[file[p]] = "open"
    /\ \A q \in Procs : file[p] \notin fds[q] /\ (q # p => file[q] # file[p])

\* Descriptors refer to open entries; reads and writes are on descriptors.
Using ==
  \A p \in Procs :
    /\ op[p] \in {"read", "write", "pollin", "pollout"} => file[p] \in fds[p]
    /\ op[p] = "read" => file[p] \in Readable
    /\ op[p] = "write" => file[p] \in Writable
    /\ \A f \in fds[p] : entry[f] = "open"

UseInv == LiveTypes /\ CallFits /\ Opening /\ Closing /\ Using

Halted == Procs # {} /\ \A p \in Procs : pc[p] = "halted"

\* pclose finds a count that goes below zero.
Panics(p) ==
  /\ op[p] = "close" /\ pc[p] = "start"
  /\ \/ file[p] \in Readable /\ par - 1 < 0
     \/ file[p] \in Writable /\ paw - 1 < 0

\* Every step keeps the uses of the entries, unless pclose panics.
LEMMA UseNext ==
  UseInv /\ [Next]_vars => UseInv' \/ (Halted' /\ \E p \in Procs : Panics(p))
<1> SUFFICES ASSUME UseInv, [Next]_vars
             PROVE  UseInv' \/ (Halted' /\ \E p \in Procs : Panics(p))
  OBVIOUS
<1> USE PipeAssumption
    DEF UseInv, LiveTypes, CallFits, Opening, Closing, Using, Readable, Writable,
        Chan, IFWFR, IFWFW, IEV, OEV, data, counters, call, Goto, Finish, psleep
<1>1. ASSUME NEW p \in Procs, Resume(p) \/ ILock(p) PROVE UseInv'
  BY <1>1 DEF Resume, ILock
<1>2. ASSUME NEW p \in Procs, NEW f \in Files, NEW fl \in Flags, OpenCall(p, f, fl)
      PROVE  UseInv'
  BY <1>2 DEF OpenCall, Begin
<1>3. ASSUME NEW p \in Procs, NEW f \in Files, NEW fl \in Flags, NEW n \in Sizes,
             ReadCall(p, f, fl, n)
      PROVE  UseInv'
  BY <1>3 DEF ReadCall, Begin
<1>4. ASSUME NEW p \in Procs, NEW f \in Files, NEW fl \in Flags, NEW n \in Sizes,
             WriteCall(p, f, fl, n)
      PROVE  UseInv'
  BY <1>4 DEF WriteCall, Begin
<1>5. ASSUME NEW p \in Procs, NEW f \in Files, CloseLast(p, f) PROVE UseInv'
  BY <1>5 DEF CloseLast, Begin
<1>6. ASSUME NEW p \in Procs, NEW f \in Files, CloseShared(p, f) PROVE UseInv'
  BY <1>6 DEF CloseShared
<1>7. ASSUME NEW p \in Procs, NEW q \in Procs, Fork(p, q) PROVE UseInv'
  BY <1>7 DEF Fork
<1>8. ASSUME NEW p \in Procs, popenR(p) PROVE UseInv'
  <2>1. CASE /\ Opened(p, pwakeR(pnc, NewPar(p), psr, psw))
             /\ par' = NewPar(p) /\ UNCHANGED paw
    BY <1>8, <2>1 DEF popenR, Opened, SetEntry, NewPar
  <2>2. CASE psleep(p, IFWFW, NewPar(p), paw) /\ SetEntry(p, "opening")
             /\ UNCHANGED <<data, call, fds, sig>>
    BY <1>8, <2>2 DEF popenR, SetEntry, NewPar
  <2> QED BY <1>8, <2>1, <2>2 DEF popenR
<1>9. ASSUME NEW p \in Procs, popenW(p) PROVE UseInv'
  BY <1>9 DEF popenW, Opened, SetEntry, NewPar, NewPaw
<1>10. ASSUME NEW p \in Procs, popenRW(p) PROVE UseInv'
  BY <1>10 DEF popenRW, Opened, SetEntry
<1>11. ASSUME NEW p \in Procs, popenIntr(p) PROVE UseInv'
  BY <1>11 DEF popenIntr, SetEntry
<1>12. ASSUME NEW p \in Procs, pclose(p)
       PROVE  UseInv' \/ (Halted' /\ Panics(p))
  BY <1>12 DEF pclose, SetEntry, Halted, Panics
<1>13. ASSUME NEW p \in Procs, preadNothing(p) \/ preadEnd(p) \/ pwriteEnd(p) \/ rwIntr(p)
       PROVE  UseInv'
  BY <1>13 DEF preadNothing, preadEnd, pwriteEnd, rwIntr, AtRead, AtWrite
<1>14. ASSUME NEW p \in Procs, preadWait(p) \/ pwriteWait(p) PROVE UseInv'
  BY <1>14 DEF preadWait, pwriteWait, AtRead, AtWrite
<1>15. ASSUME NEW p \in Procs, preadCopy(p) \/ pwriteCopy(p) PROVE UseInv'
  BY <1>15 DEF preadCopy, pwriteCopy, AtRead, AtWrite
<1>16. ASSUME NEW p \in Procs, Poll(p) PROVE UseInv'
  BY <1>16 DEF Poll
<1>17. ASSUME NEW p \in Procs, Signal(p) PROVE UseInv'
  BY <1>17 DEF Signal
<1>18. CASE UNCHANGED vars
  BY <1>18 DEF vars
<1> QED
  BY <1>1, <1>2, <1>3, <1>4, <1>5, <1>6, <1>7, <1>8, <1>9, <1>10, <1>11, <1>12, <1>13,
     <1>14, <1>15, <1>16, <1>17, <1>18 DEF Next

----
\* How the number of entries of S in use changes when f goes to st.
Change(S, f, st) ==
  IF f \notin S THEN 0
  ELSE (IF st = "free" THEN 0 ELSE 1) - (IF entry[f] = "free" THEN 0 ELSE 1)

LEMMA CountUse ==
  ASSUME NEW S, S \subseteq Files, NEW f \in Files,
         entry \in [Files -> {"free", "opening", "open"}],
         NEW st \in {"free", "opening", "open"},
         entry' = [entry EXCEPT ![f] = st]
  PROVE  /\ Cardinality(InUse(S)) \in Nat
         /\ Cardinality(InUse(S)') = Cardinality(InUse(S)) + Change(S, f, st)
<1>1. IsFiniteSet(InUse(S)) /\ Cardinality(InUse(S)) \in Nat
  BY PipeAssumption, FS_Subset, FS_CardinalityType DEF InUse
<1>2. CASE f \in S /\ st # "free"
  <2>1. InUse(S)' = InUse(S) \cup {f} /\ (f \in InUse(S) <=> entry[f] # "free")
    BY <1>2 DEF InUse
  <2> QED BY <1>1, <1>2, <2>1, FS_AddElement DEF Change
<1>3. CASE f \in S /\ st = "free"
  <2>1. InUse(S)' = InUse(S) \ {f} /\ (f \in InUse(S) <=> entry[f] # "free")
    BY <1>3 DEF InUse
  <2>2. Cardinality(InUse(S)') = IF entry[f] = "free" THEN Cardinality(InUse(S))
                                 ELSE Cardinality(InUse(S)) - 1
    BY <1>1, <2>1, FS_RemoveElement
  <2>3. CASE entry[f] = "free"
    BY <1>1, <1>3, <2>2, <2>3 DEF Change
  <2>4. CASE entry[f] # "free"
    <3>1. Change(S, f, st) = 0 - 1
      BY <1>3, <2>4 DEF Change
    <3> QED BY <1>1, <2>2, <2>4, <3>1
  <2> QED BY <2>3, <2>4
<1>4. CASE f \notin S
  <2>1. InUse(S)' = InUse(S)
    BY <1>4 DEF InUse
  <2> QED BY <1>1, <1>4, <2>1 DEF Change
<1> QED BY <1>1, <1>2, <1>3, <1>4

\* A process that starts or ends a sleep.
LEMMA CountSleeper ==
  ASSUME NEW A, A \subseteq Procs, NEW p
  PROVE  /\ Cardinality(A) \in Nat
         /\ p \notin A => Cardinality(A \cup {p}) = Cardinality(A) + 1
         /\ p \in A => Cardinality(A \ {p}) = Cardinality(A) - 1
BY PipeAssumption, FS_Subset, FS_CardinalityType, FS_AddElement, FS_RemoveElement


\* No process starts or ends a sleep that the counters count.
SameSleepers == /\ Asleep(IFWFW)' = Asleep(IFWFW)
                /\ Asleep(IFWFR)' = Asleep(IFWFR)

ExactInv == UseInv /\ CountersExact

\* What the counters say of the entries, and of the sleepers.
EntriesCounted == /\ par + psr = Cardinality(InUse(Readable))
                  /\ paw + psw = Cardinality(InUse(Writable))

SleepersCounted == /\ psr = Cardinality(Asleep(IFWFW))
                   /\ psw = Cardinality(Asleep(IFWFR))

\* Every step keeps the counters exact, unless pclose panics.
LEMMA ExactNext == ExactInv /\ [Next]_vars => CountersExact' \/ Halted'
<1> SUFFICES ASSUME ExactInv, [Next]_vars
             PROVE  (EntriesCounted' /\ SleepersCounted') \/ Halted'
  BY DEF CountersExact, EntriesCounted, SleepersCounted
<1> USE PipeAssumption
<1>0. /\ UseInv /\ LiveTypes /\ CallFits /\ Opening /\ Closing /\ Using
      /\ EntriesCounted /\ SleepersCounted
  BY DEF ExactInv, UseInv, CountersExact, EntriesCounted, SleepersCounted
<1>1. /\ Readable \subseteq Files /\ Writable \subseteq Files
      /\ \A who : Asleep(who) \subseteq Procs
      /\ par \in Int /\ paw \in Int /\ psr \in Int /\ psw \in Int
      /\ entry \in [Files -> {"free", "opening", "open"}]
  BY <1>0 DEF Readable, Writable, Asleep, LiveTypes
<1>2. ASSUME entry' = entry, par' + psr' = par + psr, paw' + psw' = paw + psw
      PROVE  EntriesCounted'
  BY <1>0, <1>2 DEF EntriesCounted, InUse
<1>3. ASSUME NEW f \in Files, NEW st \in {"free", "opening", "open"},
             entry' = [entry EXCEPT ![f] = st],
             par' + psr' = par + psr + Change(Readable, f, st),
             paw' + psw' = paw + psw + Change(Writable, f, st)
      PROVE  EntriesCounted'
  BY <1>0, <1>1, <1>3, CountUse DEF EntriesCounted
<1>4. ASSUME UNCHANGED <<psr, psw>>, SameSleepers PROVE SleepersCounted'
  BY <1>0, <1>4 DEF SleepersCounted, SameSleepers
\* A process goes to sleep in psleep, or finds a signal there.
<1>5. ASSUME NEW p \in Procs, NEW who \in {IFWFW, IFWFR}, NEW ar \in Int, NEW aw \in Int,
             psleep(p, who, ar, aw), Chan(p) = who, pc[p] \notin {"sleep", "woken"},
             op' = op, file' = file
      PROVE  /\ SleepersCounted'
             /\ par' + psr' = ar + psr /\ paw' + psw' = aw + psw
  <2>1. CASE p \in sig
    <3>1. /\ UNCHANGED <<psr, psw>> /\ par' = ar /\ paw' = aw
          /\ pc' = [pc EXCEPT ![p] = "relock_intr"]
      BY <1>5, <2>1 DEF psleep
    <3>2. SameSleepers
      BY <1>0, <1>5, <3>1 DEF LiveTypes, SameSleepers, Asleep, Chan
    <3> QED BY <1>4, <3>1, <3>2
  <2>2. CASE p \notin sig
    <3>1. /\ pc' = [pc EXCEPT ![p] = "sleep"]
          /\ who = IFWFW => /\ par' = ar - 1 /\ psr' = psr + 1
                            /\ paw' = aw /\ psw' = psw
          /\ who = IFWFR => /\ paw' = aw - 1 /\ psw' = psw + 1
                            /\ par' = ar /\ psr' = psr
      BY <1>5, <2>2 DEF psleep, IFWFW, IFWFR
    <3>2. \A other : Asleep(other)' = IF other = who THEN Asleep(other) \cup {p}
                                      ELSE Asleep(other)
      BY <1>0, <1>5, <3>1 DEF LiveTypes, Asleep, Chan
    <3>3. p \notin Asleep(who)
      BY <1>5 DEF Asleep
    <3>4. CASE who = IFWFW
      <4>1. Asleep(IFWFW)' = Asleep(IFWFW) \cup {p} /\ Asleep(IFWFR)' = Asleep(IFWFR)
        BY <3>2, <3>4 DEF IFWFW, IFWFR
      <4>2. Cardinality(Asleep(IFWFW) \cup {p}) = Cardinality(Asleep(IFWFW)) + 1
        BY <1>1, <3>3, <3>4, CountSleeper
      <4> QED BY <1>0, <1>1, <3>1, <3>4, <4>1, <4>2 DEF SleepersCounted
    <3>5. CASE who = IFWFR
      <4>1. Asleep(IFWFR)' = Asleep(IFWFR) \cup {p} /\ Asleep(IFWFW)' = Asleep(IFWFW)
        BY <3>2, <3>5 DEF IFWFW, IFWFR
      <4>2. Cardinality(Asleep(IFWFR) \cup {p}) = Cardinality(Asleep(IFWFR)) + 1
        BY <1>1, <3>3, <3>5, CountSleeper
      <4> QED BY <1>0, <1>1, <3>1, <3>5, <4>1, <4>2 DEF SleepersCounted
    <3> QED BY <1>5, <3>4, <3>5
  <2> QED BY <2>1, <2>2
\* A call that neither sleeps nor wakes moves no sleeper.
<1>6. ASSUME NEW p \in Procs, pc[p] \notin {"sleep", "woken"}, NEW woken, Finish(p, woken)
      PROVE  SameSleepers
  BY <1>0, <1>6 DEF Finish, Goto, LiveTypes, SameSleepers, Asleep, Chan
<1>7. ASSUME NEW p \in Procs, NEW o, NEW f, NEW fl, NEW n, Begin(p, o, f, fl, n)
      PROVE  SameSleepers
  BY <1>0, <1>7 DEF Begin, LiveTypes, SameSleepers, Asleep, Chan
<1>8. ASSUME NEW p \in Procs, Resume(p) PROVE EntriesCounted' /\ SleepersCounted'
  <2>1. /\ pc[p] = "woken" /\ entry' = entry /\ op' = op /\ file' = file
        /\ Chan(p) \in {IFWFR, IFWFW}
        /\ Chan(p) = IFWFW => par' = par + 1 /\ psr' = psr - 1 /\ UNCHANGED <<paw, psw>>
        /\ Chan(p) = IFWFR => paw' = paw + 1 /\ psw' = psw - 1 /\ UNCHANGED <<par, psr>>
        /\ \A q \in Procs \ {p} : pc'[q] = pc[q]
        /\ pc'[p] \notin {"sleep", "woken"}
    BY <1>0, <1>8 DEF Resume, call, LiveTypes, IFWFW, IFWFR
  <2>2. EntriesCounted'
    BY <1>1, <1>2, <2>1
  <2>3. /\ p \in Asleep(Chan(p))
        /\ \A who : Asleep(who)' = IF who = Chan(p) THEN Asleep(who) \ {p} ELSE Asleep(who)
    BY <1>0, <2>1 DEF LiveTypes, Asleep, Chan
  <2>4. CASE Chan(p) = IFWFW
    <3>1. Asleep(IFWFW)' = Asleep(IFWFW) \ {p} /\ Asleep(IFWFR)' = Asleep(IFWFR)
      BY <2>3, <2>4 DEF IFWFW, IFWFR
    <3>2. Cardinality(Asleep(IFWFW) \ {p}) = Cardinality(Asleep(IFWFW)) - 1
      BY <1>1, <2>3, <2>4, CountSleeper
    <3> QED BY <1>0, <1>1, <2>1, <2>2, <2>4, <3>1, <3>2 DEF SleepersCounted
  <2>5. CASE Chan(p) = IFWFR
    <3>1. Asleep(IFWFR)' = Asleep(IFWFR) \ {p} /\ Asleep(IFWFW)' = Asleep(IFWFW)
      BY <2>3, <2>5 DEF IFWFW, IFWFR
    <3>2. Cardinality(Asleep(IFWFR) \ {p}) = Cardinality(Asleep(IFWFR)) - 1
      BY <1>1, <2>3, <2>5, CountSleeper
    <3> QED BY <1>0, <1>1, <2>1, <2>2, <2>5, <3>1, <3>2 DEF SleepersCounted
  <2> QED BY <2>1, <2>4, <2>5
\* Steps that leave the counters alone.
<1>9. ASSUME UNCHANGED <<counters, entry>>, SameSleepers
      PROVE  EntriesCounted' /\ SleepersCounted'
  BY <1>1, <1>2, <1>4, <1>9 DEF counters
<1>10. ASSUME NEW p \in Procs, ILock(p) \/ preadCopy(p) \/ pwriteCopy(p) \/ Poll(p)
                                 \/ Signal(p)
       PROVE  EntriesCounted' /\ SleepersCounted'
  <2>1. UNCHANGED <<counters, entry>>
    BY <1>10 DEF ILock, preadCopy, pwriteCopy, Poll, Signal
  <2>2. SameSleepers
    <3> USE <1>0 DEF LiveTypes, CallFits, SameSleepers, Asleep, Chan, IFWFW, IFWFR, IEV, OEV
    <3>1. CASE ILock(p)
      BY <3>1 DEF ILock, call
    <3>2. CASE preadCopy(p)
      BY <3>2 DEF preadCopy, AtRead
    <3>3. CASE pwriteCopy(p)
      BY <3>3 DEF pwriteCopy, AtWrite, Goto
    <3>4. CASE Poll(p)
      BY <3>4 DEF Poll
    <3>5. CASE Signal(p)
      BY <3>5 DEF Signal, call
    <3> QED BY <1>10, <3>1, <3>2, <3>3, <3>4, <3>5
  <2> QED BY <1>9, <2>1, <2>2
<1>11. ASSUME NEW p \in Procs,
              preadNothing(p) \/ preadEnd(p) \/ pwriteEnd(p) \/ rwIntr(p)
       PROVE  EntriesCounted' /\ SleepersCounted'
  <2>1. UNCHANGED <<counters, entry>> /\ pc[p] \notin {"sleep", "woken"}
        /\ \E woken : Finish(p, woken)
    BY <1>11 DEF preadNothing, preadEnd, pwriteEnd, rwIntr, AtRead, AtWrite
  <2> QED BY <1>6, <1>9, <2>1
<1>12. ASSUME NEW p \in Procs, NEW f \in Files,
              \/ \E fl \in Flags :
                   \/ OpenCall(p, f, fl)
                   \/ \E n \in Sizes : ReadCall(p, f, fl, n) \/ WriteCall(p, f, fl, n)
              \/ CloseLast(p, f)
       PROVE  EntriesCounted' /\ SleepersCounted'
  <2>1. \E o, fl, n : Begin(p, o, f, fl, n)
    BY <1>12 DEF OpenCall, ReadCall, WriteCall, CloseLast
  <2>2. UNCHANGED <<counters, entry>>
    BY <2>1 DEF Begin
  <2> QED BY <1>7, <1>9, <2>1, <2>2
<1>13. ASSUME NEW p \in Procs, NEW f, NEW q,
              CloseShared(p, f) \/ Fork(p, q)
       PROVE  EntriesCounted' /\ SleepersCounted'
  <2>1. UNCHANGED <<counters, entry, pc, call>>
    BY <1>13 DEF CloseShared, Fork
  <2>2. SameSleepers
    BY <2>1 DEF SameSleepers, Asleep, Chan, call
  <2> QED BY <1>9, <2>1, <2>2
<1>14. ASSUME NEW p \in Procs, preadWait(p) \/ pwriteWait(p)
       PROVE  EntriesCounted' /\ SleepersCounted'
  <2>1. /\ \E who \in {IFWFW, IFWFR} : psleep(p, who, par, paw) /\ Chan(p) = who
        /\ pc[p] \notin {"sleep", "woken"} /\ op' = op /\ file' = file /\ entry' = entry
    BY <1>14 DEF preadWait, pwriteWait, AtRead, AtWrite, Chan, call
  <2> QED BY <1>1, <1>2, <1>5, <2>1
\* The calls of open and close.
<1>15. ASSUME NEW p \in Procs, op[p] \in {"open", "close"}
       PROVE  /\ file[p] \in Files /\ pc[p] # "user"
              /\ file[p] \in Readable <=> Mode[file[p]] \in {"r", "rw"}
              /\ file[p] \in Writable <=> Mode[file[p]] \in {"w", "rw"}
              /\ Mode[file[p]] \in {"r", "w", "rw"}
  BY <1>0, <1>15 DEF CallFits, Readable, Writable
<1>16. ASSUME NEW p \in Procs, popenR(p) PROVE EntriesCounted' /\ SleepersCounted'
  <2>1. /\ op[p] = "open" /\ pc[p] \in {"start", "again"} /\ Mode[file[p]] = "r"
        /\ entry[file[p]] = IF pc[p] = "start" THEN "free" ELSE "opening"
        /\ NewPar(p) \in Int
        /\ \A st \in {"opening", "open"} :
             /\ NewPar(p) + psr = par + psr + Change(Readable, file[p], st)
             /\ paw + psw = paw + psw + Change(Writable, file[p], st)
    BY <1>0, <1>1, <1>15, <1>16 DEF popenR, Opening, NewPar, Change
  <2>2. CASE Opened(p, pwakeR(pnc, NewPar(p), psr, psw)) /\ par' = NewPar(p)
             /\ UNCHANGED paw
    <3>1. SameSleepers /\ UNCHANGED <<psr, psw>>
          /\ entry' = [entry EXCEPT ![file[p]] = "open"]
      BY <1>6, <2>1, <2>2 DEF Opened, SetEntry
    <3> QED BY <1>3, <1>4, <1>15, <2>1, <2>2, <3>1
  <2>3. CASE psleep(p, IFWFW, NewPar(p), paw) /\ SetEntry(p, "opening")
             /\ UNCHANGED <<data, call, fds, sig>>
    <3>1. Chan(p) = IFWFW /\ op' = op /\ file' = file
          /\ entry' = [entry EXCEPT ![file[p]] = "opening"]
      BY <2>1, <2>3 DEF Chan, SetEntry, call
    <3>2. /\ SleepersCounted'
          /\ par' + psr' = NewPar(p) + psr /\ paw' + psw' = paw + psw
      BY <1>1, <1>5, <2>1, <2>3, <3>1
    <3>3. par' + psr' = par + psr + Change(Readable, file[p], "opening")
          /\ paw' + psw' = paw + psw + Change(Writable, file[p], "opening")
      BY <2>1, <3>2
    <3> QED BY <1>3, <1>15, <2>1, <3>1, <3>2, <3>3
  <2> QED BY <1>16, <2>2, <2>3 DEF popenR
<1>17. ASSUME NEW p \in Procs, popenW(p) PROVE EntriesCounted' /\ SleepersCounted'
  <2>1. /\ op[p] = "open" /\ pc[p] \in {"start", "again"} /\ Mode[file[p]] = "w"
        /\ entry[file[p]] = IF pc[p] = "start" THEN "free" ELSE "opening"
        /\ NewPaw(p) \in Int
        /\ \A st \in {"opening", "open"} :
             /\ par + psr = par + psr + Change(Readable, file[p], st)
             /\ NewPaw(p) + psw = paw + psw + Change(Writable, file[p], st)
    BY <1>0, <1>1, <1>15, <1>17 DEF popenW, Opening, NewPaw, Change
  <2>2. CASE Opened(p, pwakeW(pnc, NewPaw(p), psr, psw)) /\ paw' = NewPaw(p)
             /\ UNCHANGED par
    <3>1. SameSleepers /\ UNCHANGED <<psr, psw>>
          /\ entry' = [entry EXCEPT ![file[p]] = "open"]
      BY <1>6, <2>1, <2>2 DEF Opened, SetEntry
    <3> QED BY <1>3, <1>4, <1>15, <2>1, <2>2, <3>1
  <2>3. CASE psleep(p, IFWFR, par, NewPaw(p)) /\ SetEntry(p, "opening")
             /\ UNCHANGED <<data, call, fds, sig>>
    <3>1. Chan(p) = IFWFR /\ op' = op /\ file' = file
          /\ entry' = [entry EXCEPT ![file[p]] = "opening"]
      BY <2>1, <2>3 DEF Chan, SetEntry, call
    <3>2. /\ SleepersCounted'
          /\ par' + psr' = par + psr /\ paw' + psw' = NewPaw(p) + psw
      BY <1>1, <1>5, <2>1, <2>3, <3>1
    <3>3. par' + psr' = par + psr + Change(Readable, file[p], "opening")
          /\ paw' + psw' = paw + psw + Change(Writable, file[p], "opening")
      BY <2>1, <3>2
    <3> QED BY <1>3, <1>15, <2>1, <3>1, <3>2, <3>3
  <2>4. CASE Finish(p, {}) /\ UNCHANGED <<data, counters, entry, fds>>
    BY <1>6, <1>9, <2>1, <2>4
  <2> QED BY <1>17, <2>2, <2>3, <2>4 DEF popenW
<1>18. ASSUME NEW p \in Procs, popenRW(p) PROVE EntriesCounted' /\ SleepersCounted'
  <2>1. /\ op[p] = "open" /\ pc[p] = "start" /\ Mode[file[p]] = "rw"
        /\ entry[file[p]] = "free"
        /\ par' = par + 1 /\ paw' = paw + 1 /\ UNCHANGED <<psr, psw>>
        /\ entry' = [entry EXCEPT ![file[p]] = "open"]
        /\ \E woken : Finish(p, woken)
    BY <1>0, <1>18 DEF popenRW, Opening, Opened, SetEntry
  <2>2. Change(Readable, file[p], "open") = 1 /\ Change(Writable, file[p], "open") = 1
    BY <1>15, <2>1 DEF Change
  <2>3. SameSleepers
    BY <1>6, <2>1
  <2>4. par' + psr' = par + psr + Change(Readable, file[p], "open")
        /\ paw' + psw' = paw + psw + Change(Writable, file[p], "open")
    BY <1>1, <2>1, <2>2
  <2> QED BY <1>3, <1>4, <1>15, <2>1, <2>3, <2>4
<1>19. ASSUME NEW p \in Procs, popenIntr(p) PROVE EntriesCounted' /\ SleepersCounted'
  <2>1. /\ op[p] = "open" /\ pc[p] = "intr" /\ entry[file[p]] = "opening"
        /\ Mode[file[p]] \in {"r", "w"} /\ UNCHANGED <<psr, psw>>
        /\ par' = IF Mode[file[p]] = "r" THEN par - 1 ELSE par
        /\ paw' = IF Mode[file[p]] = "r" THEN paw ELSE paw - 1
        /\ entry' = [entry EXCEPT ![file[p]] = "free"]
        /\ \E woken : Finish(p, woken)
    BY <1>0, <1>15, <1>19 DEF popenIntr, Opening, CallFits, SetEntry
  <2>2. /\ Change(Readable, file[p], "free") = IF Mode[file[p]] = "r" THEN 0 - 1 ELSE 0
        /\ Change(Writable, file[p], "free") = IF Mode[file[p]] = "r" THEN 0 ELSE 0 - 1
    BY <1>15, <2>1 DEF Change
  <2>3. SameSleepers
    BY <1>6, <2>1
  <2>4. par' + psr' = par + psr + Change(Readable, file[p], "free")
        /\ paw' + psw' = paw + psw + Change(Writable, file[p], "free")
    BY <1>1, <2>1, <2>2
  <2> QED BY <1>3, <1>4, <1>15, <2>1, <2>3, <2>4
<1>20. ASSUME NEW p \in Procs, pclose(p)
       PROVE  (EntriesCounted' /\ SleepersCounted') \/ Halted'
  <2>1. /\ op[p] = "close" /\ pc[p] = "start" /\ entry[file[p]] = "open"
        /\ par' = IF file[p] \in Readable THEN par - 1 ELSE par
        /\ paw' = IF file[p] \in Writable THEN paw - 1 ELSE paw
        /\ UNCHANGED <<psr, psw>>
    BY <1>0, <1>20 DEF pclose, Closing
  <2>2. /\ Change(Readable, file[p], "free") = IF file[p] \in Readable THEN 0 - 1 ELSE 0
        /\ Change(Writable, file[p], "free") = IF file[p] \in Writable THEN 0 - 1 ELSE 0
    BY <2>1 DEF Change
  <2>3. CASE SetEntry(p, "free") /\ \E woken : Finish(p, woken)
    <3>1. entry' = [entry EXCEPT ![file[p]] = "free"] /\ SameSleepers
      BY <1>6, <2>1, <2>3 DEF SetEntry
    <3>2. par' + psr' = par + psr + Change(Readable, file[p], "free")
          /\ paw' + psw' = paw + psw + Change(Writable, file[p], "free")
      BY <1>1, <2>1, <2>2
    <3> QED BY <1>3, <1>4, <1>15, <2>1, <3>1, <3>2
  <2>4. CASE pc' = [q \in Procs |-> "halted"]
    BY <2>4 DEF Halted
  <2> QED BY <1>20, <2>3, <2>4 DEF pclose
<1>21. CASE UNCHANGED vars
  <2>1. SameSleepers /\ UNCHANGED <<counters, entry>>
    BY <1>21 DEF vars, counters, SameSleepers, Asleep, Chan
  <2> QED BY <1>9, <2>1
<1>22. ASSUME NEW p \in Procs, NEW f \in Files, CloseShared(p, f)
       PROVE  EntriesCounted' /\ SleepersCounted'
  BY <1>13, <1>22
<1>23. ASSUME NEW p \in Procs, NEW q \in Procs, Fork(p, q)
       PROVE  EntriesCounted' /\ SleepersCounted'
  BY <1>13, <1>23
<1> QED
  BY <1>8, <1>10, <1>11, <1>12, <1>14, <1>16, <1>17, <1>18, <1>19, <1>20, <1>21, <1>22,
     <1>23 DEF Next

\* Nothing moves after a panic.
LEMMA HaltedStays == Halted /\ [Next]_vars => UNCHANGED vars
<1> SUFFICES ASSUME Halted, [Next]_vars PROVE UNCHANGED vars
  OBVIOUS
<1>1. ASSUME NEW p \in Procs PROVE pc[p] = "halted"
  BY DEF Halted
<1>2. ASSUME NEW p \in Procs, NEW f, NEW q \in Procs,
             \/ \E fl \in Flags :
                  \/ OpenCall(p, f, fl)
                  \/ \E n \in Sizes : ReadCall(p, f, fl, n) \/ WriteCall(p, f, fl, n)
             \/ CloseLast(p, f) \/ CloseShared(p, f) \/ Fork(p, q)
      PROVE  FALSE
  BY <1>1, <1>2 DEF OpenCall, ReadCall, WriteCall, CloseLast, CloseShared, Begin, Fork
<1>3. ASSUME NEW p \in Procs,
             \/ Resume(p) \/ ILock(p) \/ popenR(p) \/ popenW(p) \/ popenRW(p)
             \/ popenIntr(p) \/ pclose(p) \/ Poll(p) \/ Signal(p)
      PROVE  FALSE
  BY <1>1, <1>3 DEF Resume, ILock, popenR, popenW, popenRW, popenIntr, pclose, Poll, Signal
<1>4. ASSUME NEW p \in Procs,
             \/ preadNothing(p) \/ preadWait(p) \/ preadCopy(p) \/ preadEnd(p)
             \/ pwriteEnd(p) \/ pwriteWait(p) \/ pwriteCopy(p) \/ rwIntr(p)
      PROVE  FALSE
  BY <1>1, <1>4 DEF preadNothing, preadWait, preadCopy, preadEnd, pwriteEnd, pwriteWait,
                    pwriteCopy, rwIntr, AtRead, AtWrite
<1> QED BY <1>2, <1>3, <1>4 DEF Next

LEMMA HaltedNext == Halted /\ [Next]_vars => Halted'
<1>1. Halted /\ UNCHANGED vars => Halted'
  BY DEF Halted, vars
<1> QED BY <1>1, HaltedStays

\* The entries of the sleepers are in use.
LEMMA SleepersUse ==
  ASSUME UseInv, NEW who \in {IFWFW, IFWFR}, NEW p \in Asleep(who)
  PROVE  /\ file[p] \in InUse(IF who = IFWFW THEN Readable ELSE Writable)
         /\ op[p] \in {"read", "write", "open"} /\ pc[p] \in {"sleep", "woken"}
BY PipeAssumption
   DEF UseInv, LiveTypes, CallFits, Opening, Using, Asleep, Chan, InUse, Readable,
       Writable, IFWFW, IFWFR, IEV, OEV

\* The tests of a zero count are exact when the counters are.
LEMMA TestsFollow == ASSUME ExactInv PROVE TestsExact
<1> USE PipeAssumption
<1>1. UseInv /\ CountersExact
  BY DEF ExactInv
<1>2. /\ IsFiniteSet(InUse(Readable)) /\ IsFiniteSet(InUse(Writable))
      /\ IsFiniteSet(Asleep(IFWFW)) /\ IsFiniteSet(Asleep(IFWFR))
  BY FS_Subset DEF InUse, Readable, Writable, Asleep
<1>3. /\ InUse(Readable) = {} => Asleep(IFWFW) = {}
      /\ InUse(Writable) = {} => Asleep(IFWFR) = {}
  BY <1>1, SleepersUse DEF IFWFW, IFWFR
<1>4. /\ \A S : IsFiniteSet(S) => (Cardinality(S) = 0 <=> S = {})
      /\ par \in Int /\ paw \in Int /\ psr \in Int /\ psw \in Int
  BY <1>1, FS_EmptySet DEF UseInv, LiveTypes
<1>5. NoReaders <=> InUse(Readable) = {}
  BY <1>1, <1>2, <1>3, <1>4 DEF CountersExact, NoReaders
<1>6. NoWriters <=> InUse(Writable) = {}
  BY <1>1, <1>2, <1>3, <1>4 DEF CountersExact, NoWriters
<1> QED BY <1>5, <1>6 DEF TestsExact

LEMMA ExactInit == Init => ExactInv
<1> SUFFICES ASSUME Init PROVE ExactInv
  OBVIOUS
<1> USE PipeAssumption
<1>1. UseInv
  BY DEF Init, pclear, Created, UseInv, LiveTypes, CallFits, Opening, Closing, Using
<1>2. Asleep(IFWFW) = {} /\ Asleep(IFWFR) = {} /\ psr = 0 /\ psw = 0
  BY DEF Init, pclear, Created, Asleep
<1>3. CASE Named
  <2>1. InUse(Readable) = {} /\ InUse(Writable) = {} /\ par = 0 /\ paw = 0
    BY <1>3 DEF Init, pclear, InUse, Readable, Writable
  <2> QED BY <1>1, <1>2, <2>1, FS_EmptySet DEF ExactInv, CountersExact
<1>4. CASE ~Named
  <2>1. PICK r, w \in Files : InUse(Readable) = {r} /\ InUse(Writable) = {w}
    BY <1>4 DEF Init, Created, InUse, Readable, Writable
  <2>2. par = 1 /\ paw = 1
    BY <1>4 DEF Init, Created
  <2>3. Cardinality({r}) = 1 /\ Cardinality({w}) = 1 /\ Cardinality({}) = 0
    BY FS_EmptySet, FS_Singleton
  <2> QED BY <1>1, <1>2, <2>1, <2>2, <2>3 DEF ExactInv, CountersExact
<1> QED BY <1>3, <1>4

----
(***************************************************************************)
(* While pclose has not halted the machine, the awake and sleeping counts  *)
(* agree with the entries in use and the processes asleep, however entries *)
(* are shared and opens interrupted.                                       *)
(***************************************************************************)
THEOREM PipeCounters == Spec => [](NoPanic => CountersExact)
<1>1. Init => ExactInv \/ Halted
  BY ExactInit
<1>2. (ExactInv \/ Halted) /\ [Next]_vars => (ExactInv \/ Halted)'
  BY UseNext, ExactNext, HaltedNext DEF ExactInv
<1>3. ExactInv \/ Halted => (NoPanic => CountersExact)
  BY DEF ExactInv, Halted, NoPanic
<1> QED BY <1>1, <1>2, <1>3, PTL DEF Spec

(***************************************************************************)
(* And so the tests of pread and pwrite are exact: EPIPE is for a pipe     *)
(* that nobody has open for reading, end of file for one that nobody has   *)
(* open for writing.                                                       *)
(***************************************************************************)
THEOREM PipeTests == Spec => [](NoPanic => TestsExact)
<1>1. Init => ExactInv \/ Halted
  BY ExactInit
<1>2. (ExactInv \/ Halted) /\ [Next]_vars => (ExactInv \/ Halted)'
  BY UseNext, ExactNext, HaltedNext DEF ExactInv
<1>3. ExactInv \/ Halted => (NoPanic => TestsExact)
  BY TestsFollow DEF Halted, NoPanic
<1> QED BY <1>1, <1>2, <1>3, PTL DEF Spec

----
\* Entries that no two processes wait on: those of one pipe (), or unshared.
Unshared == ~Named \/ ~Forking

OneReader(R) == \A f, g \in R : entry[f] # "free" /\ entry[g] # "free" => f = g

Alone ==
  /\ ~Named => /\ \A p \in Procs : op[p] # "open"
               /\ OneReader(Readable) /\ OneReader(Writable)
  /\ ~Forking => \A p, q \in Procs : p # q => fds[p] \cap fds[q] = {}

LEMMA AloneInit == Init => Alone
<1> SUFFICES ASSUME Init PROVE Alone
  OBVIOUS
<1> USE PipeAssumption
<1>1. CASE Named
  BY <1>1 DEF Init, Alone
<1>2. CASE ~Named
  <2>1. PICK p \in Procs, r, w \in Files :
          /\ Mode[r] = "r" /\ Mode[w] = "w"
          /\ entry = [f \in Files |-> IF f \in {r, w} THEN "open" ELSE "free"]
          /\ fds = [q \in Procs |-> IF q = p THEN {r, w} ELSE {}]
    BY <1>2 DEF Init, Created
  <2>2. \A f \in Files : entry[f] # "free" => f \in {r, w}
    BY <2>1
  <2>3. OneReader(Readable) /\ OneReader(Writable)
    BY <2>1, <2>2 DEF OneReader, Readable, Writable
  <2>4. \A q \in Procs : op[q] # "open"
    BY DEF Init
  <2>5. \A q, s \in Procs : q # s => fds[q] \cap fds[s] = {}
    BY <2>1
  <2> QED BY <2>3, <2>4, <2>5 DEF Alone
<1> QED BY <1>1, <1>2

LEMMA AloneNext == UseInv /\ Alone /\ [Next]_vars => Alone'
<1> SUFFICES ASSUME UseInv, Alone, [Next]_vars PROVE Alone'
  OBVIOUS
<1> USE PipeAssumption DEF UseInv, LiveTypes, Alone, OneReader, Readable, Writable
<1>1. ASSUME UNCHANGED <<op, entry, fds>> PROVE Alone'
  BY <1>1
<1>2. ASSUME NEW p \in Procs, NEW woken, Finish(p, woken), UNCHANGED <<entry, fds>>
      PROVE  Alone'
  BY <1>2 DEF Finish
<1>3. ASSUME NEW p \in Procs,
             Resume(p) \/ ILock(p) \/ Signal(p) \/ preadWait(p) \/ pwriteWait(p)
               \/ preadCopy(p) \/ pwriteCopy(p)
      PROVE  Alone'
  BY <1>1, <1>3 DEF Resume, ILock, Signal, preadWait, pwriteWait, preadCopy, pwriteCopy, call
<1>4. ASSUME NEW p \in Procs, preadNothing(p) \/ preadEnd(p) \/ pwriteEnd(p) \/ rwIntr(p)
      PROVE  Alone'
  BY <1>2, <1>4 DEF preadNothing, preadEnd, pwriteEnd, rwIntr
<1>5. ASSUME NEW p \in Procs, Poll(p) PROVE Alone'
  BY <1>5 DEF Poll
<1>6. ASSUME NEW p \in Procs, NEW f \in Files, NEW fl, NEW n,
             OpenCall(p, f, fl) \/ ReadCall(p, f, fl, n) \/ WriteCall(p, f, fl, n)
      PROVE  Alone'
  BY <1>6 DEF OpenCall, ReadCall, WriteCall, Begin
<1>7. ASSUME NEW p \in Procs, NEW f, CloseLast(p, f) \/ CloseShared(p, f) PROVE Alone'
  BY <1>7 DEF CloseLast, CloseShared, Begin, call
<1>8. ASSUME NEW p \in Procs, NEW q \in Procs, Fork(p, q) PROVE Alone'
  BY <1>8 DEF Fork, call
<1>9. ASSUME NEW p \in Procs, op[p] = "open", pc[p] # "user",
             \E st \in {"opening", "open", "free"} :
               entry' = [entry EXCEPT ![file[p]] = st] \/ entry' = entry,
             fds' = fds \/ fds' = [fds EXCEPT ![p] = @ \cup {file[p]}]
      PROVE  Alone'
  <2>1. Named
    BY <1>9
  <2>2. \A q \in Procs : file[p] \notin fds[q]
    BY <1>9 DEF Opening, Using
  <2> QED BY <1>9, <2>1, <2>2
<1>10. ASSUME NEW p \in Procs, popenR(p) \/ popenW(p) \/ popenRW(p) \/ popenIntr(p)
       PROVE  Alone'
  <2>1. CASE popenR(p)
    BY <1>9, <2>1 DEF popenR, Opened, SetEntry
  <2>2. CASE popenW(p)
    BY <1>9, <2>2 DEF popenW, Opened, SetEntry
  <2>3. CASE popenRW(p)
    BY <1>9, <2>3 DEF popenRW, Opened, SetEntry
  <2>4. CASE popenIntr(p)
    BY <1>9, <2>4 DEF popenIntr, SetEntry
  <2> QED BY <1>10, <2>1, <2>2, <2>3, <2>4
<1>11. ASSUME NEW p \in Procs, pclose(p) PROVE Alone'
  <2>1. fds' = fds /\ (op' = op \/ op' = [op EXCEPT ![p] = "none"])
        /\ (entry' = entry \/ entry' = [entry EXCEPT ![file[p]] = "free"])
    BY <1>11 DEF pclose, Finish, SetEntry, call
  <2> QED BY <2>1
<1>12. CASE UNCHANGED vars
  BY <1>1, <1>12 DEF vars
<1>13. ASSUME NEW p \in Procs, NEW f \in Files, NEW fl, OpenCall(p, f, fl) PROVE Alone'
  BY <1>6, <1>13
<1> QED
  BY <1>3, <1>4, <1>5, <1>6, <1>7, <1>8, <1>10, <1>11, <1>12, <1>13 DEF Next

\* Fewer processes sleep in S than there are entries, when one is being closed.
LEMMA Spare ==
  ASSUME Unshared, ExactInv, Alone, NEW p \in Procs, op[p] = "close",
         NEW who \in {IFWFW, IFWFR},
         file[p] \in IF who = IFWFW THEN Readable ELSE Writable
  PROVE  Cardinality(Asleep(who))
           < Cardinality(InUse(IF who = IFWFW THEN Readable ELSE Writable))
<1> DEFINE S == IF who = IFWFW THEN Readable ELSE Writable
           f == file[p]
           T == InUse(S) \ {f}
           where == [q \in Asleep(who) |-> file[q]]
<1> USE PipeAssumption
<1>1. UseInv /\ f \in InUse(S) /\ IsFiniteSet(InUse(S)) /\ Cardinality(InUse(S)) \in Nat
  BY FS_Subset, FS_CardinalityType
     DEF ExactInv, UseInv, Closing, CallFits, InUse, Readable, Writable
<1>2. IsFiniteSet(T) /\ Cardinality(T) = Cardinality(InUse(S)) - 1
  BY <1>1, FS_RemoveElement
<1>3. \A q \in Asleep(who) : /\ q \in Procs /\ file[q] \in T
                             /\ op[q] \in {"read", "write", "open"}
  BY <1>1, SleepersUse DEF UseInv, Closing, Asleep
<1>4. where \in [Asleep(who) -> T]
  BY <1>3
<1>5. \A q, s \in Asleep(who) : file[q] = file[s] => q = s
  <2> SUFFICES ASSUME NEW q \in Asleep(who), NEW s \in Asleep(who), file[q] = file[s],
                      q # s
               PROVE  FALSE
    OBVIOUS
  <2>1. CASE op[q] = "open" \/ op[s] = "open"
    BY <1>1, <1>3, <2>1 DEF UseInv, Opening
  <2>2. CASE op[q] # "open" /\ op[s] # "open"
    <3>1. file[q] \in fds[q] /\ file[q] \in fds[s]
      BY <1>1, <1>3, <2>2 DEF UseInv, Using
    <3>2. CASE ~Forking
      BY <1>3, <3>1, <3>2 DEF Alone
    <3>3. CASE ~Named
      <4>1. file[q] \in T /\ f \in InUse(S) /\ T \subseteq InUse(S)
        BY <1>1, <1>3
      <4>2. file[q] = f
        BY <3>3, <4>1 DEF Alone, OneReader, InUse
      <4> QED BY <1>3, <4>2
    <3> QED BY <3>2, <3>3 DEF Unshared
  <2> QED BY <2>1, <2>2
<1>6. where \in Injection(Asleep(who), T)
  BY <1>4, <1>5 DEF Injection, IsInjective
<1>7. Cardinality(Asleep(who)) <= Cardinality(T) /\ IsFiniteSet(Asleep(who))
  BY <1>2, <1>6, FS_Injection
<1>8. Cardinality(Asleep(who)) \in Nat
  BY <1>7, FS_CardinalityType
<1> QED BY <1>1, <1>2, <1>7, <1>8

SafeInv == ExactInv /\ Alone

LEMMA NoPanicNext == Unshared /\ SafeInv /\ [Next]_vars => SafeInv'
<1> SUFFICES ASSUME Unshared, SafeInv, [Next]_vars PROVE SafeInv'
  OBVIOUS
<1>1. UseInv /\ CountersExact /\ ExactInv /\ Alone
  BY DEF SafeInv, ExactInv
<1>2. Alone'
  BY <1>1, AloneNext
<1>3. ASSUME NEW p \in Procs, Panics(p) PROVE FALSE
  <2>1. op[p] = "close" /\ par \in Int /\ paw \in Int /\ psr \in Int /\ psw \in Int
    BY <1>1, <1>3 DEF Panics, UseInv, LiveTypes
  <2>2. CASE file[p] \in Readable /\ par - 1 < 0
    <3>1. Cardinality(Asleep(IFWFW)) < Cardinality(InUse(Readable))
      BY <1>1, <2>1, <2>2, Spare
    <3> QED BY <1>1, <2>1, <2>2, <3>1 DEF CountersExact
  <2>3. CASE file[p] \in Writable /\ paw - 1 < 0
    <3>1. Cardinality(Asleep(IFWFR)) < Cardinality(InUse(Writable))
      BY <1>1, <2>1, <2>3, Spare DEF IFWFW, IFWFR
    <3> QED BY <1>1, <2>1, <2>3, <3>1 DEF CountersExact
  <2> QED BY <1>3, <2>2, <2>3 DEF Panics
<1>4. UseInv'
  BY <1>1, <1>3, UseNext
<1>5. ~Halted'
  BY <1>4 DEF UseInv, LiveTypes, Halted
<1>6. CountersExact'
  BY <1>1, <1>5, ExactNext
<1> QED BY <1>2, <1>4, <1>6 DEF SafeInv, ExactInv

(***************************************************************************)
(* pclose never panics on a pipe made by pipe (), however it is inherited, *)
(* nor on a FIFO whose entries are not shared by fork (): the count of a   *)
(* side still in use covers its sleepers and the closing process.          *)
(***************************************************************************)
THEOREM PipeNoPanic ==
  ASSUME Unshared
  PROVE  Spec => [](NoPanic /\ CountersExact /\ TestsExact)
<1>1. Init => SafeInv
  BY ExactInit, AloneInit DEF SafeInv
<1>2. SafeInv /\ [Next]_vars => SafeInv'
  BY NoPanicNext
<1>3. SafeInv => NoPanic /\ CountersExact /\ TestsExact
  BY TestsFollow DEF SafeInv, ExactInv, UseInv, LiveTypes, NoPanic
<1> QED BY <1>1, <1>2, <1>3, PTL DEF Spec

----------------------------------------------------------------------------
(* The abstract pipe. *)
\* The ring as a sequence of the numbers of the unread bytes.
Numbers == [i \in 1 .. pnc |-> rseq + i - 1]

LEMMA UnreadNumbers == RingInv => Unread = Numbers
<1> SUFFICES ASSUME RingInv PROVE Unread = Numbers
  OBVIOUS
<1> USE PipeAssumption DEF RingInv, RingTypes
<1>1. ASSUME NEW i \in 1 .. pnc PROVE ring[Slot(i - 1)] = rseq + i - 1
  <2>1. i - 1 \in 0 .. pnc - 1 /\ rseq + (i - 1) = rseq + i - 1
    OBVIOUS
  <2> QED BY <2>1 DEF RingFIFO
<1> QED BY <1>1 DEF Unread, Numbers

LEMMA UnreadIn ==
  ASSUME RingInv
  PROVE  Unread \in Seq(Nat) /\ Len(Unread) = pnc
<1>1. Numbers \in [1 .. pnc -> Nat] /\ pnc \in Nat
  BY PipeAssumption DEF Numbers, RingInv, RingTypes
<1> QED BY <1>1, UnreadNumbers

LEMMA ChannelInit == Init => Ch!ChInit
<1> SUFFICES ASSUME Init PROVE Ch!ChInit
  OBVIOUS
<1>1. EntriesIn("opening") = {} /\ EntriesIn("open") \subseteq Files
  BY DEF Init, pclear, Created, EntriesIn
<1>2. pnc = 0 /\ wseq = 0
  BY DEF Init, pclear, Created
<1>3. Unread = << >>
  BY <1>2 DEF Unread
<1> QED BY <1>1, <1>2, <1>3 DEF Ch!ChInit

\* A step that touches neither the ring nor the entries.
LEMMA ChannelStutter ==
  ASSUME UNCHANGED <<pnc, prx, ring, wseq, entry>>
  PROVE  UNCHANGED Ch!ChVars
BY DEF Ch!ChVars, Unread, Slot, EntriesIn

\* pread takes bytes from the front,
LEMMA ChannelRead ==
  ASSUME RingInv, RingInv', NEW p \in Procs, preadCopy(p)
  PROVE  Ch!ChNext \/ UNCHANGED Ch!ChVars
<1>0. Unread = Numbers /\ (Unread = Numbers)'
  BY UnreadNumbers, PTL
<1>9. Len(Unread) = pnc
  BY UnreadIn
<1> USE PipeAssumption DEF RingInv, RingTypes
<1>1. PICK m \in Moved(p, ReadChunk(p)) :
        /\ pnc' = pnc - m
        /\ prx' = ReadPrx(m)
        /\ rseq' = rseq + m
        /\ ring' = ring /\ wseq' = wseq /\ entry' = entry
  BY DEF preadCopy
<1>2. m \in Nat /\ m <= PIPE_MAX - prx /\ m <= pnc /\ pnc > 0
  BY <1>1 DEF Moved, ReadChunk, MinOf, preadCopy
<1>3. CASE m = 0
  <2>1. prx' = prx /\ pnc' = pnc
    BY <1>1, <1>2, <1>3 DEF ReadPrx
  <2> QED BY <1>1, <2>1, ChannelStutter
<1>4. CASE m > 0
  <2>2. Len(Unread) = pnc /\ m \in 1 .. PIPE_MAX /\ m <= Len(Unread)
    BY <1>2, <1>4, <1>9
  <2>3. Numbers' = SubSeq(Numbers, m + 1, pnc)
    BY <1>1, <1>2, <1>4 DEF Numbers
  <2>4. UNCHANGED <<EntriesIn("opening"), EntriesIn("open"), wseq>>
    BY <1>1 DEF EntriesIn
  <2>5. Ch!Get(m)
    BY <1>0, <2>2, <2>3, <2>4 DEF Ch!Get
  <2> QED BY <2>2, <2>5 DEF Ch!ChNext
<1> QED BY <1>2, <1>3, <1>4

\* pwrite adds them at the end while somebody has the pipe open for reading,
LEMMA ChannelWrite ==
  ASSUME RingInv, RingInv', ExactInv, NEW p \in Procs, pwriteCopy(p)
  PROVE  Ch!ChNext \/ UNCHANGED Ch!ChVars
<1>0. Unread = Numbers /\ (Unread = Numbers)'
  BY UnreadNumbers, PTL
<1>9. Len(Unread) = pnc
  BY UnreadIn
<1> USE PipeAssumption DEF RingInv, RingTypes
<1>1. PICK m \in Moved(p, WriteChunk(p)) :
        /\ ring' = [i \in 0 .. PIPE_MAX - 1 |->
                     IF i \in pwx .. pwx + m - 1 THEN wseq + (i - pwx) ELSE ring[i]]
        /\ pnc' = pnc + m /\ wseq' = wseq + m
        /\ prx' = prx /\ rseq' = rseq /\ entry' = entry
  BY DEF pwriteCopy
<1>2. m \in Nat /\ m <= PIPE_MAX - pnc /\ wseq = rseq + pnc
  BY <1>1 DEF Moved, WriteChunk, MinOf, RingFIFO
<1>3. CASE m = 0
  <2>1. ring' = ring /\ pnc' = pnc /\ wseq' = wseq
    BY <1>1, <1>3
  <2> QED BY <1>1, <2>1, ChannelStutter
<1>4. CASE m > 0
  <2>2. Len(Unread) = pnc /\ m \in 1 .. PIPE_MAX /\ Len(Unread) + m <= PIPE_MAX
    BY <1>2, <1>4, <1>9
  <2>3. Numbers' = Numbers \o [i \in 1 .. m |-> wseq + i - 1]
    BY <1>1, <1>2, <1>4 DEF Numbers
  <2>4. UNCHANGED <<EntriesIn("opening"), EntriesIn("open")>>
    BY <1>1 DEF EntriesIn
  <2>5. InUse(Readable) # {} /\ entry \in [Files -> {"free", "opening", "open"}]
    BY TestsFollow DEF pwriteCopy, TestsExact, ExactInv, UseInv, LiveTypes
  <2>6. (EntriesIn("opening") \cup EntriesIn("open")) \cap Readable # {}
    BY <2>5 DEF InUse, EntriesIn, Readable
  <2>7. Ch!Put(m)
    BY <1>0, <1>1, <2>2, <2>3, <2>4, <2>6 DEF Ch!Put
  <2> QED BY <2>2, <2>7 DEF Ch!ChNext
<1> QED BY <1>2, <1>3, <1>4

\* popen marks its entry, and frees it when it was interrupted,
LEMMA ChannelOpen ==
  ASSUME UseInv, NEW p \in Procs,
         popenR(p) \/ popenW(p) \/ popenRW(p) \/ popenIntr(p)
  PROVE  Ch!ChNext \/ UNCHANGED Ch!ChVars
<1> USE PipeAssumption
<1>1. /\ op[p] = "open" /\ file[p] \in Files
      /\ entry \in [Files -> {"free", "opening", "open"}]
      /\ entry[file[p]] = IF pc[p] = "start" THEN "free" ELSE "opening"
      /\ pc[p] \in {"start", "again", "intr"}
  BY DEF popenR, popenW, popenRW, popenIntr, UseInv, LiveTypes, CallFits, Opening
<1>2. UNCHANGED <<Unread, wseq>>
  BY DEF popenR, popenW, popenRW, popenIntr, Opened, data, Unread, Slot
<1>3. CASE entry' = entry
  BY <1>2, <1>3 DEF Ch!ChVars, EntriesIn
<1>4. CASE SetEntry(p, "opening") /\ pc[p] \in {"start", "again"}
  <2>1. CASE pc[p] = "start"
    <3>1. /\ EntriesIn("opening")' = EntriesIn("opening") \cup {file[p]}
          /\ EntriesIn("open")' = EntriesIn("open")
          /\ file[p] \notin EntriesIn("opening") \cup EntriesIn("open")
      BY <1>1, <1>4, <2>1 DEF EntriesIn, SetEntry
    <3> QED BY <1>1, <1>2, <3>1 DEF Ch!ChNext, Ch!StartOpen
  <2>2. CASE pc[p] = "again"
    BY <1>1, <1>3, <1>4, <2>2 DEF SetEntry
  <2> QED BY <1>4, <2>1, <2>2
<1>5. CASE SetEntry(p, "open")
  <2>1. /\ EntriesIn("opening")' = EntriesIn("opening") \ {file[p]}
        /\ EntriesIn("open")' = EntriesIn("open") \cup {file[p]}
        /\ file[p] \notin EntriesIn("open")
    BY <1>1, <1>5 DEF EntriesIn, SetEntry
  <2> QED BY <1>1, <1>2, <2>1 DEF Ch!ChNext, Ch!Open
<1>6. CASE SetEntry(p, "free") /\ pc[p] = "intr"
  <2>1. /\ EntriesIn("opening")' = EntriesIn("opening") \ {file[p]}
        /\ EntriesIn("open")' = EntriesIn("open")
        /\ file[p] \in EntriesIn("opening")
    BY <1>1, <1>6 DEF EntriesIn, SetEntry
  <2> QED BY <1>1, <1>2, <2>1 DEF Ch!ChNext, Ch!Abandon
<1> QED BY <1>3, <1>4, <1>5, <1>6 DEF popenR, popenW, popenRW, popenIntr, Opened

\* and pclose drops what is left exactly when no entry is in use any more.
LEMMA ChannelClose ==
  ASSUME RingInv, ExactInv, TestsExact' \/ Halted', NEW p \in Procs, pclose(p)
  PROVE  Ch!ChNext \/ UNCHANGED Ch!ChVars
<1> USE PipeAssumption
<1>1. /\ op[p] = "close" /\ pc[p] = "start" /\ file[p] \in Files
      /\ entry \in [Files -> {"free", "opening", "open"}]
      /\ entry[file[p]] = "open"
      /\ par \in Int /\ paw \in Int
      /\ Mode \in [Files -> {"r", "w", "rw"}]
  BY DEF pclose, ExactInv, UseInv, LiveTypes, CallFits, Closing
<1>2. CASE Panics(p)
  <2>1. UNCHANGED <<pnc, prx, ring, wseq, entry>>
    BY <1>1, <1>2 DEF pclose, Panics, Readable, Writable
  <2> QED BY <2>1, ChannelStutter
<1>3. CASE ~Panics(p)
  <2>1. SetEntry(p, "free") /\ wseq' = wseq /\ ring' = ring
        /\ pc'[p] = "user"
    BY <1>1, <1>3 DEF pclose, Panics, Finish, Goto, ExactInv, UseInv, LiveTypes
  <2>2. TestsExact'
    BY <2>1 DEF Halted
  <2>3. /\ EntriesIn("open")' = EntriesIn("open") \ {file[p]}
        /\ EntriesIn("opening")' = EntriesIn("opening")
        /\ file[p] \in EntriesIn("open")
    BY <1>1, <2>1 DEF EntriesIn, SetEntry
  <2>4. entry' \in [Files -> {"free", "opening", "open"}]
    BY <1>1, <2>1 DEF SetEntry
  <2>5. (NoReaders /\ NoWriters)' <=> (EntriesIn("opening") \cup EntriesIn("open"))' = {}
    BY <1>1, <2>2, <2>4 DEF TestsExact, EntriesIn, InUse, Readable, Writable
  <2>6. IF (NoReaders /\ NoWriters)' THEN pnc' = 0 ELSE UNCHANGED <<pnc, prx>>
    BY DEF pclose, NoReaders, NoWriters
  <2>7. Unread' = IF (NoReaders /\ NoWriters)' THEN << >> ELSE Unread
    <3>1. CASE pnc' = 0
      <4>1. Unread' = << >>
        BY <3>1 DEF Unread
      <4>2. pnc = 0 => Unread = << >>
        BY DEF Unread
      <4> QED BY <2>6, <3>1, <4>1, <4>2
    <3>2. CASE pnc' # 0
      BY <2>1, <2>6, <3>2 DEF Unread, Slot
    <3> QED BY <3>1, <3>2
  <2>8. Ch!Close(file[p])
    BY <2>1, <2>3, <2>5, <2>7 DEF Ch!Close
  <2> QED BY <1>1, <2>8 DEF Ch!ChNext
<1> QED BY <1>2, <1>3

LEMMA TestsHold == ExactInv => TestsExact
BY TestsFollow

\* Every step is one of the channel, or none.
LEMMA ChannelNext ==
  ASSUME RingInv, RingInv', ExactInv, ExactInv' \/ Halted', [Next]_vars
  PROVE  Ch!ChNext \/ UNCHANGED Ch!ChVars
<1>1. TestsExact' \/ Halted'
  <2>1. ExactInv' => TestsExact'
    BY TestsHold, PTL
  <2> QED BY <2>1
<1>2. ASSUME UNCHANGED data, UNCHANGED entry PROVE UNCHANGED Ch!ChVars
  BY <1>2, ChannelStutter DEF data
<1>3. ASSUME NEW p \in Procs, Resume(p) \/ ILock(p) \/ Poll(p) \/ Signal(p)
      PROVE  UNCHANGED Ch!ChVars
  BY <1>2, <1>3 DEF Resume, ILock, Poll, Signal
<1>4. ASSUME NEW p \in Procs, NEW f \in Files,
             \/ \E fl \in Flags : OpenCall(p, f, fl)
             \/ \E fl \in Flags, n \in Sizes : ReadCall(p, f, fl, n) \/ WriteCall(p, f, fl, n)
             \/ CloseLast(p, f) \/ CloseShared(p, f)
      PROVE  UNCHANGED Ch!ChVars
  BY <1>2, <1>4 DEF OpenCall, ReadCall, WriteCall, CloseLast, CloseShared, Begin
<1>5. ASSUME NEW p \in Procs, NEW q \in Procs, Fork(p, q) PROVE UNCHANGED Ch!ChVars
  BY <1>2, <1>5 DEF Fork
<1>6. ASSUME NEW p \in Procs,
             \/ preadNothing(p) \/ preadWait(p) \/ preadEnd(p)
             \/ pwriteEnd(p) \/ pwriteWait(p) \/ rwIntr(p)
      PROVE  UNCHANGED Ch!ChVars
  BY <1>2, <1>6 DEF preadNothing, preadWait, preadEnd, pwriteEnd, pwriteWait, rwIntr
<1>7. CASE UNCHANGED vars
  BY <1>2, <1>7 DEF vars, data
<1>8. UseInv
  BY DEF ExactInv
<1> QED
  BY <1>1, <1>3, <1>4, <1>5, <1>6, <1>7, <1>8, ChannelRead, ChannelWrite, ChannelOpen,
     ChannelClose DEF Next

(***************************************************************************)
(* A pipe implements a Channel: whatever is shared, interrupted, faulted   *)
(* or polled, bytes come out once and in order, are accepted only while    *)
(* some entry reads, and are dropped exactly when no entry is in use.      *)
(***************************************************************************)
THEOREM PipeChannel == Spec => ImplementsChannel
<1> DEFINE ChInv == RingInv /\ (ExactInv \/ Halted)
<1>1. Init => ChInv
  BY RingInit, ExactInit
<1>2. ChInv /\ [Next]_vars => ChInv'
  BY RingNext, UseNext, ExactNext, HaltedNext DEF ExactInv
<1>3. ChInv /\ ChInv' /\ [Next]_vars => Ch!ChNext \/ UNCHANGED Ch!ChVars
  <2>1. CASE Halted /\ [Next]_vars
    BY <2>1, HaltedStays, ChannelStutter DEF vars
  <2>2. CASE ExactInv /\ ChInv /\ ChInv' /\ [Next]_vars
    BY <2>2, ChannelNext
  <2> QED BY <2>1, <2>2
<1> QED BY <1>1, <1>2, <1>3, ChannelInit, PTL DEF Spec, ImplementsChannel, Ch!ChSpec

----------------------------------------------------------------------------
(* Sleeping: a writer never waits for an empty pipe, and unless an open () *)
(* is interrupted no sleeper of psleep () or pollsleep () is forgotten.    *)
\* Between ilock () and iunlock () a process holds the inode's gate.
Inside == {"start", "again", "copy", "fault", "intr"}

Holding == \A p \in Procs : pc[p] \in Inside <=> owner = p

\* A reader that has taken something and has yet to wake the writers.
Draining == \E q \in Procs : op[q] = "read" /\ pc[q] \in {"copy", "fault"}

Sleeping(p, o) == pc[p] = "sleep" /\ op[p] = o

WritersWait == \A p \in Procs : Sleeping(p, "write") => pnc > 0 \/ Draining

WakeInv == ExactInv /\ RingInv /\ Holding /\ WritersWait

LEMMA WakeInit == Init => WakeInv
<1>1. Init => Holding /\ WritersWait
  BY PipeAssumption DEF Init, Holding, Inside, WritersWait, Sleeping
<1> QED BY <1>1, ExactInit, RingInit DEF WakeInv

LEMMA HoldingNext ==
  ASSUME UseInv, Holding, [Next]_vars
  PROVE  Holding' \/ Halted'
<1> USE PipeAssumption DEF UseInv, LiveTypes, Holding, Inside, call, counters, data
<1>1. ASSUME NEW p \in Procs, NEW woken, Finish(p, woken), owner = p PROVE Holding'
  BY <1>1 DEF Finish, Goto
<1>2. ASSUME NEW p \in Procs, NEW who, NEW ar, NEW aw, psleep(p, who, ar, aw), owner = p
      PROVE  Holding'
  BY <1>2 DEF psleep
<1>3. ASSUME NEW p \in Procs, NEW f \in Files,
             \/ \E fl \in Flags :
                  \/ OpenCall(p, f, fl)
                  \/ \E n \in Sizes : ReadCall(p, f, fl, n) \/ WriteCall(p, f, fl, n)
             \/ CloseLast(p, f) \/ CloseShared(p, f)
      PROVE  Holding'
  BY <1>3 DEF OpenCall, ReadCall, WriteCall, CloseLast, CloseShared, Begin
<1>10. ASSUME NEW p \in Procs, NEW q \in Procs, Fork(p, q) PROVE Holding'
  BY <1>10 DEF Fork
<1>4. ASSUME NEW p \in Procs, Resume(p) \/ ILock(p) \/ Poll(p) \/ Signal(p)
      PROVE  Holding'
  <2>1. CASE Resume(p) BY <2>1 DEF Resume
  <2>2. CASE ILock(p) BY <2>2 DEF ILock
  <2>3. CASE Poll(p) BY <2>3 DEF Poll
  <2>4. CASE Signal(p) BY <2>4 DEF Signal
  <2> QED BY <1>4, <2>1, <2>2, <2>3, <2>4
<1>5. ASSUME NEW p \in Procs, popenR(p) \/ popenW(p) \/ popenRW(p) \/ popenIntr(p)
      PROVE  Holding'
  <2>1. owner = p
    BY <1>5 DEF popenR, popenW, popenRW, popenIntr
  <2>2. (\E woken : Finish(p, woken)) \/ (\E who, ar, aw : psleep(p, who, ar, aw))
    BY <1>5 DEF popenR, popenW, popenRW, popenIntr, Opened
  <2> QED BY <1>1, <1>2, <2>1, <2>2
<1>6. ASSUME NEW p \in Procs, pclose(p) PROVE Holding' \/ Halted'
  <2>1. owner = p
    BY <1>6 DEF pclose
  <2>2. (\E woken : Finish(p, woken)) \/ pc' = [q \in Procs |-> "halted"]
    BY <1>6 DEF pclose
  <2> QED BY <1>1, <2>1, <2>2 DEF Halted
<1>7. ASSUME NEW p \in Procs,
             preadNothing(p) \/ preadWait(p) \/ preadEnd(p) \/ pwriteEnd(p)
               \/ pwriteWait(p) \/ rwIntr(p)
      PROVE  Holding'
  <2>1. owner = p
    BY <1>7 DEF preadNothing, preadWait, preadEnd, pwriteEnd, pwriteWait, rwIntr, AtRead,
                AtWrite
  <2>2. (\E woken : Finish(p, woken)) \/ (\E who, ar, aw : psleep(p, who, ar, aw))
    BY <1>7 DEF preadNothing, preadWait, preadEnd, pwriteEnd, pwriteWait, rwIntr
  <2> QED BY <1>1, <1>2, <2>1, <2>2
<1>8. ASSUME NEW p \in Procs, preadCopy(p) \/ pwriteCopy(p) PROVE Holding'
  <2>1. CASE preadCopy(p) BY <2>1 DEF preadCopy, AtRead
  <2>2. CASE pwriteCopy(p) BY <2>2 DEF pwriteCopy, AtWrite, Goto
  <2> QED BY <1>8, <2>1, <2>2
<1>9. CASE UNCHANGED vars
  BY <1>9 DEF vars
<1> QED BY <1>3, <1>4, <1>5, <1>6, <1>7, <1>8, <1>9, <1>10 DEF Next

\* A process asleep in psleep () has its side's sleepers counted.
LEMMA SleeperCounted ==
  ASSUME ExactInv, NEW p \in Procs, pc[p] = "sleep"
  PROVE  /\ Chan(p) = IFWFW => psr # 0
         /\ Chan(p) = IFWFR => psw # 0
<1>1. ASSUME NEW who, Chan(p) = who PROVE Cardinality(Asleep(who)) # 0
  <2>1. p \in Asleep(who) /\ IsFiniteSet(Asleep(who))
    BY PipeAssumption, <1>1, FS_Subset DEF Asleep
  <2> QED BY <2>1, FS_EmptySet
<1> QED BY <1>1 DEF ExactInv, CountersExact

\* Who holds the gate is the only one that may be draining the pipe.
LEMMA NoOtherDrains ==
  ASSUME Holding, NEW p \in Procs, owner = p,
         op[p] # "read" \/ pc[p] \notin {"copy", "fault"}
  PROVE  ~Draining
BY DEF Holding, Draining, Inside

\* A write that has to wait finds something in the pipe.
LEMMA WaitNeedsData ==
  ASSUME RingInv, NEW p \in Procs, ioc[p] > 0, MustWait(p)
  PROVE  pnc > 0
<1>1. CASE pnc = 0
  <2>1. pwx = 0 /\ PIPE_MAX \in Nat \ {0} /\ ioc[p] \in Nat
    BY <1>1, PipeAssumption DEF RingInv, EmptyReset, RingTypes
  <2> QED BY <1>1, <2>1 DEF MustWait, WriteChunk, MinOf
<1> QED BY <1>1 DEF RingInv, RingTypes

LEMMA WritersNext == WakeInv /\ [Next]_vars => WritersWait' \/ Halted'
<1> SUFFICES ASSUME WakeInv, [Next]_vars PROVE WritersWait' \/ Halted'
  OBVIOUS
<1> USE PipeAssumption
<1>0. /\ ExactInv /\ UseInv /\ LiveTypes /\ CallFits /\ RingInv /\ RingTypes /\ Holding
      /\ WritersWait
  BY DEF WakeInv, ExactInv, UseInv, RingInv
\* Nobody starts to wait, nothing is taken.
<1>1. ASSUME pnc' >= pnc, Draining => Draining',
             \A q \in Procs : Sleeping(q, "write")' => Sleeping(q, "write")
      PROVE  WritersWait'
  <2> SUFFICES ASSUME NEW q \in Procs, Sleeping(q, "write")'
               PROVE  pnc' > 0 \/ Draining'
    BY DEF WritersWait
  <2>1. Sleeping(q, "write")
    BY <1>1
  <2>2. pnc > 0 \/ Draining
    BY <1>0, <2>1 DEF WritersWait
  <2>3. pnc > 0 => pnc' > 0
    <3>1. pnc' >= pnc /\ pnc \in Int /\ pnc' \in Int
      BY <1>0, <1>1, RingNext DEF RingInv, RingTypes
    <3> QED BY <3>1
  <2> QED BY <1>1, <2>2, <2>3
<1>2. ASSUME NEW p \in Procs, NEW woken, Finish(p, woken), UNCHANGED pnc, owner = p,
             op[p] # "read" \/ pc[p] \notin {"copy", "fault"}
      PROVE  WritersWait'
  <2>1. ~Draining
    BY <1>0, <1>2, NoOtherDrains
  <2>2. \A q \in Procs : Sleeping(q, "write")' => Sleeping(q, "write")
    BY <1>0, <1>2 DEF Finish, Goto, LiveTypes, Sleeping
  <2>3. pnc' >= pnc
    BY <1>0, <1>2 DEF RingTypes
  <2> QED BY <1>1, <2>1, <2>2, <2>3
<1>3. ASSUME NEW p \in Procs, NEW who, NEW ar, NEW aw, psleep(p, who, ar, aw), owner = p,
             UNCHANGED <<pnc, op>>, op[p] = "write" => pnc > 0, pc[p] \in {"start", "again"}
      PROVE  WritersWait'
  <2>1. ~Draining
    BY <1>0, <1>3, NoOtherDrains
  <2>2. \A q \in Procs : Sleeping(q, "write")' => Sleeping(q, "write") \/ (q = p /\ pnc > 0)
    BY <1>0, <1>3 DEF psleep, LiveTypes, Sleeping
  <2> QED BY <1>0, <1>3, <2>1, <2>2 DEF WritersWait
<1>4. ASSUME NEW p \in Procs, Resume(p) \/ ILock(p) \/ Poll(p) \/ Signal(p)
      PROVE  WritersWait'
  <2>1. pnc' >= pnc
    BY <1>0, <1>4 DEF RingTypes, Resume, ILock, Poll, Signal, data
  <2>2. Draining => Draining'
    BY <1>0, <1>4 DEF LiveTypes, CallFits, Draining, Resume, ILock, Poll, Signal, call
  <2>3. \A q \in Procs : Sleeping(q, "write")' => Sleeping(q, "write")
    BY <1>0, <1>4 DEF LiveTypes, Sleeping, Resume, ILock, Poll, Signal, call
  <2> QED BY <1>1, <2>1, <2>2, <2>3
<1>5. ASSUME NEW p \in Procs, NEW o, NEW f, NEW fl, NEW n, Begin(p, o, f, fl, n)
      PROVE  WritersWait'
  <2>1. pnc' >= pnc
    BY <1>0, <1>5 DEF RingTypes, Begin, data
  <2>2. Draining => Draining'
    BY <1>0, <1>5 DEF LiveTypes, Draining, Begin
  <2>3. \A q \in Procs : Sleeping(q, "write")' => Sleeping(q, "write")
    BY <1>0, <1>5 DEF LiveTypes, Sleeping, Begin
  <2> QED BY <1>1, <2>1, <2>2, <2>3
<1>6. ASSUME UNCHANGED <<pnc, pc, op>> PROVE WritersWait'
  BY <1>0, <1>6 DEF WritersWait, Draining, Sleeping
<1>7. ASSUME NEW p \in Procs, NEW f \in Files,
             \/ \E fl \in Flags :
                  \/ OpenCall(p, f, fl)
                  \/ \E n \in Sizes : ReadCall(p, f, fl, n) \/ WriteCall(p, f, fl, n)
             \/ CloseLast(p, f)
      PROVE  WritersWait'
  <2>1. \E o, fl, n : Begin(p, o, f, fl, n)
    BY <1>7 DEF OpenCall, ReadCall, WriteCall, CloseLast
  <2> QED BY <1>5, <2>1
<1>8. ASSUME NEW p, NEW q, CloseShared(p, q) \/ Fork(p, q) PROVE WritersWait'
  BY <1>6, <1>8 DEF CloseShared, Fork, data, call
<1>9. ASSUME NEW p \in Procs, popenR(p) \/ popenW(p) \/ popenRW(p) \/ popenIntr(p)
      PROVE  WritersWait'
  <2>1. owner = p
    BY <1>0, <1>9 DEF Holding, Inside, popenR, popenW, popenRW, popenIntr
  <2>2. op[p] = "open" /\ UNCHANGED pnc
    BY <1>9 DEF popenR, popenW, popenRW, popenIntr, Opened, data
  <2>3. \/ \E woken : Finish(p, woken)
        \/ /\ \E who, ar, aw : psleep(p, who, ar, aw)
           /\ op' = op /\ pc[p] \in {"start", "again"}
    BY <1>9 DEF popenR, popenW, popenRW, popenIntr, Opened, call
  <2> QED BY <1>2, <1>3, <2>1, <2>2, <2>3
\* pclose () wakes both sides before it counts down.
<1>10. ASSUME NEW p \in Procs, pclose(p) PROVE WritersWait' \/ Halted'
  <2>1. CASE pc' = [q \in Procs |-> "halted"]
    BY <2>1 DEF WritersWait, Sleeping
  <2>2. CASE pc' # [q \in Procs |-> "halted"]
    <3>1. PICK woken : Finish(p, woken) /\ pwakeR(pnc, par, psr, psw) \subseteq woken
      BY <1>10, <2>2 DEF pclose
    <3>2. ASSUME NEW q \in Procs, Sleeping(q, "write")' PROVE FALSE
      <4>1. pc[q] = "sleep" /\ op[q] = "write" /\ Chan(q) \notin woken
        BY <1>0, <3>1, <3>2 DEF Finish, Goto, LiveTypes, Sleeping
      <4>2. Chan(q) = IFWFR /\ psw # 0
        BY <1>0, <4>1, SleeperCounted DEF Chan
      <4> QED BY <3>1, <4>1, <4>2 DEF pwakeR
    <3> QED BY <3>2 DEF WritersWait
  <2> QED BY <2>1, <2>2
<1>11. ASSUME NEW p \in Procs, preadNothing(p) \/ pwriteEnd(p) \/ rwIntr(p)
       PROVE  WritersWait'
  <2>1. owner = p /\ UNCHANGED pnc /\ \E woken : Finish(p, woken)
    BY <1>0, <1>11 DEF Holding, Inside, preadNothing, pwriteEnd, rwIntr, AtRead, AtWrite, data
  <2>2. op[p] # "read" \/ pc[p] \notin {"copy", "fault"}
    BY <1>11 DEF preadNothing, pwriteEnd, rwIntr, AtRead, AtWrite
  <2> QED BY <1>2, <2>1, <2>2
<1>12. ASSUME NEW p \in Procs, preadWait(p) \/ pwriteWait(p) PROVE WritersWait'
  <2>1. /\ owner = p /\ UNCHANGED <<pnc, op>> /\ pc[p] \in {"start", "again"}
        /\ \E who, ar, aw : psleep(p, who, ar, aw)
    BY <1>0, <1>12 DEF Holding, Inside, preadWait, pwriteWait, AtRead, AtWrite, data, call
  <2>2. op[p] = "write" => pnc > 0
    BY <1>0, <1>12, WaitNeedsData DEF preadWait, pwriteWait, AtRead, AtWrite
  <2> QED BY <1>3, <2>1, <2>2
<1>13. ASSUME NEW p \in Procs, preadCopy(p) PROVE WritersWait'
  <2>1. op'[p] = "read" /\ pc'[p] \in {"copy", "fault"}
    BY <1>0, <1>13 DEF LiveTypes, preadCopy, AtRead
  <2> QED BY <2>1 DEF WritersWait, Draining
<1>14. ASSUME NEW p \in Procs, pwriteCopy(p) PROVE WritersWait'
  <2>1. owner = p /\ op[p] # "read"
    BY <1>0, <1>14 DEF Holding, Inside, pwriteCopy, AtWrite
  <2>2. ~Draining
    BY <1>0, <2>1, NoOtherDrains
  <2>3. pnc' >= pnc
    BY <1>0, <1>14 DEF RingTypes, pwriteCopy, Moved, WriteChunk, MinOf
  <2>4. \A q \in Procs : Sleeping(q, "write")' => Sleeping(q, "write")
    BY <1>0, <1>14 DEF LiveTypes, pwriteCopy, Goto, Sleeping
  <2> QED BY <1>1, <2>2, <2>3, <2>4
\* Who took the last character wakes the writers.
<1>15. ASSUME NEW p \in Procs, preadEnd(p) PROVE WritersWait'
  <2> SUFFICES ASSUME NEW q \in Procs, Sleeping(q, "write")' PROVE pnc' > 0
    BY DEF WritersWait
  <2>1. UNCHANGED pnc
        /\ Finish(p, IF pnc < PIPE_MAX THEN pwakeR(pnc, par, psr, psw) ELSE {})
    BY <1>15 DEF preadEnd, data
  <2>2. CASE pnc < PIPE_MAX
    <3>1. pc[q] = "sleep" /\ op[q] = "write" /\ Chan(q) \notin pwakeR(pnc, par, psr, psw)
      BY <1>0, <2>1, <2>2 DEF Finish, Goto, LiveTypes, Sleeping
    <3>2. Chan(q) = IFWFR /\ psw # 0
      BY <1>0, <3>1, SleeperCounted DEF Chan
    <3> QED BY <3>1, <3>2 DEF pwakeR
  <2> QED BY <1>0, <2>1, <2>2 DEF RingTypes
<1>16. CASE UNCHANGED vars
  BY <1>6, <1>16 DEF vars
<1> QED
  BY <1>4, <1>7, <1>8, <1>9, <1>10, <1>11, <1>12, <1>13, <1>14, <1>15, <1>16 DEF Next

LEMMA WakeNext == WakeInv /\ [Next]_vars => WakeInv' \/ Halted'
BY UseNext, ExactNext, RingNext, HoldingNext, WritersNext DEF WakeInv, ExactInv

(***************************************************************************)
(* Readers and writers never wait for each other, whatever the capacity,   *)
(* the sizes, the signals and the faults: a writer sleeps only while there *)
(* is something in the pipe, or a reader inside it is bound to wake it.    *)
(***************************************************************************)
THEOREM PipeNoDeadlock == Spec => []NoReaderWriterDeadlock
<1>1. WakeInv => NoReaderWriterDeadlock
  BY PipeAssumption
     DEF WakeInv, Holding, Inside, WritersWait, Sleeping, Draining, NoReaderWriterDeadlock
<1>2. Halted => NoReaderWriterDeadlock
  BY DEF Halted, NoReaderWriterDeadlock
<1>3. (WakeInv \/ Halted) /\ [Next]_vars => (WakeInv \/ Halted)'
  BY WakeNext, HaltedNext
<1> QED BY <1>1, <1>2, <1>3, WakeInit, PTL DEF Spec

----
\* What a process sleeps for in psleep () or in poll ().
Reason(p) ==
  /\ op[p] \in {"read", "pollin"} => pnc = 0 /\ InUse(Writable) # {}
  /\ op[p] = "write" => InUse(Readable) # {}
  /\ op[p] = "pollout" => (pnc = PIPE_MAX \/ Draining) /\ InUse(Readable) # {}
  /\ op[p] = "open" => InUse(IF Mode[file[p]] = "r" THEN Writable ELSE Readable) = {}

Waiting == \A p \in Procs : pc[p] = "sleep" => Reason(p)

\* No open () of a FIFO gives up because of a signal.
NoOpenInterrupted == \A p \in Procs : ~popenIntr(p)

\* A call that ends wakes the sleepers of some channels and moves no others.
LEMMA StillAsleep ==
  ASSUME UseInv, NEW p \in Procs, NEW woken, Finish(p, woken),
         NEW q \in Procs, pc'[q] = "sleep"
  PROVE  q # p /\ pc[q] = "sleep" /\ Chan(q) \notin woken
         /\ op'[q] = op[q] /\ file'[q] = file[q]
BY DEF UseInv, LiveTypes, Finish, Goto

\* An entry put to use, or one that stays in use.
LEMMA MoreUse ==
  ASSUME UseInv, NEW f \in Files, NEW st \in {"opening", "open"},
         entry' = [entry EXCEPT ![f] = st], NEW S
  PROVE  InUse(S) \subseteq InUse(S)' /\ (f \notin S => InUse(S)' = InUse(S))
BY DEF UseInv, LiveTypes, InUse

LEMMA WaitingNext ==
  WakeInv /\ Waiting /\ [Next]_vars /\ [NoOpenInterrupted]_vars => Waiting' \/ Halted'
<1> SUFFICES ASSUME WakeInv, Waiting, [Next]_vars, [NoOpenInterrupted]_vars, ~Halted'
             PROVE  Waiting'
  OBVIOUS
<1> USE PipeAssumption
<1>0. /\ ExactInv /\ UseInv /\ LiveTypes /\ CallFits /\ RingInv /\ RingTypes /\ Holding
      /\ TestsExact
  BY TestsFollow DEF WakeInv, ExactInv, UseInv, RingInv
<1>1. ExactInv' /\ TestsExact'
  <2>1. ExactInv'
    BY WakeNext DEF WakeInv
  <2> QED BY <2>1, TestsFollow, PTL
\* Steps that keep every reason to sleep.
<1>2. ASSUME UNCHANGED <<pnc, entry>>, Draining => Draining',
             \A q \in Procs : pc'[q] = "sleep" =>
               (pc[q] = "sleep" /\ op'[q] = op[q] /\ file'[q] = file[q]) \/ Reason(q)'
      PROVE  Waiting'
  BY <1>2 DEF Waiting, Reason, InUse
<1>3. ASSUME NEW p \in Procs, NEW woken, Finish(p, woken), UNCHANGED <<pnc, entry>>,
             owner = p, op[p] # "read" \/ pc[p] \notin {"copy", "fault"}
      PROVE  Waiting'
  BY <1>0, <1>2, <1>3, NoOtherDrains, StillAsleep
<1>4. ASSUME NEW p \in Procs, Resume(p) \/ ILock(p) \/ Signal(p) PROVE Waiting'
  <2>1. UNCHANGED <<pnc, entry, op, file>>
    BY <1>4 DEF Resume, ILock, Signal, data, call
  <2>2. Draining => Draining'
    BY <1>0, <1>4 DEF LiveTypes, CallFits, Draining, Resume, ILock, Signal, call
  <2>3. \A q \in Procs : pc'[q] = "sleep" => pc[q] = "sleep"
    BY <1>0, <1>4 DEF LiveTypes, Resume, ILock, Signal
  <2> QED BY <1>2, <2>1, <2>2, <2>3
<1>5. ASSUME NEW p \in Procs, NEW o, NEW f, NEW fl, NEW n, Begin(p, o, f, fl, n)
      PROVE  Waiting'
  <2>1. UNCHANGED <<pnc, entry>> /\ (Draining => Draining')
    BY <1>0, <1>5 DEF LiveTypes, Draining, Begin, data
  <2>2. \A q \in Procs : pc'[q] = "sleep" =>
          pc[q] = "sleep" /\ op'[q] = op[q] /\ file'[q] = file[q]
    BY <1>0, <1>5 DEF LiveTypes, Begin
  <2> QED BY <1>2, <2>1, <2>2
<1>6. ASSUME UNCHANGED <<pnc, entry, pc, op, file>> PROVE Waiting'
  BY <1>2, <1>6 DEF Draining
<1>7. ASSUME NEW p \in Procs, NEW f \in Files,
             \/ \E fl \in Flags :
                  \/ OpenCall(p, f, fl)
                  \/ \E n \in Sizes : ReadCall(p, f, fl, n) \/ WriteCall(p, f, fl, n)
             \/ CloseLast(p, f)
      PROVE  Waiting'
  <2>1. \E o, fl, n : Begin(p, o, f, fl, n)
    BY <1>7 DEF OpenCall, ReadCall, WriteCall, CloseLast
  <2> QED BY <1>5, <2>1
<1>8. ASSUME NEW p, NEW q, CloseShared(p, q) \/ Fork(p, q) PROVE Waiting'
  BY <1>6, <1>8 DEF CloseShared, Fork, data, call
\* poll () tests without the gate and goes to sleep in the same step.
<1>9. ASSUME NEW p \in Procs, Poll(p) PROVE Waiting'
  <2>1. UNCHANGED <<pnc, entry>> /\ (Draining => Draining')
    BY <1>0, <1>9 DEF LiveTypes, CallFits, Draining, Poll, data
  <2>2. ASSUME NEW q \in Procs, q # p, pc'[q] = "sleep"
        PROVE  pc[q] = "sleep" /\ op'[q] = op[q] /\ file'[q] = file[q]
    BY <1>0, <1>9, <2>2 DEF LiveTypes, Poll
  <2>3. ASSUME pc'[p] = "sleep" PROVE Reason(p)'
    <3>1. \/ op'[p] = "pollin" /\ ~ppollIn
          \/ op'[p] = "pollout" /\ ~ppollOut
      BY <1>0, <1>9, <2>3 DEF LiveTypes, Poll
    <3>2. /\ ~ppollIn => pnc = 0 /\ InUse(Writable) # {}
          /\ ~ppollOut => pnc = PIPE_MAX /\ InUse(Readable) # {}
      BY <1>0 DEF RingTypes, TestsExact, ppollIn, ppollOut
    <3> QED BY <2>1, <3>1, <3>2 DEF Reason, InUse
  <2> QED BY <1>2, <2>1, <2>2, <2>3
<1>10. ASSUME NEW p \in Procs, preadNothing(p) \/ pwriteEnd(p) \/ rwIntr(p)
       PROVE  Waiting'
  <2>1. owner = p /\ UNCHANGED <<pnc, entry>> /\ \E woken : Finish(p, woken)
    BY <1>0, <1>10 DEF Holding, Inside, preadNothing, pwriteEnd, rwIntr, AtRead, AtWrite, data
  <2>2. op[p] # "read" \/ pc[p] \notin {"copy", "fault"}
    BY <1>10 DEF preadNothing, pwriteEnd, rwIntr, AtRead, AtWrite
  <2> QED BY <1>3, <2>1, <2>2
<1>11. ASSUME NEW p \in Procs, preadWait(p) \/ pwriteWait(p) PROVE Waiting'
  <2>1. /\ owner = p /\ UNCHANGED <<pnc, entry, op, file>> /\ pc[p] \in {"start", "again"}
        /\ \E who, ar, aw : psleep(p, who, ar, aw)
    BY <1>0, <1>11 DEF Holding, Inside, preadWait, pwriteWait, AtRead, AtWrite, data, call
  <2>2. ~Draining
    BY <1>0, <2>1, NoOtherDrains
  <2>3. \A q \in Procs : pc'[q] = "sleep" => q = p \/ pc[q] = "sleep"
    BY <1>0, <2>1 DEF LiveTypes, psleep
  <2>4. \/ op[p] = "read" /\ pnc = 0 /\ InUse(Writable) # {}
        \/ op[p] = "write" /\ InUse(Readable) # {}
    BY <1>0, <1>11 DEF preadWait, pwriteWait, AtRead, AtWrite, TestsExact, NoWriters
  <2>5. Reason(p)'
    BY <2>1, <2>4 DEF Reason, InUse
  <2> QED BY <1>2, <2>1, <2>2, <2>3, <2>5
<1>12. ASSUME NEW p \in Procs, preadCopy(p) PROVE Waiting'
  <2>1. /\ op'[p] = "read" /\ pc'[p] \in {"copy", "fault"} /\ pnc > 0
        /\ UNCHANGED <<entry, op, file>>
    BY <1>0, <1>12 DEF LiveTypes, preadCopy, AtRead
  <2>2. \A q \in Procs : pc'[q] = "sleep" => pc[q] = "sleep"
    BY <1>0, <1>12 DEF LiveTypes, preadCopy
  <2>3. Draining' /\ pnc # 0
    BY <2>1 DEF Draining
  <2> QED BY <2>1, <2>2, <2>3 DEF Waiting, Reason, InUse
<1>13. ASSUME NEW p \in Procs, pwriteCopy(p) PROVE Waiting'
  <2>1. owner = p /\ op[p] = "write" /\ UNCHANGED <<entry, op, file>> /\ ~MustWait(p)
    BY <1>0, <1>13 DEF Holding, Inside, pwriteCopy, AtWrite
  <2>2. ~Draining
    BY <1>0, <2>1, NoOtherDrains
  <2>3. pnc # PIPE_MAX
    BY <1>0, <2>1 DEF RingTypes, MustWait, WriteChunk, MinOf
  <2>4. PICK m \in Nat :
          /\ pnc' = pnc + m
          /\ \E at \in {"fault", "again"} :
               Goto(p, at, IF pnc + m > 0 THEN pwakeW(pnc + m, paw, psr, psw) ELSE {})
    BY <1>0, <1>13 DEF RingTypes, pwriteCopy, Moved, WriteChunk, MinOf
  <2> SUFFICES ASSUME NEW q \in Procs, pc'[q] = "sleep" PROVE Reason(q)'
    BY DEF Waiting
  <2>5. /\ pc[q] = "sleep"
        /\ pnc + m > 0 => Chan(q) \notin pwakeW(pnc + m, paw, psr, psw)
    BY <1>0, <2>4 DEF Goto, LiveTypes
  <2>6. Reason(q)
    BY <2>5 DEF Waiting
  <2>7. CASE op[q] \in {"read", "pollin"}
    <3>1. pnc = 0 /\ InUse(Writable) # {}
      BY <2>6, <2>7 DEF Reason
    <3>2. m = 0
      <4>1. CASE op[q] = "read"
        <5>1. Chan(q) = IFWFW /\ psr # 0
          BY <1>0, <2>5, <4>1, SleeperCounted DEF Chan
        <5> QED BY <2>5, <3>1, <5>1 DEF pwakeW
      <4>2. CASE op[q] = "pollin"
        BY <2>5, <3>1, <4>2 DEF Chan, pwakeW
      <4> QED BY <2>7, <4>1, <4>2
    <3> QED BY <2>1, <2>4, <2>7, <3>1, <3>2 DEF Reason, InUse
  <2>8. CASE op[q] \notin {"read", "pollin"}
    BY <2>1, <2>2, <2>3, <2>6, <2>8 DEF Reason, InUse
  <2> QED BY <2>7, <2>8
\* Who made room tells those who poll for it.
<1>14. ASSUME NEW p \in Procs, preadEnd(p) PROVE Waiting'
  <2>1. /\ UNCHANGED <<pnc, entry>>
        /\ Finish(p, IF pnc < PIPE_MAX THEN pwakeR(pnc, par, psr, psw) ELSE {})
    BY <1>14 DEF preadEnd, data
  <2> SUFFICES ASSUME NEW q \in Procs, pc'[q] = "sleep" PROVE Reason(q)'
    BY DEF Waiting
  <2>2. /\ pc[q] = "sleep" /\ op'[q] = op[q] /\ file'[q] = file[q]
        /\ pnc < PIPE_MAX => Chan(q) \notin pwakeR(pnc, par, psr, psw)
    BY <1>0, <2>1, StillAsleep
  <2>3. Reason(q)
    BY <2>2 DEF Waiting
  <2>4. op[q] = "pollout" => pnc = PIPE_MAX
    <3>1. CASE op[q] = "pollout" /\ pnc < PIPE_MAX
      <4>1. InUse(Readable) # {} /\ Chan(q) = OEV
        BY <2>3, <3>1 DEF Reason, Chan
      <4>2. par # 0 \/ psr # 0
        BY <1>0, <4>1 DEF TestsExact, NoReaders
      <4> QED BY <2>2, <3>1, <4>1, <4>2 DEF pwakeR
    <3> QED BY <1>0, <3>1 DEF RingTypes
  <2> QED BY <2>1, <2>2, <2>3, <2>4 DEF Reason, InUse
<1>15. CASE UNCHANGED vars
  BY <1>6, <1>15 DEF vars
\* An open () wakes those who wait for its side, and is not one of them.
<1>16. ASSUME NEW p \in Procs, popenR(p) \/ popenW(p) \/ popenRW(p) PROVE Waiting'
  <2>1. /\ owner = p /\ UNCHANGED pnc /\ op[p] = "open" /\ file[p] \in Files
        /\ pc[p] \in {"start", "again"}
    BY <1>0, <1>16 DEF Holding, Inside, CallFits, popenR, popenW, popenRW, Opened, data
  <2>2. ~Draining
    BY <1>0, <2>1, NoOtherDrains
  \* The sleepers that remain, when p puts its entry to use.
  <2>3. ASSUME NEW q \in Procs, pc[q] = "sleep", op'[q] = op[q], file'[q] = file[q],
               NEW st \in {"opening", "open"}, SetEntry(p, st),
               file[p] \in Readable => Chan(q) # IFWFR,
               file[p] \in Writable => Chan(q) # IFWFW
        PROVE  Reason(q)'
    <3>1. Reason(q) /\ entry' = [entry EXCEPT ![file[p]] = st]
      BY <2>3 DEF Waiting, SetEntry
    <3>2. \A S : /\ InUse(S) \subseteq InUse(S)'
                 /\ file[p] \notin S => InUse(S)' = InUse(S)
      BY <1>0, <2>1, <3>1, MoreUse
    <3>3. CASE op[q] = "open"
      <4>1. Mode[file[q]] \in {"r", "w"}
        BY <1>0, <2>3, <3>3 DEF CallFits
      <4>2. Chan(q) = IF Mode[file[q]] = "r" THEN IFWFW ELSE IFWFR
        BY <3>3, <4>1 DEF Chan
      <4> QED BY <2>3, <3>1, <3>2, <3>3, <4>1, <4>2 DEF Reason
    <3>4. CASE op[q] # "open"
      BY <2>1, <2>2, <2>3, <3>1, <3>2, <3>4 DEF Reason
    <3> QED BY <3>3, <3>4
  <2>4. ASSUME NEW woken, Opened(p, woken),
               file[p] \in Readable => psw = 0 \/ IFWFR \in woken,
               file[p] \in Writable => psr = 0 \/ IFWFW \in woken
        PROVE  Waiting'
    <3> SUFFICES ASSUME NEW q \in Procs, pc'[q] = "sleep" PROVE Reason(q)'
      BY DEF Waiting
    <3>1. /\ pc[q] = "sleep" /\ op'[q] = op[q] /\ file'[q] = file[q]
          /\ Chan(q) \notin woken
      BY <1>0, <2>4, StillAsleep DEF Opened
    <3>2. /\ Chan(q) = IFWFW => psr # 0
          /\ Chan(q) = IFWFR => psw # 0
      BY <1>0, <3>1, SleeperCounted
    <3> QED BY <2>3, <2>4, <3>1, <3>2 DEF Opened
  <2>5. ASSUME NEW who, NEW ar, NEW aw, psleep(p, who, ar, aw), SetEntry(p, "opening"),
               UNCHANGED <<op, file>>,
               file[p] \in Readable => psw = 0, file[p] \in Writable => psr = 0,
               Reason(p)'
        PROVE  Waiting'
    <3> SUFFICES ASSUME NEW q \in Procs, pc'[q] = "sleep" PROVE Reason(q)'
      BY DEF Waiting
    <3>1. q = p \/ pc[q] = "sleep"
      BY <1>0, <2>5 DEF psleep, LiveTypes
    <3>2. pc[q] = "sleep" => /\ Chan(q) = IFWFW => psr # 0
                             /\ Chan(q) = IFWFR => psw # 0
      BY <1>0, SleeperCounted
    <3> QED BY <2>3, <2>5, <3>1, <3>2
  <2>6. CASE popenR(p)
    <3>1. Mode[file[p]] = "r" /\ file[p] \notin Writable
      BY <2>6 DEF popenR, Writable
    <3>2. CASE Opened(p, pwakeR(pnc, NewPar(p), psr, psw))
      BY <2>4, <3>1, <3>2 DEF pwakeR
    <3>3. CASE /\ paw = 0 /\ psw = 0 /\ psleep(p, IFWFW, NewPar(p), paw)
               /\ SetEntry(p, "opening") /\ UNCHANGED call
      <4>1. entry' = [entry EXCEPT ![file[p]] = "opening"]
        BY <3>3 DEF SetEntry
      <4>2. InUse(Writable)' = InUse(Writable)
        BY <1>0, <2>1, <3>1, <4>1, MoreUse
      <4>3. InUse(Writable)' = {}
        BY <1>0, <3>3, <4>2 DEF TestsExact, NoWriters
      <4>4. Reason(p)'
        BY <2>1, <3>1, <3>3, <4>3 DEF Reason, call
      <4> QED BY <2>5, <3>1, <3>3, <4>4 DEF call
    <3> QED BY <2>6, <3>2, <3>3 DEF popenR
  <2>7. CASE popenW(p)
    <3>1. Mode[file[p]] = "w" /\ file[p] \notin Readable
      BY <2>7 DEF popenW, Readable
    <3>2. CASE Opened(p, pwakeW(pnc, NewPaw(p), psr, psw))
      BY <2>4, <3>1, <3>2 DEF pwakeW
    <3>3. CASE /\ par = 0 /\ psr = 0 /\ psleep(p, IFWFR, par, NewPaw(p))
               /\ SetEntry(p, "opening") /\ UNCHANGED call
      <4>1. entry' = [entry EXCEPT ![file[p]] = "opening"]
        BY <3>3 DEF SetEntry
      <4>2. InUse(Readable)' = InUse(Readable)
        BY <1>0, <2>1, <3>1, <4>1, MoreUse
      <4>3. InUse(Readable)' = {}
        BY <1>0, <3>3, <4>2 DEF TestsExact, NoReaders
      <4>4. Reason(p)'
        BY <2>1, <3>1, <3>3, <4>3 DEF Reason, call
      <4> QED BY <2>5, <3>1, <3>3, <4>4 DEF call
    <3>4. CASE Finish(p, {}) /\ UNCHANGED entry
      BY <1>3, <2>1, <3>4
    <3> QED BY <2>7, <3>2, <3>3, <3>4 DEF popenW
  <2>8. CASE popenRW(p)
    BY <2>4, <2>8 DEF popenRW, pwakeR, pwakeW
  <2> QED BY <1>16, <2>6, <2>7, <2>8
\* The last close () of a side tells those who poll for the other one.
<1>17. ASSUME NEW p \in Procs, pclose(p) PROVE Waiting'
  <2> DEFINE r == file[p] \in Readable
             w == file[p] \in Writable
             ar == IF r THEN par - 1 ELSE par
             aw == IF w THEN paw - 1 ELSE paw
             woken == pwakeR(pnc, par, psr, psw) \cup pwakeW(pnc, paw, psr, psw)
                        \cup (IF r /\ ar = 0 /\ psr = 0 THEN {OEV} ELSE {})
                        \cup (IF w /\ aw = 0 /\ psw = 0 THEN {IEV} ELSE {})
             gone == aw = 0 /\ psw = 0 /\ ar = 0 /\ psr = 0
  <2>1. /\ owner = p /\ op[p] = "close" /\ file[p] \in Files
        /\ par' = ar /\ paw' = aw /\ psr' = psr /\ psw' = psw
        /\ IF gone THEN pnc' = 0 ELSE pnc' = pnc
    BY <1>0, <1>17 DEF Holding, Inside, CallFits, pclose
  <2>2. Finish(p, woken) /\ SetEntry(p, "free")
    BY <1>17 DEF pclose, Halted
  <2>3. ~Draining
    BY <1>0, <2>1, NoOtherDrains
  <2> SUFFICES ASSUME NEW q \in Procs, pc'[q] = "sleep" PROVE Reason(q)'
    BY DEF Waiting
  <2>4. /\ pc[q] = "sleep" /\ op'[q] = op[q] /\ file'[q] = file[q]
        /\ Chan(q) \notin woken
    BY <1>0, <2>2, StillAsleep
  <2>5. Reason(q)
    BY <2>4 DEF Waiting
  <2>6. Chan(q) \notin {IFWFW, IFWFR}
    <3>1. /\ Chan(q) = IFWFW => psr # 0
          /\ Chan(q) = IFWFR => psw # 0
      BY <1>0, <2>4, SleeperCounted
    <3> QED BY <2>4, <3>1 DEF pwakeR, pwakeW
  <2>7. op[q] \in {"pollin", "pollout"}
    BY <1>0, <2>6 DEF Chan, IFWFW, IFWFR, LiveTypes
  <2>8. \A S : file[p] \notin S => InUse(S)' = InUse(S)
    BY <1>0, <2>1, <2>2 DEF SetEntry, InUse, LiveTypes
  <2>9. CASE op[q] = "pollin"
    <3>1. pnc' = 0 /\ InUse(Writable) # {} /\ IEV \notin woken
      BY <2>1, <2>4, <2>5, <2>9 DEF Reason, Chan
    <3>2. CASE ~w
      BY <2>4, <2>8, <2>9, <3>1, <3>2 DEF Reason
    <3>3. CASE w
      <4>1. ~(paw' = 0 /\ psw' = 0)
        BY <2>1, <3>1, <3>3
      <4>2. InUse(Writable)' # {}
        BY <1>1, <4>1 DEF TestsExact, NoWriters
      <4> QED BY <2>4, <2>9, <3>1, <4>2 DEF Reason
    <3> QED BY <3>2, <3>3
  <2>10. CASE op[q] = "pollout"
    <3>1. pnc = PIPE_MAX /\ InUse(Readable) # {} /\ OEV \notin woken
      BY <2>3, <2>4, <2>5, <2>10 DEF Reason, Chan
    <3>2. ~(ar = 0 /\ psr = 0)
      BY <1>0, <3>1 DEF TestsExact, NoReaders
    <3>3. InUse(Readable)' # {} /\ pnc' = pnc
      BY <1>1, <2>1, <3>2 DEF TestsExact, NoReaders
    <3> QED BY <2>4, <2>10, <3>1, <3>3 DEF Reason
  <2> QED BY <2>7, <2>9, <2>10
<1>18. ASSUME NEW p \in Procs, popenIntr(p) PROVE Waiting'
  BY <1>6, <1>18 DEF NoOpenInterrupted, vars
<1> QED
  BY <1>4, <1>7, <1>8, <1>9, <1>10, <1>11, <1>12, <1>13, <1>14, <1>15, <1>16, <1>17,
     <1>18 DEF Next

(***************************************************************************)
(* No wakeup is lost, whatever the capacity, the faults and the signals    *)
(* that interrupt reads and writes, as long as no open () of a FIFO is     *)
(* interrupted: popen then takes back what it counted and wakes nobody.    *)
(***************************************************************************)
THEOREM PipeNoLostWakeup ==
  Spec /\ [][NoOpenInterrupted]_vars => []NoLostWakeup
<1>1. Init => Waiting
  BY DEF Init, Waiting
<1>2. WakeInv /\ Waiting => NoLostWakeup
  <2> SUFFICES ASSUME WakeInv, Waiting, owner = NoProc, NEW p \in Procs, pc[p] = "sleep"
               PROVE  Blocked(p)
    BY DEF NoLostWakeup
  <2>1. UseInv /\ LiveTypes /\ CallFits /\ TestsExact /\ Reason(p) /\ WritersWait
    BY TestsFollow DEF WakeInv, ExactInv, UseInv, Waiting
  <2>2. ~Draining
    BY PipeAssumption DEF WakeInv, Holding, Inside, Draining
  <2>3. op[p] \in {"open", "read", "write", "pollin", "pollout"}
    BY <2>1 DEF LiveTypes, CallFits
  <2>4. op[p] = "open" => Mode[file[p]] \in {"r", "w"}
    BY <2>1, PipeAssumption DEF CallFits
  <2>5. /\ NoReaders <=> InUse(Readable) = {}
        /\ NoWriters <=> InUse(Writable) = {}
        /\ op[p] = "write" => pnc > 0
        /\ PIPE_MAX \in Nat \ {0}
    BY <2>1, <2>2, PipeAssumption DEF TestsExact, WritersWait, Sleeping
  <2>6. CASE op[p] \in {"read", "write", "open"}
    BY <2>1, <2>4, <2>5, <2>6 DEF Blocked, Reason
  <2>7. CASE op[p] = "pollin"
    <3>1. pnc = 0 /\ ~NoWriters
      BY <2>1, <2>5, <2>7 DEF Reason
    <3>2. ~ppollIn
      BY <3>1 DEF ppollIn
    <3> QED BY <2>7, <3>2 DEF Blocked
  <2>8. CASE op[p] = "pollout"
    <3>1. ~(pnc < PIPE_MAX) /\ ~NoReaders
      BY <2>1, <2>2, <2>5, <2>8 DEF Reason
    <3>2. ~ppollOut
      BY <3>1 DEF ppollOut
    <3> QED BY <2>8, <3>2 DEF Blocked
  <2> QED BY <2>3, <2>6, <2>7, <2>8
<1>3. Halted => NoLostWakeup
  BY DEF Halted, NoLostWakeup
<1>4. /\ (WakeInv /\ Waiting) \/ Halted
      /\ [Next]_vars /\ [NoOpenInterrupted]_vars
      => ((WakeInv /\ Waiting) \/ Halted)'
  BY WakeNext, WaitingNext, HaltedNext
<1> QED BY <1>1, <1>2, <1>3, <1>4, WakeInit, PTL DEF Spec
====
