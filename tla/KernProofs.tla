---- MODULE KernProofs ----
(***************************************************************************)
(* Proofs about the parts of the run kern.  Processes keep living parents, *)
(* stopped processes do not outlive their debuggers, and whoever waits for *)
(* a child in wait () or ptrace () is told, for any number of processes.   *)
(* The chain of free blocks is exact and implements a set, for any file    *)
(* system.  The reference counts of inodes are exact, for any number of    *)
(* inodes, slots and processes; and so are their links and the count of    *)
(* free ones, as long as no inode is in memory twice.                      *)
(***************************************************************************)
EXTENDS Process, Inode, FreeList, SumProofs

\* p has not exited.
Alive(p) == p_state[p] \in {"PSRUN", "PSSLSIG"}

PrTypes ==
  /\ p_state \in [PrProcs -> {"none", "PSRUN", "PSSLSIG", "PSDEAD"}]
  /\ p_ppid \in [PrProcs -> PrProcs \cup {PrNone}]
  /\ p_flags \in [PrProcs -> SUBSET {"PFTRAC", "PFWAIT", "PFSTOP"}]
  /\ p_pending \in [PrProcs -> SUBSET {"SIGTERM", "SIGCHLD"}]
  /\ prPc \in [PrProcs -> {"user", "wait", "exit", "ptgate", "ptset", "ptret"}]
  /\ pt \in [busy : BOOLEAN, pid : PrProcs \cup {PrNone},
             req : Requests \cup {"none"}, gate : PrProcs \cup {PrNone}]
  /\ prAsk \in [PrProcs -> {<<>>} \cup (PrProcs \X Requests)]

\* What the code asks of a transaction in pts and of the call that makes it.
PtsFilled ==
  /\ pt.busy => pt.req \in Requests
  /\ \A p \in PrProcs : prPc[p] = "ptgate" => prAsk[p] \in PrProcs \X Requests

\* Process 1 cannot be made to exit or to stop.
RootLives ==
  /\ Alive(PrRoot)
  /\ prPc[PrRoot] \notin {"exit", "ptret"}
  /\ "SIGTERM" \notin p_pending[PrRoot]
  /\ "PFTRAC" \notin p_flags[PrRoot]

\* Nobody is its own parent, and process 1 has none.
NoOwnParent ==
  /\ p_ppid[PrRoot] = PrNone
  /\ \A p \in PrProcs : p_ppid[p] # p

\* PFWAIT and PFSTOP are set only inside ptret, and only a traced process
\* that lives is there.
StopsInPtret ==
  \A p \in PrProcs :
    /\ p_flags[p] \cap {"PFWAIT", "PFSTOP"} # {} => prPc[p] = "ptret"
    /\ prPc[p] = "ptret" => "PFTRAC" \in p_flags[p] /\ Alive(p)

\* PrWaitServed with a witness that lasts: a living child that p has not
\* been told of stays so until p runs.
WaiterServed ==
  \A p \in PrProcs :
    (prPc[p] = "wait" /\ p_state[p] = "PSSLSIG") =>
      /\ \A c \in PrProcs : p_ppid[c] = p =>
           /\ p_state[c] # "PSDEAD"
           /\ ("PFWAIT" \in p_flags[c] /\ "PFSTOP" \notin p_flags[c])
                => p_state[c] # "PSSLSIG"
      /\ \E c \in PrProcs : /\ p_ppid[c] = p /\ p_state[c] # "none"
                            /\ "PFSTOP" \notin p_flags[c]

FamilyInv ==
  /\ PrTypes /\ PtsFilled /\ RootLives /\ NoOwnParent /\ StopsInPtret
  /\ PrParentAlive /\ PrOrphanRuns /\ WaiterServed

\* The transaction in pts when there is one debugger.
OneDebugger == \A p, q \in PrDebuggers : p = q

Transaction ==
  \A p \in PrProcs :
    /\ prPc[p] \in {"ptgate", "ptset"} => p \in PrDebuggers
    /\ pt.gate = p <=> prPc[p] = "ptset"
    /\ prPc[p] = "ptgate" =>
         /\ p_ppid[prAsk[p][1]] = p
         /\ prPc[prAsk[p][1]] = "ptret"
    /\ (prPc[p] = "ptset" /\ pt.busy) =>
         /\ pt.pid \in PrProcs
         /\ p_ppid[pt.pid] = p
         /\ prPc[pt.pid] = "ptret"
         /\ p_state[pt.pid] = "PSRUN"

\* A wakeup makes sleepers of its channel runnable, all of those it names.
LEMMA WokenFacts ==
  ASSUME NEW s \in [PrProcs -> {"none", "PSRUN", "PSSLSIG", "PSDEAD"}],
         NEW pc, NEW S
  PROVE  /\ Woken(s, pc, S) \in [PrProcs -> {"none", "PSRUN", "PSSLSIG", "PSDEAD"}]
         /\ \A q \in PrProcs :
              \/ Woken(s, pc, S)[q] = s[q] /\ ~(s[q] = "PSSLSIG" /\ q \in S /\ prPc[q] = pc)
              \/ Woken(s, pc, S)[q] = "PSRUN" /\ s[q] = "PSSLSIG" /\ q \in S /\ prPc[q] = pc
<1> QED BY DEF Woken

\* Init has a root and nobody else.
LEMMA FamilyInit == PrInit => FamilyInv
<1> SUFFICES ASSUME PrInit PROVE FamilyInv
  OBVIOUS
<1>1. PrTypes
  BY PrAssumption DEF PrInit, PrTypes, ptsFree
<1>2. PtsFilled /\ RootLives /\ NoOwnParent /\ StopsInPtret
  BY PrAssumption DEF PrInit, ptsFree, PtsFilled, RootLives, NoOwnParent, Alive, StopsInPtret
<1>3. PrParentAlive /\ PrOrphanRuns /\ WaiterServed
  BY PrAssumption DEF PrInit, PrParentAlive, PrOrphanRuns, WaiterServed
<1> QED BY <1>1, <1>2, <1>3 DEF FamilyInv

\* fork.
LEMMA ForkInv ==
  ASSUME FamilyInv, NEW p \in PrProcs, NEW c \in PrProcs, pfork(p, c)
  PROVE  FamilyInv'
<1> USE PrAssumption DEF FamilyInv, PrTypes, Runs
<1>1. /\ p_state[p] = "PSRUN" /\ p_state[c] = "none" /\ p # c
      /\ p_state' = [p_state EXCEPT ![c] = "PSRUN"]
      /\ p_ppid' = [p_ppid EXCEPT ![c] = p]
      /\ p_ppid[c] = PrNone /\ c # PrRoot
      /\ UNCHANGED <<p_flags, p_pending, pt, prAsk, prPc>>
  BY DEF pfork
<1>2. PrTypes'
  BY <1>1
<1>3. PtsFilled' /\ RootLives' /\ NoOwnParent'
  BY <1>1 DEF PtsFilled, RootLives, NoOwnParent, Alive
<1>4. StopsInPtret'
  BY <1>1 DEF StopsInPtret, Alive
<1>5. PrParentAlive'
  BY <1>1 DEF PrParentAlive
<1>6. PrOrphanRuns'
  BY <1>1 DEF PrOrphanRuns
<1>7. WaiterServed'
  BY <1>1 DEF WaiterServed
<1> QED BY <1>2, <1>3, <1>4, <1>5, <1>6, <1>7

\* What pexit does from the wakeup of the parent on: whom it hands over, whom
\* it wakes.
LEMMA ExitFacts ==
  ASSUME FamilyInv, NEW p \in PrProcs, pexit(p)
  PROVE  /\ p_state[p] = "PSRUN" /\ prPc[p] = "exit" /\ p # PrRoot
         /\ p_ppid[p] \in PrProcs /\ Alive(p_ppid[p])
         /\ p_ppid' = [c \in PrProcs |-> IF c \in Children(p) THEN PrRoot ELSE p_ppid[c]]
         /\ \/ p_pending' = p_pending
            \/ p_pending' = [p_pending EXCEPT ![p_ppid[p]] = @ \cup {"SIGCHLD"}]
         /\ UNCHANGED <<p_flags, pt, prAsk, prPc>>
         /\ p_state' \in [PrProcs -> {"none", "PSRUN", "PSSLSIG", "PSDEAD"}]
         /\ p_state'[p] \in {"none", "PSDEAD"}
         /\ \A q \in PrProcs \ {p} :
              \/ p_state'[q] = p_state[q]
              \/ p_state'[q] = "PSRUN" /\ p_state[q] = "PSSLSIG"
         /\ ~(p_state'[p_ppid[p]] = "PSSLSIG" /\ prPc[p_ppid[p]] = "wait")
         /\ (\E c \in Children(p) : p_state[c] = "PSDEAD")
              => ~(p_state'[PrRoot] = "PSSLSIG" /\ prPc[PrRoot] = "wait")
         /\ (\E c \in Children(p) : "PFTRAC" \in p_flags[c])
              => \A q \in PrProcs : ~(p_state'[q] = "PSSLSIG" /\ prPc[q] = "ptret")
<1> USE PrAssumption DEF FamilyInv, PrTypes
<1> DEFINE parent == p_ppid[p]
           s1 == Woken(p_state, "wait", {parent})
           s2 == Inherit(p, s1)
           s3 == IF p_nocldwait[parent] THEN [s2 EXCEPT ![p] = "none"]
                                        ELSE [s2 EXCEPT ![p] = "PSDEAD"]
<1>1. /\ p_state[p] = "PSRUN" /\ prPc[p] = "exit" /\ p # PrRoot
      /\ parent \in PrProcs /\ Alive(parent)
      /\ p_ppid' = [c \in PrProcs |-> IF c \in Children(p) THEN PrRoot ELSE p_ppid[c]]
      /\ p_state' = IF p_nocldwait[parent] THEN s3 ELSE Signalled(s3, parent, "SIGCHLD")
      /\ \/ p_pending' = p_pending
         \/ p_pending' = [p_pending EXCEPT ![parent] = @ \cup {"SIGCHLD"}]
      /\ UNCHANGED <<p_flags, pt, prAsk, prPc>>
  BY DEF pexit, WakesParent, Orphans, Runs, RootLives, PrParentAlive, Alive
<1>2. /\ s1 \in [PrProcs -> {"none", "PSRUN", "PSSLSIG", "PSDEAD"}]
      /\ \A q \in PrProcs :
           \/ s1[q] = p_state[q]
           \/ s1[q] = "PSRUN" /\ p_state[q] = "PSSLSIG"
      /\ ~(s1[parent] = "PSSLSIG" /\ prPc[parent] = "wait")
  BY <1>1, WokenFacts
<1>3. /\ s2 \in [PrProcs -> {"none", "PSRUN", "PSSLSIG", "PSDEAD"}]
      /\ \A q \in PrProcs :
           \/ s2[q] = s1[q]
           \/ s2[q] = "PSRUN" /\ s1[q] = "PSSLSIG"
      /\ (\E c \in Children(p) : p_state[c] = "PSDEAD")
           => ~(s2[PrRoot] = "PSSLSIG" /\ prPc[PrRoot] = "wait")
      /\ (\E c \in Children(p) : "PFTRAC" \in p_flags[c])
           => \A q \in PrProcs : ~(s2[q] = "PSSLSIG" /\ prPc[q] = "ptret")
  <2> DEFINE init == IF \E c \in Children(p) : p_state[c] = "PSDEAD"
                     THEN Woken(s1, "wait", {PrRoot}) ELSE s1
  <2>1. s2 = IF \E c \in Children(p) : "PFTRAC" \in p_flags[c]
             THEN Woken(init, "ptret", PrProcs) ELSE init
    BY DEF Inherit
  <2> HIDE DEF s1, s2
  <2>2. /\ init \in [PrProcs -> {"none", "PSRUN", "PSSLSIG", "PSDEAD"}]
        /\ \A q \in PrProcs :
             \/ init[q] = s1[q]
             \/ init[q] = "PSRUN" /\ s1[q] = "PSSLSIG"
        /\ (\E c \in Children(p) : p_state[c] = "PSDEAD")
             => ~(init[PrRoot] = "PSSLSIG" /\ prPc[PrRoot] = "wait")
    BY <1>2, WokenFacts
  <2> HIDE DEF init
  <2> QED BY <2>1, <2>2, WokenFacts
<1> HIDE DEF s1, s2
<1>4. /\ p_state' \in [PrProcs -> {"none", "PSRUN", "PSSLSIG", "PSDEAD"}]
      /\ p_state'[p] \in {"none", "PSDEAD"}
      /\ \A q \in PrProcs \ {p} :
           \/ p_state'[q] = s2[q]
           \/ p_state'[q] = "PSRUN" /\ s2[q] = "PSSLSIG"
  BY <1>1, <1>3 DEF Signalled, Alive
<1> HIDE DEF s3
<1> QED BY <1>1, <1>2, <1>3, <1>4

\* The last part of pexit.
LEMMA ExitInv ==
  ASSUME FamilyInv, NEW p \in PrProcs, pexit(p)
  PROVE  FamilyInv'
<1> USE PrAssumption DEF FamilyInv, PrTypes
<1> DEFINE parent == p_ppid[p]
<1>1. /\ p_state[p] = "PSRUN" /\ prPc[p] = "exit" /\ p # PrRoot
      /\ parent \in PrProcs /\ Alive(parent)
      /\ p_ppid' = [c \in PrProcs |-> IF c \in Children(p) THEN PrRoot ELSE p_ppid[c]]
      /\ \/ p_pending' = p_pending
         \/ p_pending' = [p_pending EXCEPT ![parent] = @ \cup {"SIGCHLD"}]
      /\ UNCHANGED <<p_flags, pt, prAsk, prPc>>
  BY ExitFacts
<1>2. /\ p_state' \in [PrProcs -> {"none", "PSRUN", "PSSLSIG", "PSDEAD"}]
      /\ p_state'[p] \in {"none", "PSDEAD"}
      /\ \A q \in PrProcs \ {p} :
           \/ p_state'[q] = p_state[q]
           \/ p_state'[q] = "PSRUN" /\ p_state[q] = "PSSLSIG"
  BY ExitFacts
<1>3. PrTypes' /\ PtsFilled'
  BY <1>1, <1>2 DEF PtsFilled
<1>4. RootLives' /\ NoOwnParent'
  BY <1>1, <1>2 DEF RootLives, NoOwnParent, Children, Alive
<1>5. StopsInPtret'
  BY <1>1, <1>2 DEF StopsInPtret, Alive
<1>6. PrParentAlive'
  BY <1>1, <1>2 DEF PrParentAlive, RootLives, Alive, Children
<1>7. PrOrphanRuns'
  <2> SUFFICES ASSUME NEW q \in PrProcs, prPc[q] = "ptret", p_state'[q] = "PSSLSIG",
                      q \in Children(p)
               PROVE  FALSE
    BY <1>1, <1>2 DEF PrOrphanRuns
  <2>1. "PFTRAC" \in p_flags[q] /\ q # p
    BY <1>1 DEF StopsInPtret
  <2> QED BY <1>2, <2>1, ExitFacts
<1>8. WaiterServed'
  <2> SUFFICES ASSUME NEW q \in PrProcs, prPc[q] = "wait", p_state'[q] = "PSSLSIG"
               PROVE  /\ \A c \in PrProcs : p_ppid'[c] = q =>
                           /\ p_state'[c] # "PSDEAD"
                           /\ ("PFWAIT" \in p_flags[c] /\ "PFSTOP" \notin p_flags[c])
                                => p_state'[c] # "PSSLSIG"
                      /\ \E c \in PrProcs : /\ p_ppid'[c] = q /\ p_state'[c] # "none"
                                            /\ "PFSTOP" \notin p_flags[c]
    BY <1>1 DEF WaiterServed
  <2>1. q # p /\ q # parent /\ p_state[q] = "PSSLSIG"
    BY <1>1, <1>2, ExitFacts
  <2>2. ASSUME NEW c \in PrProcs, p_ppid'[c] = q
        PROVE  /\ p_state'[c] # "PSDEAD"
               /\ ("PFWAIT" \in p_flags[c] /\ "PFSTOP" \notin p_flags[c])
                    => p_state'[c] # "PSSLSIG"
    <3>1. CASE c \in Children(p)
      <4>1. q = PrRoot
        BY <1>1, <2>2, <3>1
      <4>2. p_state[c] # "PSDEAD"
        BY <2>1, <3>1, <4>1, ExitFacts
      <4>3. c # p
        BY <3>1 DEF NoOwnParent, Children
      <4>4. ("PFWAIT" \in p_flags[c] /\ "PFSTOP" \notin p_flags[c])
              => "PFTRAC" \in p_flags[c] /\ prPc[c] = "ptret"
        BY DEF StopsInPtret
      <4> QED BY <1>2, <3>1, <4>2, <4>3, <4>4, ExitFacts
    <3>2. CASE c \notin Children(p)
      BY <1>1, <1>2, <2>1, <2>2, <3>2 DEF WaiterServed
    <3> QED BY <3>1, <3>2
  <2>3. PICK d \in PrProcs : /\ p_ppid[d] = q /\ p_state[d] # "none"
                             /\ "PFSTOP" \notin p_flags[d]
    BY <2>1 DEF WaiterServed
  <2>4. d # p /\ d \notin Children(p)
    BY <2>1, <2>3 DEF Children
  <2>5. p_ppid'[d] = q /\ p_state'[d] # "none"
    BY <1>1, <1>2, <2>3, <2>4
  <2> QED BY <2>2, <2>3, <2>5
<1> QED BY <1>3, <1>4, <1>5, <1>6, <1>7, <1>8

\* wait () that reports a stopped child, having released zombies on its way.
LEMMA WaitStoppedInv ==
  ASSUME FamilyInv, NEW p \in PrProcs, NEW c \in PrProcs, NEW Z \in SUBSET Zombies(p),
         uwaitStopped(p, c, Z)
  PROVE  FamilyInv'
<1> USE PrAssumption DEF FamilyInv, PrTypes
<1>1. /\ p_state[p] = "PSRUN" /\ prPc[p] \in {"user", "wait"}
      /\ p_ppid[c] = p /\ p_state[c] # "none" /\ "PFWAIT" \in p_flags[c]
      /\ \A q \in Z : q \in PrProcs /\ p_state[q] = "PSDEAD" /\ p_ppid[q] = p
      /\ p_state' = [q \in PrProcs |-> IF q \in Z THEN "none" ELSE p_state[q]]
      /\ p_flags' = [p_flags EXCEPT ![c] = (@ \ {"PFWAIT"}) \cup {"PFSTOP"}]
      /\ prPc' = [prPc EXCEPT ![p] = "user"]
      /\ UNCHANGED <<p_ppid, p_pending, pt, prAsk>>
  BY DEF uwaitStopped, Runs, Reaped, Zombies, Stopped, Children
<1>2. PrTypes'
  BY <1>1
<1>3. PtsFilled' /\ RootLives' /\ NoOwnParent'
  BY <1>1 DEF PtsFilled, RootLives, NoOwnParent, Alive
<1>4. StopsInPtret'
  BY <1>1 DEF StopsInPtret, Alive
<1>5. PrParentAlive'
  BY <1>1 DEF PrParentAlive
<1>6. PrOrphanRuns'
  BY <1>1 DEF PrOrphanRuns
<1>7. WaiterServed'
  BY <1>1 DEF WaiterServed
<1> QED BY <1>2, <1>3, <1>4, <1>5, <1>6, <1>7

\* wait () that reports a zombie.
LEMMA WaitDeadInv ==
  ASSUME FamilyInv, NEW p \in PrProcs, NEW c \in PrProcs, uwaitDead(p, c)
  PROVE  FamilyInv'
<1> USE PrAssumption DEF FamilyInv, PrTypes
<1>1. /\ p_state[p] = "PSRUN" /\ prPc[p] \in {"user", "wait"}
      /\ p_ppid[c] = p /\ p_state[c] = "PSDEAD"
      /\ p_state' = [q \in PrProcs |-> IF q = c THEN "none" ELSE p_state[q]]
      /\ prPc' = [prPc EXCEPT ![p] = "user"]
      /\ UNCHANGED <<p_ppid, p_flags, p_pending, pt, prAsk>>
  BY DEF uwaitDead, Runs, Reaped, Zombies, Children
<1>2. PrTypes'
  BY <1>1
<1>3. PtsFilled' /\ RootLives' /\ NoOwnParent'
  BY <1>1 DEF PtsFilled, RootLives, NoOwnParent, Alive
<1>4. StopsInPtret'
  BY <1>1 DEF StopsInPtret, Alive
<1>5. PrParentAlive' /\ PrOrphanRuns'
  BY <1>1 DEF PrParentAlive, PrOrphanRuns
<1>6. WaiterServed'
  BY <1>1 DEF WaiterServed
<1> QED BY <1>2, <1>3, <1>4, <1>5, <1>6

\* wait () that finds nothing to report.
LEMMA WaitSleepInv ==
  ASSUME FamilyInv, NEW p \in PrProcs, uwaitSleep(p)
  PROVE  FamilyInv'
<1> USE PrAssumption DEF FamilyInv, PrTypes
<1> DEFINE left == {c \in Children(p) \ Zombies(p) : "PFSTOP" \notin p_flags[c]}
           sleeps == left # {} /\ ~curr_signal_pending(p)
<1>1. /\ p_state[p] = "PSRUN" /\ prPc[p] \in {"user", "wait"}
      /\ Stopped(p) = {}
      /\ p_state' = [Reaped(Zombies(p)) EXCEPT ![p] = IF sleeps THEN "PSSLSIG" ELSE @]
      /\ prPc' = [prPc EXCEPT ![p] = IF sleeps THEN "wait" ELSE "user"]
      /\ UNCHANGED <<p_ppid, p_flags, p_pending, pt, prAsk>>
  BY DEF uwaitSleep, Runs
<1>2. /\ sleeps \in BOOLEAN
      /\ sleeps => \E d \in PrProcs : /\ p_ppid[d] = p /\ p_state[d] \notin {"none", "PSDEAD"}
                                     /\ "PFSTOP" \notin p_flags[d]
      /\ \A c \in PrProcs : (p_ppid[c] = p /\ p_state[c] # "none" /\ "PFWAIT" \in p_flags[c])
           => "PFSTOP" \in p_flags[c]
  BY <1>1 DEF Stopped, Children, Zombies
<1> HIDE DEF sleeps
<1>3. /\ p_state'[p] = IF sleeps THEN "PSSLSIG" ELSE "PSRUN"
      /\ \A q \in PrProcs \ {p} :
           IF p_state[q] = "PSDEAD" /\ p_ppid[q] = p
           THEN p_state'[q] = "none" ELSE p_state'[q] = p_state[q]
      /\ p_state' \in [PrProcs -> {"none", "PSRUN", "PSSLSIG", "PSDEAD"}]
  BY <1>1 DEF Reaped, Zombies, Children
<1>4. PrTypes'
  BY <1>1, <1>3
<1>5. PtsFilled' /\ RootLives' /\ NoOwnParent'
  BY <1>1, <1>3 DEF PtsFilled, RootLives, NoOwnParent, Alive
<1>6. StopsInPtret'
  BY <1>1, <1>3 DEF StopsInPtret, Alive
<1>7. PrParentAlive' /\ PrOrphanRuns'
  BY <1>1, <1>3 DEF PrParentAlive, PrOrphanRuns
<1>8. WaiterServed'
  <2> SUFFICES ASSUME NEW q \in PrProcs, prPc'[q] = "wait", p_state'[q] = "PSSLSIG"
               PROVE  /\ \A c \in PrProcs : p_ppid[c] = q =>
                           /\ p_state'[c] # "PSDEAD"
                           /\ ("PFWAIT" \in p_flags[c] /\ "PFSTOP" \notin p_flags[c])
                                => p_state'[c] # "PSSLSIG"
                      /\ \E c \in PrProcs : /\ p_ppid[c] = q /\ p_state'[c] # "none"
                                            /\ "PFSTOP" \notin p_flags[c]
    BY <1>1 DEF WaiterServed
  <2>1. CASE q = p
    BY <1>1, <1>2, <1>3, <2>1 DEF NoOwnParent, StopsInPtret, Alive
  <2>2. CASE q # p
    BY <1>1, <1>3, <2>2 DEF WaiterServed, StopsInPtret
  <2> QED BY <2>1, <2>2
<1> QED BY <1>4, <1>5, <1>6, <1>7, <1>8

\* ptretEnds and the rest of a step of ptret by which p leaves it.
LEMMA PtretLeavesInv ==
  ASSUME FamilyInv, NEW p \in PrProcs, NEW pc \in {"user", "exit"},
         p_state[p] = "PSRUN", p # PrRoot, ptretEnds(p, pc),
         p_state' \in [PrProcs -> {"none", "PSRUN", "PSSLSIG", "PSDEAD"}],
         \A q \in PrProcs :
           \/ p_state'[q] = p_state[q]
           \/ p_state'[q] = "PSRUN" /\ p_state[q] = "PSSLSIG",
         UNCHANGED <<p_ppid, prAsk>>,
         pt' \in [busy : BOOLEAN, pid : PrProcs \cup {PrNone},
                 req : Requests \cup {"none"}, gate : PrProcs \cup {PrNone}],
         pt'.busy => pt'.req \in Requests
  PROVE  FamilyInv'
<1> USE PrAssumption DEF FamilyInv, PrTypes
<1>1. /\ p_flags' = [p_flags EXCEPT ![p] = @ \ {"PFWAIT", "PFSTOP"}]
      /\ p_pending' = [p_pending EXCEPT ![p] = {}]
      /\ prPc' = [prPc EXCEPT ![p] = pc]
  BY DEF ptretEnds, Resumed
<1>2. PrTypes'
  BY <1>1
<1>3. PtsFilled' /\ RootLives' /\ NoOwnParent'
  BY <1>1 DEF PtsFilled, RootLives, NoOwnParent, Alive
<1>4. StopsInPtret'
  BY <1>1 DEF StopsInPtret, Alive
<1>5. PrParentAlive' /\ PrOrphanRuns'
  BY <1>1 DEF PrParentAlive, PrOrphanRuns
<1>6. WaiterServed'
  BY <1>1 DEF WaiterServed
<1> QED BY <1>2, <1>3, <1>4, <1>5, <1>6

\* ptret without a request.
LEMMA PtretInv ==
  ASSUME FamilyInv, NEW p \in PrProcs, ptret(p)
  PROVE  FamilyInv'
<1> USE PrAssumption DEF FamilyInv, PrTypes
<1>1. /\ p_state[p] = "PSRUN" /\ p # PrRoot /\ "PFTRAC" \in p_flags[p]
      /\ prPc[p] \in {"user", "ptret"}
      /\ UNCHANGED <<p_ppid, pt, prAsk>>
  BY DEF ptret, Runs, RootLives, StopsInPtret
<1>2. /\ Told(p) \in [PrProcs -> {"none", "PSRUN", "PSSLSIG", "PSDEAD"}]
      /\ \A q \in PrProcs :
           \/ Told(p)[q] = p_state[q]
           \/ Told(p)[q] = "PSRUN" /\ p_state[q] = "PSSLSIG"
      /\ ~(Told(p)[p_ppid[p]] = "PSSLSIG" /\ prPc[p_ppid[p]] = "wait")
  <2>1. p_ppid[p] \in PrProcs
    BY <1>1 DEF PrParentAlive
  <2>2. Told(p) = Woken(p_state, "wait", {p_ppid[p]})
    BY DEF Told
  <2> QED BY <2>1, <2>2, WokenFacts
<1>3. CASE p_ppid[p] = PrRoot /\ ptretEnds(p, "exit") /\ UNCHANGED p_state
  BY <1>1, <1>3, PtretLeavesInv DEF PtsFilled
<1>4. CASE ptretEnds(p, "user") /\ p_state' = Told(p)
  BY <1>1, <1>2, <1>4, PtretLeavesInv DEF PtsFilled
<1>5. CASE /\ p_ppid[p] # PrRoot
           /\ p_state' = [Told(p) EXCEPT ![p] = "PSSLSIG"]
           /\ \/ p_flags' = [p_flags EXCEPT ![p] = @ \cup {"PFWAIT"}]
              \/ p_flags' = [p_flags EXCEPT ![p] = @]
           /\ \/ p_pending' = [p_pending EXCEPT ![p] = p_pending[p] \ {"SIGTERM"}]
              \/ p_pending' = [p_pending EXCEPT ![p] = p_pending[p]]
           /\ prPc' = [prPc EXCEPT ![p] = "ptret"]
  <2>1. /\ p_state'[p] = "PSSLSIG"
        /\ \A q \in PrProcs \ {p} :
             \/ p_state'[q] = p_state[q]
             \/ p_state'[q] = "PSRUN" /\ p_state[q] = "PSSLSIG"
        /\ p_state' \in [PrProcs -> {"none", "PSRUN", "PSSLSIG", "PSDEAD"}]
    BY <1>2, <1>5
  <2>2. PrTypes'
    BY <1>1, <1>5, <2>1
  <2>3. PtsFilled' /\ RootLives' /\ NoOwnParent'
    BY <1>1, <1>5, <2>1 DEF PtsFilled, RootLives, NoOwnParent, Alive
  <2>4. StopsInPtret'
    BY <1>1, <1>5, <2>1 DEF StopsInPtret, Alive
  <2>5. PrParentAlive' /\ PrOrphanRuns'
    BY <1>1, <1>5, <2>1 DEF PrParentAlive, PrOrphanRuns
  <2>6. WaiterServed'
    <3>1. ~(p_state'[p_ppid[p]] = "PSSLSIG" /\ prPc'[p_ppid[p]] = "wait")
      BY <1>1, <1>2, <1>5 DEF PrParentAlive, NoOwnParent
    <3> QED BY <1>1, <1>5, <2>1, <3>1 DEF WaiterServed
  <2> QED BY <2>2, <2>3, <2>4, <2>5, <2>6
<1> QED BY <1>1, <1>3, <1>4, <1>5 DEF ptret

\* ptret that serves the request in pts.
LEMMA PtretServesInv ==
  ASSUME FamilyInv, NEW p \in PrProcs, ptretServes(p)
  PROVE  FamilyInv'
<1> USE PrAssumption DEF FamilyInv, PrTypes
<1>1. /\ p_state[p] = "PSRUN" /\ p # PrRoot /\ pt.req \in Requests
      /\ UNCHANGED <<p_ppid, prAsk>>
      /\ pt' = [pt EXCEPT !.busy = FALSE]
  BY DEF ptretServes, Runs, RootLives, PtsFilled, ForMe
<1> DEFINE woken == Woken(Told(p), "ptset", PrProcs)
<1>2. /\ woken \in [PrProcs -> {"none", "PSRUN", "PSSLSIG", "PSDEAD"}]
      /\ \A q \in PrProcs :
           \/ woken[q] = p_state[q]
           \/ woken[q] = "PSRUN" /\ p_state[q] = "PSSLSIG"
      /\ ~(woken[p_ppid[p]] = "PSSLSIG" /\ prPc[p_ppid[p]] = "wait")
      /\ p_state' = IF pt.req = "RESUME_SIG" THEN [woken EXCEPT ![p] = "PSSLSIG"] ELSE woken
  <2>0. p_ppid[p] \in PrProcs
    BY <1>1 DEF PrParentAlive
  <2>1. /\ Told(p) \in [PrProcs -> {"none", "PSRUN", "PSSLSIG", "PSDEAD"}]
        /\ \A q \in PrProcs :
             \/ Told(p)[q] = p_state[q]
             \/ Told(p)[q] = "PSRUN" /\ p_state[q] = "PSSLSIG"
        /\ ~(Told(p)[p_ppid[p]] = "PSSLSIG" /\ prPc[p_ppid[p]] = "wait")
    BY <2>0, WokenFacts DEF Told
  <2>2. p_state' = IF pt.req = "RESUME_SIG" THEN [woken EXCEPT ![p] = "PSSLSIG"] ELSE woken
    BY DEF ptretServes
  <2> QED BY <2>0, <2>1, <2>2, WokenFacts
<1> HIDE DEF woken
<1>3. /\ pt' \in [busy : BOOLEAN, pid : PrProcs \cup {PrNone},
                  req : Requests \cup {"none"}, gate : PrProcs \cup {PrNone}]
      /\ ~pt'.busy
  BY <1>1
<1>4. CASE p_state' = woken /\ (ptretEnds(p, "user") \/ ptretEnds(p, "exit"))
  <2>1. /\ p_state' \in [PrProcs -> {"none", "PSRUN", "PSSLSIG", "PSDEAD"}]
        /\ \A q \in PrProcs :
             \/ p_state'[q] = p_state[q]
             \/ p_state'[q] = "PSRUN" /\ p_state[q] = "PSSLSIG"
    BY <1>2, <1>4
  <2> QED BY <1>1, <1>3, <1>4, <2>1, PtretLeavesInv
<1>5. CASE p_state' = woken /\ UNCHANGED <<p_flags, p_pending, prPc>>
  <2>1. PrTypes' /\ PtsFilled'
    BY <1>1, <1>2, <1>3, <1>5 DEF PtsFilled
  <2>2. RootLives' /\ NoOwnParent' /\ StopsInPtret'
    BY <1>1, <1>2, <1>5 DEF RootLives, NoOwnParent, StopsInPtret, Alive
  <2>3. PrParentAlive' /\ PrOrphanRuns' /\ WaiterServed'
    BY <1>1, <1>2, <1>5 DEF PrParentAlive, PrOrphanRuns, WaiterServed
  <2> QED BY <2>1, <2>2, <2>3
<1>6. CASE p_state' = [woken EXCEPT ![p] = "PSSLSIG"] /\ got_signal(p)
  <2>1. /\ p_state'[p] = "PSSLSIG"
        /\ \A q \in PrProcs \ {p} :
             \/ p_state'[q] = p_state[q]
             \/ p_state'[q] = "PSRUN" /\ p_state[q] = "PSSLSIG"
        /\ p_state' \in [PrProcs -> {"none", "PSRUN", "PSSLSIG", "PSDEAD"}]
    BY <1>2, <1>6
  <2>2. /\ p_flags' = [p_flags EXCEPT ![p] = (@ \ {"PFSTOP"}) \cup {"PFWAIT"}]
        /\ p_pending' = [p_pending EXCEPT ![p] = {}]
        /\ UNCHANGED prPc
    BY <1>6 DEF got_signal
  <2>3. prPc[p] = "ptret" /\ p_ppid[p] # PrRoot
    BY DEF ptretServes, Runs
  <2>4. PrTypes' /\ PtsFilled'
    BY <1>1, <1>3, <2>1, <2>2 DEF PtsFilled
  <2>5. RootLives' /\ NoOwnParent' /\ StopsInPtret'
    BY <1>1, <2>1, <2>2, <2>3 DEF RootLives, NoOwnParent, StopsInPtret, Alive
  <2>6. PrParentAlive' /\ PrOrphanRuns'
    BY <1>1, <2>1, <2>2, <2>3 DEF PrParentAlive, PrOrphanRuns
  <2>7. WaiterServed'
    <3>1. ~(p_state'[p_ppid[p]] = "PSSLSIG" /\ prPc'[p_ppid[p]] = "wait")
      BY <1>1, <1>2, <1>6, <2>2 DEF PrParentAlive, NoOwnParent
    <3> SUFFICES ASSUME NEW r \in PrProcs, prPc'[r] = "wait", p_state'[r] = "PSSLSIG"
                 PROVE  /\ \A c \in PrProcs : p_ppid'[c] = r =>
                             /\ p_state'[c] # "PSDEAD"
                             /\ ("PFWAIT" \in p_flags'[c] /\ "PFSTOP" \notin p_flags'[c])
                                  => p_state'[c] # "PSSLSIG"
                        /\ \E c \in PrProcs : /\ p_ppid'[c] = r /\ p_state'[c] # "none"
                                              /\ "PFSTOP" \notin p_flags'[c]
      BY DEF WaiterServed
    <3>2. prPc[r] = "wait" /\ p_state[r] = "PSSLSIG" /\ r # p_ppid[p]
      BY <2>1, <2>2, <2>3, <3>1
    <3>3. \A c \in PrProcs : p_ppid[c] = r => c # p /\ p_flags'[c] = p_flags[c]
      BY <2>2, <3>2
    <3> QED BY <1>1, <2>1, <3>2, <3>3 DEF WaiterServed
  <2> QED BY <2>4, <2>5, <2>6, <2>7
<1> QED BY <1>1, <1>2, <1>4, <1>5, <1>6 DEF ptretServes, Requests

\* ptset that fills in pts.
LEMMA PtsetLockedInv ==
  ASSUME FamilyInv, NEW p \in PrProcs, ptsetLocked(p)
  PROVE  FamilyInv'
<1> USE PrAssumption DEF FamilyInv, PrTypes
<1> DEFINE woken == Woken(p_state, "ptret", PrProcs)
<1>1. /\ p_state[p] = "PSRUN" /\ prPc[p] = "ptgate" /\ prAsk[p] \in PrProcs \X Requests
      /\ pt' = [busy |-> TRUE, pid |-> prAsk[p][1], req |-> prAsk[p][2], gate |-> p]
      /\ p_state' = woken \/ p_state' = [woken EXCEPT ![p] = "PSSLSIG"]
      /\ prPc' = [prPc EXCEPT ![p] = "ptset"]
      /\ UNCHANGED <<p_ppid, p_flags, p_pending, prAsk>>
  BY DEF ptsetLocked, Runs, PtsFilled
<1>2. /\ p_state' \in [PrProcs -> {"none", "PSRUN", "PSSLSIG", "PSDEAD"}]
      /\ \A q \in PrProcs \ {p} :
           \/ p_state'[q] = p_state[q]
           \/ p_state'[q] = "PSRUN" /\ p_state[q] = "PSSLSIG"
      /\ p_state'[p] \in {"PSRUN", "PSSLSIG"}
  BY <1>1, WokenFacts
<1> HIDE DEF woken
<1>3. PrTypes' /\ PtsFilled'
  <2>1. prAsk[p][1] \in PrProcs /\ prAsk[p][2] \in Requests
    BY <1>1
  <2>2. /\ pt' \in [busy : BOOLEAN, pid : PrProcs \cup {PrNone},
                    req : Requests \cup {"none"}, gate : PrProcs \cup {PrNone}]
        /\ pt'.req \in Requests
    BY <1>1, <2>1
  <2>3. PrTypes'
    BY <1>1, <1>2, <2>2
  <2> QED BY <1>1, <2>2, <2>3 DEF PtsFilled
<1>4. RootLives' /\ NoOwnParent' /\ StopsInPtret'
  BY <1>1, <1>2 DEF RootLives, NoOwnParent, StopsInPtret, Alive
<1>5. PrParentAlive' /\ PrOrphanRuns'
  BY <1>1, <1>2 DEF PrParentAlive, PrOrphanRuns
<1>6. WaiterServed'
  BY <1>1, <1>2 DEF WaiterServed, StopsInPtret
<1> QED BY <1>3, <1>4, <1>5, <1>6

\* Every step keeps the invariant of the family.
LEMMA FamilyNext == FamilyInv /\ [PrNext]_prVars => FamilyInv'
<1> SUFFICES ASSUME FamilyInv, [PrNext]_prVars PROVE FamilyInv'
  OBVIOUS
<1> USE PrAssumption
    DEF FamilyInv, PrTypes, PtsFilled, RootLives, NoOwnParent, StopsInPtret,
        PrParentAlive, PrOrphanRuns, WaiterServed, Alive, Runs
<1>1. ASSUME NEW p \in PrProcs, NEW b \in BOOLEAN, sigset(p, b) PROVE FamilyInv'
  BY <1>1 DEF sigset
<1>2. ASSUME NEW p \in PrProcs, pexitCloses(p) PROVE FamilyInv'
  BY <1>2 DEF pexitCloses
<1>3. ASSUME NEW p \in PrProcs, uwaitIntr(p) PROVE FamilyInv'
  BY <1>3 DEF uwaitIntr
<1>4. ASSUME NEW p \in PrProcs, ukill(p) PROVE FamilyInv'
  BY <1>4 DEF ukill, Signalled
<1>5. ASSUME NEW p \in PrProcs, handler(p) PROVE FamilyInv'
  BY <1>5 DEF handler
<1>6. ASSUME NEW p \in PrProcs, curr_check_signals(p) PROVE FamilyInv'
  BY <1>6 DEF curr_check_signals
<1>7. ASSUME NEW p \in PrProcs, uptrace(p) PROVE FamilyInv'
  BY <1>7 DEF uptrace
<1>8. ASSUME NEW p \in PrProcs, NEW c \in PrProcs, NEW r \in Requests, ptset(p, c, r)
      PROVE  FamilyInv'
  BY <1>8 DEF ptset
<1>9. ASSUME NEW p \in PrProcs, ptsetDone(p) PROVE FamilyInv'
  <2>1. /\ pt' \in [busy : BOOLEAN, pid : PrProcs \cup {PrNone},
                   req : Requests \cup {"none"}, gate : PrProcs \cup {PrNone}]
        /\ ~pt'.busy
    BY <1>9 DEF ptsetDone, ptsFree
  <2>2. /\ prAsk' \in [PrProcs -> {<<>>} \cup (PrProcs \X Requests)]
        /\ \A q \in PrProcs \ {p} : prAsk'[q] = prAsk[q]
    BY <1>9 DEF ptsetDone
  <2> QED BY <1>9, <2>1, <2>2 DEF ptsetDone
<1>10. CASE UNCHANGED prVars
  BY <1>10 DEF prVars
<1> HIDE DEF FamilyInv, Runs
<1> QED
  BY <1>1, <1>2, <1>3, <1>4, <1>5, <1>6, <1>7, <1>8, <1>9, <1>10, ForkInv, ExitInv,
     WaitStoppedInv, WaitDeadInv, WaitSleepInv, PtretInv, PtretServesInv,
     PtsetLockedInv
  DEF PrNext

\* The invariant holds in every reachable state.
LEMMA FamilyInvariance == PrSpec => []FamilyInv
<1> QED BY FamilyInit, FamilyNext, PTL DEF PrSpec

\* For any processes, however they fork, trace, die and are inherited by
\* process 1: whoever is in the table has a living parent, and no traced
\* process stays stopped for a debugger that has died.
THEOREM ProcessFamily == PrSpec => []PrFamily
<1>1. FamilyInv => PrFamily
  BY DEF FamilyInv, PrFamily
<1> QED BY <1>1, FamilyInvariance, PTL

\* For any processes: who sleeps in wait () has no zombie and no stopped
\* child to report, and still has a child that can end its sleep.
THEOREM ProcessWaitServed == PrSpec => []PrWaitServed
<1>1. FamilyInv => PrWaitServed
  <2> SUFFICES ASSUME FamilyInv, NEW p \in PrProcs,
                      prPc[p] = "wait", p_state[p] = "PSSLSIG"
               PROVE  /\ Zombies(p) = {}
                      /\ \A c \in Stopped(p) : p_state[c] = "PSRUN"
                      /\ \E c \in Children(p) : "PFSTOP" \notin p_flags[c]
    BY DEF PrWaitServed
  <2> QED BY DEF FamilyInv, PrTypes, WaiterServed, StopsInPtret, Alive,
                 Zombies, Stopped, Children
<1> QED BY <1>1, FamilyInvariance, PTL

\* Only a debugger takes the gate of pts, so the one debugger finds it free.
LEMMA GateFreeForOne ==
  ASSUME FamilyInv, Transaction, OneDebugger,
         NEW p \in PrProcs, prPc[p] = "ptgate"
  PROVE  pt.gate = PrNone
<1>1. pt.gate \in PrProcs \cup {PrNone}
  BY DEF FamilyInv, PrTypes
<1>2. ASSUME NEW q \in PrProcs, pt.gate = q PROVE FALSE
  <2>1. prPc[q] = "ptset"
    BY <1>2 DEF Transaction
  <2>2. p \in PrDebuggers /\ q \in PrDebuggers
    BY <2>1 DEF Transaction
  <2> QED BY <2>1, <2>2 DEF OneDebugger
<1> QED BY <1>1, <1>2

\* With one debugger, every step keeps the transaction in pts.
LEMMA TransactionNext ==
  ASSUME FamilyInv, Transaction, OneDebugger, [PrNext]_prVars
  PROVE  Transaction'
<1> USE PrAssumption DEF Transaction, FamilyInv, PrTypes, PtsFilled, Runs
<1>1. ASSUME NEW p \in PrProcs, NEW c \in PrProcs, pfork(p, c) PROVE Transaction'
  BY <1>1, GateFreeForOne DEF pfork
<1>2. ASSUME NEW p \in PrProcs, NEW b \in BOOLEAN, sigset(p, b) PROVE Transaction'
  BY <1>2 DEF sigset
<1>3. ASSUME NEW p \in PrProcs, pexitCloses(p) PROVE Transaction'
  BY <1>3 DEF pexitCloses
<1>4. ASSUME NEW p \in PrProcs, pexit(p) PROVE Transaction'
  <2>1. /\ prPc[p] = "exit"
        /\ UNCHANGED <<prPc, pt, prAsk>>
        /\ \A q \in PrProcs : p_ppid[q] # p => p_ppid'[q] = p_ppid[q]
        /\ \A q \in PrProcs : p_state[q] = "PSRUN" /\ q # p => p_state'[q] = "PSRUN"
    BY <1>4, ExitFacts DEF Children
  <2> QED BY <2>1
<1>5. ASSUME NEW p \in PrProcs, NEW c \in PrProcs, NEW Z \in SUBSET Zombies(p),
             uwaitStopped(p, c, Z)
      PROVE  Transaction'
  BY <1>5 DEF uwaitStopped, Reaped, Zombies
<1>6. ASSUME NEW p \in PrProcs, NEW c \in PrProcs, uwaitDead(p, c) PROVE Transaction'
  BY <1>6 DEF uwaitDead, Reaped, Zombies
<1>7. ASSUME NEW p \in PrProcs, uwaitSleep(p) PROVE Transaction'
  BY <1>7 DEF uwaitSleep, Reaped, Zombies
<1>8. ASSUME NEW p \in PrProcs, uwaitIntr(p) PROVE Transaction'
  BY <1>8 DEF uwaitIntr
<1>9. ASSUME NEW p \in PrProcs, ukill(p) PROVE Transaction'
  BY <1>9 DEF ukill, Signalled
<1>10. ASSUME NEW p \in PrProcs, handler(p) PROVE Transaction'
  BY <1>10 DEF handler
<1>11. ASSUME NEW p \in PrProcs, curr_check_signals(p) PROVE Transaction'
  BY <1>11 DEF curr_check_signals
<1>12. ASSUME NEW p \in PrProcs, uptrace(p) PROVE Transaction'
  BY <1>12 DEF uptrace
<1>13. ASSUME NEW p \in PrProcs, NEW c \in PrProcs, NEW r \in Requests, ptset(p, c, r)
       PROVE  Transaction'
  BY <1>13 DEF ptset, StopsInPtret, Children
<1>14. ASSUME NEW p \in PrProcs, ptsetDone(p) PROVE Transaction'
  <2>1. pt'.gate = PrNone /\ pt'.busy = FALSE
    BY <1>14 DEF ptsetDone, ptsFree
  <2>2. \A q \in PrProcs \ {p} : prAsk'[q] = prAsk[q]
    BY <1>14 DEF ptsetDone
  <2> QED BY <1>14, <2>1, <2>2 DEF ptsetDone
<1>15. ASSUME NEW p \in PrProcs, ptsetLocked(p) PROVE Transaction'
  <2> DEFINE c == prAsk[p][1]
  <2>1. /\ prPc[p] = "ptgate" /\ pt.gate = PrNone
        /\ pt'.pid = c /\ pt'.gate = p
        /\ prPc' = [prPc EXCEPT ![p] = "ptset"]
        /\ UNCHANGED <<p_ppid, prAsk>>
    BY <1>15 DEF ptsetLocked
  <2>2. c \in PrProcs /\ p_ppid[c] = p /\ prPc[c] = "ptret" /\ Alive(c) /\ c # p
    BY <2>1 DEF StopsInPtret
  <2>3. p_state'[c] = "PSRUN"
    <3>1. Woken(p_state, "ptret", PrProcs)[c] = "PSRUN"
      BY <2>2, WokenFacts DEF Alive
    <3> QED BY <1>15, <2>2, <3>1 DEF ptsetLocked
  <2> QED BY <2>1, <2>2, <2>3
<1>16. ASSUME NEW p \in PrProcs, ptret(p) PROVE Transaction'
  <2>1. /\ prPc[p] \in {"user", "ptret"}
        /\ p_ppid[p] = PrRoot \/ ~ForMe(p)
        /\ \E pc \in {"user", "exit", "ptret"} : prPc' = [prPc EXCEPT ![p] = pc]
        /\ UNCHANGED <<p_ppid, pt, prAsk>>
    BY <1>16 DEF ptret, ptretEnds
  <2>2. \A q \in PrProcs : prPc[q] # "ptgate"
    BY <1>16, <2>1, GateFreeForOne DEF ptret
  <2>3. \A q \in PrProcs \ {p} : p_state[q] = "PSRUN" => p_state'[q] = "PSRUN"
    <3>1. \A q \in PrProcs : p_state[q] = "PSRUN" => Told(p)[q] = "PSRUN"
      BY WokenFacts DEF Told
    <3>2. Told(p) \in [PrProcs -> {"none", "PSRUN", "PSSLSIG", "PSDEAD"}]
      BY WokenFacts DEF Told
    <3> QED BY <1>16, <3>1, <3>2 DEF ptret
  <2> QED BY <2>1, <2>2, <2>3 DEF ForMe
<1>17. ASSUME NEW p \in PrProcs, ptretServes(p) PROVE Transaction'
  <2>1. /\ prPc[p] = "ptret" /\ ForMe(p)
        /\ pt' = [pt EXCEPT !.busy = FALSE]
        /\ UNCHANGED <<p_ppid, prAsk>>
    BY <1>17 DEF ptretServes
  <2>2. \E pc \in {"user", "exit", "ptret"} : prPc' = [prPc EXCEPT ![p] = pc]
    <3>1. pt.req \in Requests
      BY <2>1 DEF ForMe
    <3>2. UNCHANGED prPc \/ ptretEnds(p, "user") \/ ptretEnds(p, "exit")
      BY <1>17, <3>1 DEF ptretServes, Requests, got_signal
    <3> QED BY <2>1, <3>2 DEF ptretEnds
  <2>3. \A q \in PrProcs : prPc[q] # "ptgate"
    BY <1>17, <2>1, GateFreeForOne DEF ptretServes
  <2>4. pt'.gate = pt.gate /\ ~pt'.busy
    BY <2>1
  <2> QED BY <2>1, <2>2, <2>3, <2>4
<1>18. CASE UNCHANGED prVars
  BY <1>18 DEF prVars
<1> HIDE DEF Transaction, FamilyInv, Runs
<1> QED
  BY <1>1, <1>2, <1>3, <1>4, <1>5, <1>6, <1>7, <1>8, <1>9, <1>10, <1>13, <1>14,
     <1>15, <1>16, <1>17, <1>18, <1>11, <1>12
  DEF PrNext

\* With one debugger, a request to a traced process is answered: while the
\* debugger waits, the child is runnable in ptret and the request is its own.
THEOREM ProcessAnswered ==
  ASSUME OneDebugger
  PROVE  PrSpec => []PrServed
<1>1. PrInit => Transaction
  BY PrAssumption DEF PrInit, ptsFree, Transaction
<1>2. FamilyInv /\ Transaction /\ [PrNext]_prVars => Transaction'
  BY TransactionNext
<1>3. FamilyInv /\ Transaction => PrAnswered
  BY DEF Transaction, PrAnswered
<1>4. PrSpec => []PrAnswered
  BY <1>1, <1>2, <1>3, FamilyInvariance, PTL DEF PrSpec
<1>5. PrWaitServed /\ PrAnswered => PrServed
  BY DEF PrServed
<1> QED BY <1>4, <1>5, ProcessWaitServed, PTL

----------------------------------------------------------------------------
(* Free blocks: chains of lists.                                           *)

Lists == Seq(Blocks)
Descends(s) == \A i \in 2 .. Len(s) - 1 : s[i] > s[i + 1]

\* The lists L[0], .., L[m] start with s and go on where bk has the next.
IsChain(L, m, s, bk) ==
  /\ m \in Nat /\ L \in [0 .. m -> Lists]
  /\ L[0] = s /\ L[m] = <<>>
  /\ \A k \in 1 .. m : L[k - 1] # <<>> /\ L[k] = bk[L[k - 1][1]]

Spots(L, m) == {x \in (0 .. m) \X Nat : x[2] \in 1 .. Len(L[x[1]])}
BlockAt(L, x) == L[x[1]][x[2]]
Single(L, m) == \A x, y \in Spots(L, m) : BlockAt(L, x) = BlockAt(L, y) => x = y

Members(L, m) == {BlockAt(L, x) : x \in Spots(L, m)}

IsFree(L, m, s, bk) ==
  /\ IsChain(L, m, s, bk) /\ Single(L, m)
  /\ t_sortblocks => \A k \in 0 .. m : Descends(L[k])

HasChain(s, bk, F) == \E L, m : IsFree(L, m, s, bk) /\ Members(L, m) = F

\* No block twice in a list.
Distinct(s) == \A i, j \in 1 .. Len(s) : s[i] = s[j] => i = j

LEMMA SpotIs ==
  \A L, m, k, i : m \in Nat /\ L \in [0 .. m -> Lists] =>
    (<<k, i>> \in Spots(L, m) <=> k \in 0 .. m /\ i \in 1 .. Len(L[k]))
<1> SUFFICES ASSUME NEW L, NEW m, NEW k, NEW i, m \in Nat, L \in [0 .. m -> Lists]
             PROVE  <<k, i>> \in Spots(L, m) <=> k \in 0 .. m /\ i \in 1 .. Len(L[k])
  OBVIOUS
<1>1. k \in 0 .. m => Len(L[k]) \in Nat
  BY DEF Lists
<1> QED BY <1>1 DEF Spots

IsLists(L, m) == m \in Nat /\ L \in [0 .. m -> Lists]

\* A chain in plain words: every place is one list's and one entry's.
LEMMA MembersAre ==
  ASSUME NEW L, NEW m, IsLists(L, m)
  PROVE  /\ \A k \in 0 .. m : \A i \in 1 .. Len(L[k]) : L[k][i] \in Members(L, m)
         /\ \A b \in Members(L, m) : \E k \in 0 .. m : \E i \in 1 .. Len(L[k]) : b = L[k][i]
         /\ Members(L, m) \subseteq Blocks
         /\ Single(L, m) <=>
              \A j, k \in 0 .. m : \A i \in 1 .. Len(L[j]), h \in 1 .. Len(L[k]) :
                 L[j][i] = L[k][h] => j = k /\ i = h
<1>0. m \in Nat /\ L \in [0 .. m -> Lists]
  BY DEF IsLists
<1>1. \A k \in 0 .. m : \A i \in 1 .. Len(L[k]) :
        <<k, i>> \in Spots(L, m) /\ BlockAt(L, <<k, i>>) = L[k][i]
  BY <1>0, SpotIs DEF BlockAt
<1>2. \A x \in Spots(L, m) : /\ x[1] \in 0 .. m /\ x[2] \in 1 .. Len(L[x[1]])
                             /\ x = <<x[1], x[2]>> /\ BlockAt(L, x) = L[x[1]][x[2]]
  BY DEF Spots, BlockAt
<1>3. \A k \in 0 .. m : \A i \in 1 .. Len(L[k]) : L[k][i] \in Blocks
  BY <1>0 DEF Lists
<1>4. /\ \A k \in 0 .. m : \A i \in 1 .. Len(L[k]) : L[k][i] \in Members(L, m)
      /\ \A b \in Members(L, m) : \E k \in 0 .. m : \E i \in 1 .. Len(L[k]) : b = L[k][i]
  <2>1. ASSUME NEW k \in 0 .. m, NEW i \in 1 .. Len(L[k]) PROVE L[k][i] \in Members(L, m)
    <3>1. PICK x : x = <<k, i>>
      OBVIOUS
    <3>2. x \in Spots(L, m) /\ BlockAt(L, x) = L[k][i]
      BY <1>1, <3>1
    <3> QED BY <3>2 DEF Members
  <2>2. ASSUME NEW b \in Members(L, m) PROVE \E k \in 0 .. m : \E i \in 1 .. Len(L[k]) : b = L[k][i]
    <3>1. PICK x \in Spots(L, m) : b = BlockAt(L, x)
      BY DEF Members
    <3> QED BY <1>2, <3>1
  <2> QED BY <2>1, <2>2
<1>5. Members(L, m) \subseteq Blocks
  BY <1>3, <1>4
<1>6. ASSUME Single(L, m), NEW j \in 0 .. m, NEW k \in 0 .. m, NEW i \in 1 .. Len(L[j]),
             NEW h \in 1 .. Len(L[k]), L[j][i] = L[k][h]
      PROVE  j = k /\ i = h
  <2>1. <<j, i>> = <<k, h>>
    <3>1. PICK x, y : x = <<j, i>> /\ y = <<k, h>>
      OBVIOUS
    <3>2. x \in Spots(L, m) /\ y \in Spots(L, m) /\ BlockAt(L, x) = BlockAt(L, y)
      BY <1>1, <1>6, <3>1
    <3> QED BY <1>6, <3>1, <3>2 DEF Single
  <2> QED BY <2>1
<1>7. ASSUME \A j, k \in 0 .. m : \A i \in 1 .. Len(L[j]), h \in 1 .. Len(L[k]) :
               L[j][i] = L[k][h] => j = k /\ i = h
      PROVE  Single(L, m)
  <2> SUFFICES ASSUME NEW x \in Spots(L, m), NEW y \in Spots(L, m), BlockAt(L, x) = BlockAt(L, y)
               PROVE  x = y
    BY DEF Single
  <2>1. x[1] = y[1] /\ x[2] = y[2]
    BY <1>2, <1>7
  <2> QED BY <1>2, <2>1
<1> QED BY <1>4, <1>5, <1>6, <1>7

LEMMA SingleIs ==
  \A L, m : IsLists(L, m) /\ Single(L, m) =>
    \A j, k \in 0 .. m : \A i \in 1 .. Len(L[j]), h \in 1 .. Len(L[k]) :
      L[j][i] = L[k][h] => j = k /\ i = h
BY MembersAre

LEMMA MemberIff ==
  \A L, m, b : IsLists(L, m) =>
    (b \in Members(L, m) <=> \E k \in 0 .. m : \E i \in 1 .. Len(L[k]) : b = L[k][i])
<1> SUFFICES ASSUME NEW L, NEW m, NEW b, IsLists(L, m)
             PROVE  b \in Members(L, m) <=> \E k \in 0 .. m : \E i \in 1 .. Len(L[k]) : b = L[k][i]
  OBVIOUS
<1>1. \A k \in 0 .. m : \A i \in 1 .. Len(L[k]) : L[k][i] \in Members(L, m)
  BY MembersAre
<1>2. \A c \in Members(L, m) : \E k \in 0 .. m : \E i \in 1 .. Len(L[k]) : c = L[k][i]
  BY MembersAre
<1> QED BY <1>1, <1>2

\* What the chain lemmas need: the parts without definitions.
LEMMA FreeIs ==
  ASSUME NEW L, NEW m, NEW s, NEW bk, IsFree(L, m, s, bk)
  PROVE  /\ IsLists(L, m)
         /\ m \in Nat /\ L \in [0 .. m -> Lists] /\ L[0] = s /\ L[m] = <<>>
         /\ \A k \in 0 .. m : Len(L[k]) \in Nat
         /\ \A k \in 1 .. m : L[k - 1] # <<>> /\ L[k] = bk[L[k - 1][1]]
         /\ \A j, k \in 0 .. m : \A i \in 1 .. Len(L[j]), h \in 1 .. Len(L[k]) :
              L[j][i] = L[k][h] => j = k /\ i = h
         /\ t_sortblocks => \A k \in 0 .. m : Descends(L[k])
<1>1. m \in Nat /\ L \in [0 .. m -> Lists] /\ IsLists(L, m)
  BY DEF IsFree, IsChain, IsLists
<1>2. \A k \in 0 .. m : Len(L[k]) \in Nat
  BY <1>1 DEF Lists
<1>3. \A j, k \in 0 .. m : \A i \in 1 .. Len(L[j]), h \in 1 .. Len(L[k]) :
        L[j][i] = L[k][h] => j = k /\ i = h
  <2>1. Single(L, m)
    BY DEF IsFree
  <2>2. IsLists(L, m)
    BY <1>1
  <2> QED BY <2>1, <2>2, SingleIs
<1> QED BY <1>1, <1>2, <1>3 DEF IsFree, IsChain

LEMMA FreeMade ==
  ASSUME NEW L, NEW m, NEW s, NEW bk,
         m \in Nat, L \in [0 .. m -> Lists], L[0] = s, L[m] = <<>>,
         \A k \in 1 .. m : L[k - 1] # <<>> /\ L[k] = bk[L[k - 1][1]],
         \A j, k \in 0 .. m : \A i \in 1 .. Len(L[j]), h \in 1 .. Len(L[k]) :
           L[j][i] = L[k][h] => j = k /\ i = h,
         t_sortblocks => \A k \in 0 .. m : Descends(L[k])
  PROVE  IsFree(L, m, s, bk)
<1>1. IsLists(L, m)
  BY DEF IsLists
<1>2. Single(L, m)
  BY <1>1, MembersAre
<1> QED BY <1>2 DEF IsFree, IsChain

In(s, c) == \E i \in 1 .. Len(s) : c = s[i]

\* The list t can take the place of the first one, s, in a chain.
Replaces(t, s, L, m, bk, bk2) ==
  /\ IsFree(L, m, s, bk) /\ s # <<>>
  /\ t \in Lists /\ t # <<>> /\ t[1] = s[1] /\ Distinct(t)
  /\ t_sortblocks => Descends(t)
  /\ \A i \in 1 .. Len(t) : t[i] \in Members(L, m) => In(s, t[i])
  /\ \A k \in 1 .. m : bk2[L[k - 1][1]] = bk[L[k - 1][1]]

\* The first list may change, except for its link.
LEMMA HeadChanged ==
  ASSUME NEW L, NEW m, NEW s, NEW bk, NEW t, NEW bk2, Replaces(t, s, L, m, bk, bk2)
  PROVE  \E M : /\ IsFree(M, m, t, bk2)
                /\ \A c : c \in Members(M, m) <=>
                         In(t, c) \/ (c \in Members(L, m) /\ ~ In(s, c))
<1>a. /\ IsFree(L, m, s, bk) /\ s # <<>>
      /\ t \in Lists /\ t # <<>> /\ t[1] = s[1] /\ Distinct(t)
      /\ t_sortblocks => Descends(t)
      /\ \A i \in 1 .. Len(t) : t[i] \in Members(L, m) => \E h \in 1 .. Len(s) : t[i] = s[h]
      /\ \A k \in 1 .. m : bk2[L[k - 1][1]] = bk[L[k - 1][1]]
  BY DEF Replaces, In
<1>0. IsLists(L, m)
  BY <1>a, FreeIs
<1>1. /\ m \in Nat /\ L \in [0 .. m -> Lists] /\ L[0] = s /\ L[m] = <<>>
      /\ \A k \in 0 .. m : Len(L[k]) \in Nat
      /\ \A k \in 1 .. m : L[k - 1] # <<>> /\ L[k] = bk[L[k - 1][1]]
      /\ \A j, k \in 0 .. m : \A i \in 1 .. Len(L[j]), h \in 1 .. Len(L[k]) :
           L[j][i] = L[k][h] => j = k /\ i = h
      /\ t_sortblocks => \A k \in 0 .. m : Descends(L[k])
  BY <1>a, FreeIs
<1>2. PICK M : M = [L EXCEPT ![0] = t]
  OBVIOUS
<1>3. m # 0 /\ m \in Nat
  BY <1>1, <1>a
<1>4. M \in [0 .. m -> Lists] /\ M[0] = t /\ \A k \in 1 .. m : M[k] = L[k]
  BY <1>1, <1>2, <1>a
<1>5. M[m] = <<>>
  BY <1>1, <1>3, <1>4, <1>a
<1>6. ASSUME NEW k \in 1 .. m PROVE M[k - 1] # <<>> /\ M[k] = bk2[M[k - 1][1]]
  <2>1. M[k] = L[k] /\ L[k - 1] # <<>> /\ L[k] = bk2[L[k - 1][1]]
    BY <1>1, <1>4, <1>a
  <2>2. CASE k = 1
    BY <1>1, <1>4, <2>1, <2>2, <1>a
  <2>3. CASE k # 1
    <3>1. k - 1 \in 1 .. m
      BY <1>3, <2>3
    <3> QED BY <1>4, <2>1, <3>1
  <2> QED BY <2>2, <2>3
<1>7. Len(t) \in Nat /\ Len(s) \in Nat
  BY <1>1, <1>3, <1>a DEF Lists
<1>8. \A k \in 1 .. m : \A h \in 1 .. Len(L[k]), i \in 1 .. Len(t) : t[i] # L[k][h]
  <2> SUFFICES ASSUME NEW k \in 1 .. m, NEW h \in 1 .. Len(L[k]), NEW i \in 1 .. Len(t),
                      t[i] = L[k][h]
               PROVE  FALSE
    OBVIOUS
  <2>1. k \in 0 .. m /\ 0 \in 0 .. m /\ k # 0
    BY <1>3
  <2>2. L[k][h] \in Members(L, m)
    <3>1. L[k][h] = L[k][h] /\ h \in 1 .. Len(L[k])
      OBVIOUS
    <3> QED BY <1>0, <2>1, <3>1, MemberIff
  <2>3. PICK g \in 1 .. Len(s) : t[i] = s[g]
    BY <2>2, <1>a
  <2>4. L[0][g] = L[k][h]
    BY <1>1, <2>3
  <2>5. g \in 1 .. Len(L[0])
    BY <1>1
  <2> QED BY <1>1, <2>1, <2>4, <2>5
<1>9. ASSUME NEW j \in 0 .. m, NEW k \in 0 .. m, NEW i \in 1 .. Len(M[j]),
             NEW h \in 1 .. Len(M[k]), M[j][i] = M[k][h]
      PROVE  j = k /\ i = h
  <2>1. CASE j = 0 /\ k = 0
    BY <1>4, <1>9, <2>1, <1>a DEF Distinct
  <2>2. CASE j = 0 /\ k # 0
    <3>1. k \in 1 .. m
      BY <1>3, <2>2
    <3>2. M[j] = t /\ M[k] = L[k]
      BY <1>4, <2>2, <3>1
    <3> QED BY <1>8, <1>9, <3>1, <3>2
  <2>3. CASE j # 0 /\ k = 0
    <3>1. j \in 1 .. m
      BY <1>3, <2>3
    <3>2. M[k] = t /\ M[j] = L[j]
      BY <1>4, <2>3, <3>1
    <3> QED BY <1>8, <1>9, <3>1, <3>2
  <2>4. CASE j # 0 /\ k # 0
    <3>1. j \in 1 .. m /\ k \in 1 .. m
      BY <1>3, <2>4
    <3>2. M[j] = L[j] /\ M[k] = L[k]
      BY <1>4, <3>1
    <3> QED BY <1>1, <1>9, <3>2
  <2> QED BY <2>1, <2>2, <2>3, <2>4
<1>10. t_sortblocks => \A k \in 0 .. m : Descends(M[k])
  BY <1>1, <1>3, <1>4, <1>a
<1>11. IsFree(M, m, t, bk2)
  BY <1>3, <1>4, <1>5, <1>6, <1>9, <1>10, <1>a, FreeMade
<1>12. ASSUME NEW b PROVE b \in Members(M, m) <=>
             \/ \E i \in 1 .. Len(t) : b = t[i]
             \/ \E k \in 1 .. m : \E i \in 1 .. Len(L[k]) : b = L[k][i]
  <2>1. b \in Members(M, m) <=> \E k \in 0 .. m : \E i \in 1 .. Len(M[k]) : b = M[k][i]
    <3>1. IsLists(M, m)
      BY <1>3, <1>4 DEF IsLists
    <3> QED BY <3>1, MemberIff
  <2> QED BY <1>3, <1>4, <2>1
<1>13. ASSUME NEW b PROVE b \in Members(L, m) <=>
             \/ \E i \in 1 .. Len(s) : b = s[i]
             \/ \E k \in 1 .. m : \E i \in 1 .. Len(L[k]) : b = L[k][i]
  <2>1. b \in Members(L, m) <=> \E k \in 0 .. m : \E i \in 1 .. Len(L[k]) : b = L[k][i]
    BY <1>0, MemberIff
  <2> QED BY <1>1, <1>3, <2>1
<1>14. \A k \in 1 .. m : \A h \in 1 .. Len(L[k]), i \in 1 .. Len(s) : s[i] # L[k][h]
  <2> SUFFICES ASSUME NEW k \in 1 .. m, NEW h \in 1 .. Len(L[k]), NEW i \in 1 .. Len(s),
                      s[i] = L[k][h]
               PROVE  FALSE
    OBVIOUS
  <2>1. k \in 0 .. m /\ 0 \in 0 .. m /\ k # 0
    BY <1>3
  <2>2. L[0][i] = L[k][h] /\ i \in 1 .. Len(L[0])
    BY <1>1
  <2> QED BY <1>1, <2>1, <2>2
<1>15. ASSUME NEW c
       PROVE  c \in Members(M, m) <=> In(t, c) \/ (c \in Members(L, m) /\ ~ In(s, c))
  BY <1>12, <1>13, <1>14 DEF In
<1> QED BY <1>11, <1>15

\* A block that is not in it becomes the link of a new first list.
LEMMA HeadPushed ==
  ASSUME NEW L, NEW m, NEW s, NEW bk, IsFree(L, m, s, bk),
         NEW b \in Blocks, b \notin Members(L, m),
         NEW bk2, bk2[b] = s, \A k \in 1 .. m : bk2[L[k - 1][1]] = bk[L[k - 1][1]]
  PROVE  \E M : /\ IsFree(M, m + 1, <<b>>, bk2)
                /\ Members(M, m + 1) = Members(L, m) \cup {b}
<1>0. IsLists(L, m)
  BY FreeIs
<1>1. /\ m \in Nat /\ L \in [0 .. m -> Lists] /\ L[0] = s /\ L[m] = <<>>
      /\ \A k \in 0 .. m : Len(L[k]) \in Nat
      /\ \A k \in 1 .. m : L[k - 1] # <<>> /\ L[k] = bk[L[k - 1][1]]
      /\ \A j, k \in 0 .. m : \A i \in 1 .. Len(L[j]), h \in 1 .. Len(L[k]) :
           L[j][i] = L[k][h] => j = k /\ i = h
      /\ t_sortblocks => \A k \in 0 .. m : Descends(L[k])
  BY FreeIs
<1>2. PICK M : M = [k \in 0 .. m + 1 |-> IF k = 0 THEN <<b>> ELSE L[k - 1]]
  OBVIOUS
<1>3. m \in Nat /\ m + 1 \in Nat
  BY <1>1
<1>4. PICK one : one = <<b>>
  OBVIOUS
<1>5. one \in Lists /\ Len(one) = 1 /\ one[1] = b /\ one # <<>>
  BY <1>4 DEF Lists
<1>6. M \in [0 .. m + 1 -> Lists] /\ M[0] = one
      /\ \A k \in 1 .. m + 1 : k - 1 \in 0 .. m /\ M[k] = L[k - 1] /\ k # 0
  <2>1. \A k \in 1 .. m + 1 : k - 1 \in 0 .. m /\ k # 0 /\ k \in 0 .. m + 1
    BY <1>3
  <2>2. \A k \in 0 .. m + 1 : k # 0 => k \in 1 .. m + 1
    BY <1>3
  <2> QED BY <1>1, <1>2, <1>3, <1>4, <1>5, <2>1, <2>2
<1>7. M[m + 1] = <<>>
  <2>1. m + 1 \in 1 .. m + 1 /\ m + 1 - 1 = m
    BY <1>3
  <2> QED BY <1>1, <1>6, <2>1
<1>8. ASSUME NEW k \in 1 .. m + 1 PROVE M[k - 1] # <<>> /\ M[k] = bk2[M[k - 1][1]]
  <2>1. CASE k = 1
    BY <1>1, <1>5, <1>6, <2>1
  <2>2. CASE k # 1
    <3>1. k - 1 \in 1 .. m /\ k - 1 \in 1 .. m + 1
      BY <1>3, <2>2
    <3>2. M[k] = L[k - 1] /\ M[k - 1] = L[k - 1 - 1]
      BY <1>6, <3>1
    <3> QED BY <1>1, <3>1, <3>2
  <2> QED BY <2>1, <2>2
<1>9. \A k \in 0 .. m : \A h \in 1 .. Len(L[k]) : L[k][h] # b
  BY <1>0, MembersAre
<1>10. ASSUME NEW j \in 0 .. m + 1, NEW k \in 0 .. m + 1, NEW i \in 1 .. Len(M[j]),
              NEW h \in 1 .. Len(M[k]), M[j][i] = M[k][h]
       PROVE  j = k /\ i = h
  <2>1. CASE j = 0 /\ k = 0
    <3>1. i \in 1 .. 1 /\ h \in 1 .. 1
      BY <1>5, <1>6, <2>1
    <3> QED BY <2>1, <3>1
  <2>2. CASE j = 0 /\ k # 0
    <3>1. k \in 1 .. m + 1 /\ M[j][i] = b
      <4>1. i \in 1 .. 1
        BY <1>5, <1>6, <2>2
      <4> QED BY <1>3, <1>5, <1>6, <2>2, <4>1
    <3>2. k - 1 \in 0 .. m /\ h \in 1 .. Len(L[k - 1]) /\ L[k - 1][h] = b
      BY <1>6, <1>10, <3>1
    <3> QED BY <1>9, <3>2
  <2>3. CASE j # 0 /\ k = 0
    <3>1. j \in 1 .. m + 1 /\ M[k][h] = b
      <4>1. h \in 1 .. 1
        BY <1>5, <1>6, <2>3
      <4> QED BY <1>3, <1>5, <1>6, <2>3, <4>1
    <3>2. j - 1 \in 0 .. m /\ i \in 1 .. Len(L[j - 1]) /\ L[j - 1][i] = b
      BY <1>6, <1>10, <3>1
    <3> QED BY <1>9, <3>2
  <2>4. CASE j # 0 /\ k # 0
    <3>1. j \in 1 .. m + 1 /\ k \in 1 .. m + 1
      BY <1>3, <2>4
    <3>2. /\ M[j] = L[j - 1] /\ M[k] = L[k - 1]
          /\ j - 1 \in 0 .. m /\ k - 1 \in 0 .. m
      BY <1>6, <3>1
    <3>3. j - 1 = k - 1 /\ i = h
      BY <1>1, <1>10, <3>2
    <3> QED BY <3>1, <3>3
  <2> QED BY <2>1, <2>2, <2>3, <2>4
<1>11. t_sortblocks => \A k \in 0 .. m + 1 : Descends(M[k])
  <2>1. Descends(one)
    BY <1>5 DEF Descends
  <2>2. \A k \in 0 .. m + 1 : k # 0 => k \in 1 .. m + 1
    BY <1>3
  <2> QED BY <1>1, <1>6, <2>1, <2>2
<1>12. IsFree(M, m + 1, one, bk2)
  <2>1. PICK n : n = m + 1
    OBVIOUS
  <2> HIDE <1>2
  <2>2. IsFree(M, n, one, bk2)
    BY <1>3, <1>6, <1>7, <1>8, <1>10, <1>11, <2>1, FreeMade
  <2> QED BY <2>1, <2>2
<1>13. ASSUME NEW c PROVE c \in Members(M, m + 1) <=> c \in Members(L, m) \/ c = b
  <2>1. c \in Members(L, m) <=> \E k \in 0 .. m : \E i \in 1 .. Len(L[k]) : c = L[k][i]
    BY <1>0, MemberIff
  <2>2. c \in Members(M, m + 1) <=> \E k \in 0 .. m + 1 : \E i \in 1 .. Len(M[k]) : c = M[k][i]
    <3>1. PICK n : n = m + 1
      OBVIOUS
    <3>2. c \in Members(M, n) <=> \E k \in 0 .. n : \E i \in 1 .. Len(M[k]) : c = M[k][i]
      <4>1. IsLists(M, n)
        BY <1>3, <1>6, <3>1 DEF IsLists
      <4> QED BY <4>1, MemberIff
    <3> QED BY <3>1, <3>2
  <2>3. ASSUME NEW k \in 0 .. m + 1, NEW i \in 1 .. Len(M[k]), c = M[k][i]
        PROVE  c \in Members(L, m) \/ c = b
    <3>1. CASE k = 0
      <4>1. i \in 1 .. 1
        BY <1>5, <1>6, <3>1
      <4> QED BY <1>5, <1>6, <2>3, <3>1, <4>1
    <3>2. CASE k # 0
      <4>1. k - 1 \in 0 .. m /\ M[k] = L[k - 1]
        BY <1>3, <1>6, <3>2
      <4> QED BY <2>1, <2>3, <4>1
    <3> QED BY <3>1, <3>2
  <2>4. ASSUME NEW k \in 0 .. m, NEW i \in 1 .. Len(L[k]), c = L[k][i]
        PROVE  c \in Members(M, m + 1)
    <3>1. k + 1 \in 1 .. m + 1 /\ k + 1 \in 0 .. m + 1 /\ k + 1 - 1 = k
      BY <1>3
    <3>2. M[k + 1] = L[k]
      BY <1>6, <3>1
    <3> QED BY <2>2, <2>4, <3>1, <3>2
  <2>5. c = b => c \in Members(M, m + 1)
    <3>1. 0 \in 0 .. m + 1 /\ 1 \in 1 .. Len(M[0]) /\ M[0][1] = b
      BY <1>3, <1>5, <1>6
    <3> QED BY <2>2, <3>1
  <2> QED BY <2>1, <2>2, <2>3, <2>4, <2>5
<1> QED BY <1>4, <1>12, <1>13

\* The link is the last entry of the first list; the second becomes the first.
LEMMA HeadPopped ==
  ASSUME NEW L, NEW m, NEW s, NEW bk, IsFree(L, m, s, bk), Len(s) = 1,
         NEW bk2, \A c \in Members(L, m) \ {s[1]} : bk2[c] = bk[c]
  PROVE  \E M : /\ IsFree(M, m - 1, bk[s[1]], bk2)
                /\ Members(M, m - 1) = Members(L, m) \ {s[1]}
<1>0. IsLists(L, m)
  BY FreeIs
<1>1. /\ m \in Nat /\ L \in [0 .. m -> Lists] /\ L[0] = s /\ L[m] = <<>>
      /\ \A k \in 0 .. m : Len(L[k]) \in Nat
      /\ \A k \in 1 .. m : L[k - 1] # <<>> /\ L[k] = bk[L[k - 1][1]]
      /\ \A j, k \in 0 .. m : \A i \in 1 .. Len(L[j]), h \in 1 .. Len(L[k]) :
           L[j][i] = L[k][h] => j = k /\ i = h
      /\ t_sortblocks => \A k \in 0 .. m : Descends(L[k])
  BY FreeIs
<1>2. m # 0 /\ m - 1 \in Nat
  <2>1. m = 0 => s = <<>>
    BY <1>1
  <2>2. s = <<>> => Len(s) = 0
    OBVIOUS
  <2>3. m \in Nat
    BY <1>1
  <2> QED BY <2>1, <2>2, <2>3
<1>3. PICK n : n = m - 1
  OBVIOUS
<1>4. n \in Nat /\ m = n + 1
  BY <1>1, <1>2, <1>3
<1>5. PICK M : M = [k \in 0 .. n |-> L[k + 1]]
  OBVIOUS
<1>6. M \in [0 .. n -> Lists] /\ \A k \in 0 .. n : k + 1 \in 1 .. m /\ M[k] = L[k + 1]
  BY <1>1, <1>4, <1>5
<1>7. M[0] = bk[s[1]] /\ M[n] = <<>>
  <2>1. 0 \in 0 .. n /\ n \in 0 .. n /\ 1 \in 1 .. m
    BY <1>4
  <2>2. M[0] = L[1] /\ M[n] = L[m]
    BY <1>4, <1>6, <2>1
  <2> QED BY <1>1, <2>1, <2>2
<1>8. ASSUME NEW k \in 1 .. n PROVE M[k - 1] # <<>> /\ M[k] = bk2[M[k - 1][1]]
  <2>1. /\ k \in 0 .. n /\ k - 1 \in 0 .. n /\ k + 1 \in 1 .. m /\ k + 1 - 1 = k /\ k \in 0 .. m
        /\ k # 0 /\ 0 \in 0 .. m
    BY <1>4
  <2>2. M[k] = L[k + 1] /\ M[k - 1] = L[k]
    BY <1>6, <2>1
  <2>3. L[k] # <<>> /\ L[k + 1] = bk[L[k][1]]
    <3>1. PICK j : j = k + 1
      OBVIOUS
    <3>2. j \in 1 .. m /\ j - 1 = k
      BY <2>1, <3>1
    <3>3. L[j - 1] # <<>> /\ L[j] = bk[L[j - 1][1]]
      BY <1>1, <3>2
    <3> QED BY <3>1, <3>2, <3>3
  <2>4. 1 \in 1 .. Len(L[k]) /\ 1 \in 1 .. Len(L[0])
    <3>1. L[k] \in Lists
      BY <1>1, <2>1
    <3>2. PICK l : l = L[k]
      OBVIOUS
    <3>3. l \in Seq(Blocks) /\ l # <<>>
      BY <2>3, <3>1, <3>2 DEF Lists
    <3>4. Len(l) \in Nat /\ Len(l) # 0
      BY <3>3
    <3>5. 1 \in 1 .. Len(l)
      BY <3>4
    <3>6. Len(L[0]) = 1
      BY <1>1
    <3>7. 1 \in 1 .. 1
      OBVIOUS
    <3> QED BY <3>2, <3>5, <3>6, <3>7
  <2>5. L[k][1] # L[0][1] /\ L[k][1] \in Members(L, m)
    <3>1. L[k][1] # L[0][1]
      BY <1>1, <2>1, <2>4
    <3> QED BY <1>0, <2>1, <2>4, <3>1, MembersAre
  <2> QED BY <1>1, <2>2, <2>3, <2>5
<1>9. ASSUME NEW j \in 0 .. n, NEW k \in 0 .. n, NEW i \in 1 .. Len(M[j]),
             NEW h \in 1 .. Len(M[k]), M[j][i] = M[k][h]
      PROVE  j = k /\ i = h
  <2>1. M[j] = L[j + 1] /\ M[k] = L[k + 1] /\ j + 1 \in 0 .. m /\ k + 1 \in 0 .. m
    BY <1>4, <1>6
  <2>2. j + 1 = k + 1 /\ i = h
    BY <1>1, <1>9, <2>1
  <2> QED BY <2>2
<1>10. t_sortblocks => \A k \in 0 .. n : Descends(M[k])
  <2> SUFFICES ASSUME t_sortblocks, NEW k \in 0 .. n PROVE Descends(M[k])
    OBVIOUS
  <2>1. M[k] = L[k + 1] /\ k + 1 \in 0 .. m
    BY <1>4, <1>6
  <2>2. \A j \in 0 .. m : Descends(L[j])
    BY <1>1
  <2> QED BY <2>1, <2>2
<1>11. IsFree(M, n, bk[s[1]], bk2)
  <2>1. PICK t : t = bk[s[1]]
    OBVIOUS
  <2>2. IsFree(M, n, t, bk2)
    BY <1>4, <1>6, <1>7, <1>8, <1>9, <1>10, <2>1, FreeMade
  <2> QED BY <2>1, <2>2
<1>12. ASSUME NEW c PROVE c \in Members(M, n) <=> c \in Members(L, m) /\ c # s[1]
  <2>1. c \in Members(L, m) <=> \E k \in 0 .. m : \E i \in 1 .. Len(L[k]) : c = L[k][i]
    BY <1>0, MemberIff
  <2>2. c \in Members(M, n) <=> \E k \in 0 .. n : \E i \in 1 .. Len(M[k]) : c = M[k][i]
    <3>1. IsLists(M, n)
      BY <1>4, <1>6 DEF IsLists
    <3> QED BY <3>1, MemberIff
  <2>3. ASSUME NEW k \in 0 .. n, NEW i \in 1 .. Len(M[k]), c = M[k][i]
        PROVE  c \in Members(L, m) /\ c # s[1]
    <3>1. M[k] = L[k + 1] /\ k + 1 \in 0 .. m /\ k + 1 # 0 /\ 0 \in 0 .. m
      BY <1>4, <1>6
    <3>2. c \in Members(L, m)
      BY <2>1, <2>3, <3>1
    <3>3. 1 \in 1 .. Len(L[0]) /\ L[0][1] = s[1]
      <4>1. L[0] = s /\ Len(L[0]) = 1 /\ 1 \in 1 .. 1
        BY <1>1
      <4> QED BY <4>1
    <3>4. c # L[0][1]
      BY <1>1, <2>3, <3>1, <3>3
    <3> QED BY <3>2, <3>3, <3>4
  <2>4. ASSUME NEW k \in 0 .. m, NEW i \in 1 .. Len(L[k]), c = L[k][i], c # s[1]
        PROVE  c \in Members(M, n)
    <3>1. k # 0
      <4>1. CASE k = 0
        <5>1. i \in 1 .. 1
          BY <1>1, <4>1
        <5> QED BY <1>1, <2>4, <4>1, <5>1
      <4> QED BY <4>1
    <3>2. k - 1 \in 0 .. n /\ k - 1 + 1 = k
      BY <1>4, <3>1
    <3>3. M[k - 1] = L[k]
      BY <1>6, <3>2
    <3> QED BY <2>2, <2>4, <3>2, <3>3
  <2> QED BY <2>1, <2>2, <2>3, <2>4
<1>13. Members(M, n) = Members(L, m) \ {s[1]}
  BY <1>12
<1> QED BY <1>3, <1>11, <1>13

\* What a chain says of its first list, and of its links.
LEMMA HeadIs ==
  ASSUME NEW L, NEW m, NEW s, NEW bk, IsFree(L, m, s, bk)
  PROVE  /\ m \in Nat /\ s \in Lists /\ Distinct(s) /\ (t_sortblocks => Descends(s))
         /\ s = <<>> <=> m = 0
         /\ \A i \in 1 .. Len(s) : s[i] \in Members(L, m)
         /\ \A k \in 1 .. m : L[k - 1][1] \in Members(L, m)
         /\ \A k \in 1 .. m : \A i \in 1 .. Len(s) : L[k - 1][1] = s[i] => k = 1 /\ i = 1
<1>0. IsLists(L, m)
  BY FreeIs
<1>1. /\ m \in Nat /\ L \in [0 .. m -> Lists] /\ L[0] = s /\ L[m] = <<>>
      /\ \A k \in 0 .. m : Len(L[k]) \in Nat
      /\ \A k \in 1 .. m : L[k - 1] # <<>> /\ L[k] = bk[L[k - 1][1]]
      /\ \A j, k \in 0 .. m : \A i \in 1 .. Len(L[j]), h \in 1 .. Len(L[k]) :
           L[j][i] = L[k][h] => j = k /\ i = h
      /\ t_sortblocks => \A k \in 0 .. m : Descends(L[k])
  BY FreeIs
<1>2. 0 \in 0 .. m
  BY <1>1
<1>3. s \in Lists /\ Distinct(s) /\ (t_sortblocks => Descends(s))
  BY <1>1, <1>2 DEF Distinct
<1>4. s = <<>> <=> m = 0
  <2>1. m # 0 => 1 \in 1 .. m
    BY <1>1
  <2> QED BY <1>1, <2>1
<1>5. \A i \in 1 .. Len(s) : s[i] \in Members(L, m)
  <2>1. \A i \in 1 .. Len(L[0]) : L[0][i] \in Members(L, m)
    BY <1>0, <1>2, MembersAre
  <2> QED BY <1>1, <2>1
<1>6. ASSUME NEW k \in 1 .. m
      PROVE  /\ k - 1 \in 0 .. m /\ 1 \in 1 .. Len(L[k - 1])
             /\ L[k - 1][1] \in Members(L, m)
  <2>1. k - 1 \in 0 .. m
    BY <1>1
  <2>2. L[k - 1] \in Lists /\ L[k - 1] # <<>>
    BY <1>1, <2>1
  <2>3. 1 \in 1 .. Len(L[k - 1])
    BY <2>2 DEF Lists
  <2> QED BY <1>0, <2>1, <2>3, MembersAre
<1>7. ASSUME NEW k \in 1 .. m, NEW i \in 1 .. Len(s), L[k - 1][1] = s[i]
      PROVE  k = 1 /\ i = 1
  <2>1. L[k - 1][1] = L[0][i] /\ i \in 1 .. Len(L[0])
    BY <1>1, <1>7
  <2>2. k - 1 = 0 /\ 1 = i
    BY <1>1, <1>2, <1>6, <2>1
  <2> QED BY <2>2
<1> QED BY <1>1, <1>3, <1>4, <1>5, <1>6, <1>7

\* t is the list s with b at its place, which is never the first.
Insertion(s, b, t) ==
  /\ t \in Lists /\ Len(t) = Len(s) + 1 /\ Distinct(t)
  /\ t_sortblocks => Descends(t)
  /\ s # <<>> => t[1] = s[1]
  /\ \A i \in 1 .. Len(t) : t[i] = b \/ \E j \in 1 .. Len(s) : t[i] = s[j]
  /\ \A j \in 1 .. Len(s) : \E i \in 1 .. Len(t) : t[i] = s[j]
  /\ \E i \in 1 .. Len(t) : t[i] = b

LEMMA InsertedAt ==
  ASSUME NEW s \in Lists, NEW b \in Blocks, \A i \in 1 .. Len(s) : s[i] # b, Distinct(s),
         NEW at \in 1 .. Len(s) + 1, s # <<>> => at # 1,
         t_sortblocks => /\ Descends(s)
                         /\ at <= Len(s) => s[at] < b
                         /\ \A j \in 2 .. at - 1 : s[j] > b,
         NEW t \in Lists, Len(t) = Len(s) + 1,
         \A i \in 1 .. Len(t) : t[i] = IF i < at THEN s[i] ELSE IF i = at THEN b ELSE s[i - 1]
  PROVE  Insertion(s, b, t)
<1>1. Len(s) \in Nat /\ Len(t) \in Nat
  BY DEF Lists
<1>2. \A i \in 1 .. Len(t) : /\ i < at => i \in 1 .. Len(s)
                             /\ i > at => i - 1 \in 1 .. Len(s)
  BY <1>1
<1>3. Distinct(t)
  <2> SUFFICES ASSUME NEW i \in 1 .. Len(t), NEW j \in 1 .. Len(t), t[i] = t[j]
               PROVE  i = j
    BY DEF Distinct
  <2>1. PICK i2, j2 : /\ i2 = (IF i < at THEN i ELSE i - 1) /\ j2 = (IF j < at THEN j ELSE j - 1)
    OBVIOUS
  <2>2. CASE i = at \/ j = at
    BY <1>1, <1>2, <2>2
  <2>3. CASE i # at /\ j # at
    <3>1. /\ i2 \in 1 .. Len(s) /\ j2 \in 1 .. Len(s) /\ t[i] = s[i2] /\ t[j] = s[j2]
      BY <1>1, <1>2, <2>1, <2>3
    <3>2. i2 = j2
      BY <3>1 DEF Distinct
    <3> QED BY <1>1, <2>1, <2>3, <3>2
  <2> QED BY <2>2, <2>3
<1>4. ASSUME t_sortblocks PROVE Descends(t)
  <2> SUFFICES ASSUME NEW i \in 2 .. Len(t) - 1 PROVE t[i] > t[i + 1]
    BY DEF Descends
  <2>1. /\ i \in 1 .. Len(t) /\ i + 1 \in 1 .. Len(t) /\ i \in Nat /\ at \in Nat
        /\ i <= Len(s)
    BY <1>1
  <2>2. \A h \in 2 .. Len(s) - 1 : s[h] > s[h + 1]
    BY <1>4 DEF Descends
  <2>3. CASE i + 1 < at
    <3>1. t[i] = s[i] /\ t[i + 1] = s[i + 1] /\ i \in 2 .. Len(s) - 1
      BY <1>1, <2>1, <2>3
    <3> QED BY <2>2, <3>1
  <2>4. CASE i + 1 = at
    <3>1. t[i] = s[i] /\ t[i + 1] = b /\ i \in 2 .. at - 1
      BY <1>1, <2>1, <2>4
    <3> QED BY <1>4, <3>1
  <2>5. CASE i = at
    <3>1. t[i] = b /\ t[i + 1] = s[i] /\ at <= Len(s)
      BY <1>1, <2>1, <2>5
    <3>2. s[at] < b /\ s[at] \in Int /\ b \in Int
      <4>1. at \in 1 .. Len(s)
        BY <1>1, <3>1
      <4>2. s[at] \in Blocks
        BY <4>1 DEF Lists
      <4> QED BY <1>4, <3>1, <4>2, FlAssumption DEF Blocks
    <3> QED BY <2>5, <3>1, <3>2
  <2>6. CASE i > at
    <3>1. t[i] = s[i - 1] /\ t[i + 1] = s[i] /\ i - 1 \in 1 .. Len(s) - 1 /\ i - 1 + 1 = i
      BY <1>1, <2>1, <2>6
    <3>2. i - 1 # 1
      <4>1. s # <<>>
        BY <1>1, <2>1
      <4> QED BY <2>1, <2>6, <4>1
    <3>3. i - 1 \in 2 .. Len(s) - 1
      BY <1>1, <3>1, <3>2
    <3> QED BY <2>2, <3>1, <3>3
  <2> QED BY <2>1, <2>3, <2>4, <2>5, <2>6
<1>5. ASSUME s # <<>> PROVE t[1] = s[1]
  BY <1>1, <1>5
<1>6. \A i \in 1 .. Len(t) : t[i] = b \/ \E j \in 1 .. Len(s) : t[i] = s[j]
  BY <1>1, <1>2
<1>7. ASSUME NEW j \in 1 .. Len(s) PROVE \E i \in 1 .. Len(t) : t[i] = s[j]
  <2>1. CASE j < at
    <3>1. j \in 1 .. Len(t) /\ t[j] = s[j]
      BY <1>1, <2>1
    <3> QED BY <3>1
  <2>2. CASE ~ (j < at)
    <3>1. j + 1 \in 1 .. Len(t) /\ j + 1 > at /\ j + 1 - 1 = j
      BY <1>1, <2>2
    <3>2. t[j + 1] = s[j]
      BY <3>1
    <3> QED BY <3>1, <3>2
  <2> QED BY <2>1, <2>2
<1>8. \E i \in 1 .. Len(t) : t[i] = b
  <2>1. at \in 1 .. Len(t) /\ t[at] = b
    BY <1>1
  <2> QED BY <2>1
<1> QED BY <1>3, <1>4, <1>5, <1>6, <1>7, <1>8 DEF Insertion

LEMMA Joined ==
  ASSUME NEW S, NEW u \in Seq(S), NEW v \in Seq(S)
  PROVE  /\ u \o v \in Seq(S) /\ Len(u \o v) = Len(u) + Len(v)
         /\ Len(u) \in Nat /\ Len(v) \in Nat
         /\ \A i \in 1 .. Len(u) : (u \o v)[i] = u[i]
         /\ \A i \in 1 .. Len(v) : (u \o v)[Len(u) + i] = v[i]
OBVIOUS

\* bfree's list with b in it.
Sorted(s, b) == IF t_sortblocks /\ s # <<>> THEN daddr_add(s, b) ELSE Append(s, b)

LEMMA SortedIs ==
  ASSUME NEW s \in Lists, NEW b \in Blocks, \A i \in 1 .. Len(s) : s[i] # b, Distinct(s),
         t_sortblocks => Descends(s)
  PROVE  Insertion(s, b, Sorted(s, b))
<1>1. Len(s) \in Nat /\ \A i \in 1 .. Len(s) : s[i] \in Nat
  BY FlAssumption DEF Lists, Blocks
<1>2. CASE ~ (t_sortblocks /\ s # <<>>)
  <2>1. PICK t : t = Append(s, b)
    OBVIOUS
  <2>2. PICK at : at = Len(s) + 1
    OBVIOUS
  <2>3. t \in Lists /\ Len(t) = Len(s) + 1 /\ at \in 1 .. Len(s) + 1 /\ (s # <<>> => at # 1)
    BY <1>1, <2>1, <2>2 DEF Lists
  <2>4. \A i \in 1 .. Len(t) : t[i] = IF i < at THEN s[i] ELSE IF i = at THEN b ELSE s[i - 1]
    BY <1>1, <2>1, <2>2, <2>3 DEF Lists
  <2>5. t_sortblocks => /\ Descends(s) /\ (at <= Len(s) => s[at] < b)
                        /\ \A j \in 2 .. at - 1 : s[j] > b
    BY <1>1, <1>2, <2>2
  <2>6. Insertion(s, b, t)
    BY <2>3, <2>4, <2>5, InsertedAt
  <2> QED BY <1>2, <2>1, <2>6 DEF Sorted
<1>3. CASE t_sortblocks /\ s # <<>>
  <2>1. b \notin {s[i] : i \in 2 .. Len(s)} /\ b \in Nat
    BY <1>1, FlAssumption DEF Blocks
  <2> DEFINE Good(at) == /\ at <= Len(s) => s[at] < b
                         /\ \A j \in 2 .. at - 1 : s[j] > b
             Ends == {i \in 2 .. Len(s) + 1 : i = Len(s) + 1 \/ s[i] < b}
  <2>2. \E at \in 2 .. Len(s) + 1 : Good(at)
    <3>1. Len(s) + 1 \in Ends /\ Ends \subseteq Nat
      BY <1>1, <1>3 DEF Lists
    <3>2. PICK at \in Ends : \A i \in Ends : at <= i
      <4> HIDE DEF Ends
      <4>1. Ends # {}
        BY <3>1
      <4> QED BY <3>1, <4>1, LeastNat
    <3>3. ASSUME NEW j \in 2 .. at - 1 PROVE s[j] > b
      <4>1. j \in 2 .. Len(s) /\ j \notin Ends
        BY <1>1, <3>2
      <4>2. ~ (s[j] < b) /\ s[j] # b /\ s[j] \in Nat
        BY <1>1, <4>1
      <4> QED BY <2>1, <4>2
    <3>4. at <= Len(s) => s[at] < b
      BY <1>1, <3>2
    <3>5. at \in 2 .. Len(s) + 1
      OBVIOUS
    <3> QED BY <3>3, <3>4, <3>5
  <2>3. PICK at : at = CHOOSE i \in 2 .. Len(s) + 1 : Good(i)
    OBVIOUS
  <2>4. at \in 2 .. Len(s) + 1 /\ Good(at)
    <3> HIDE DEF Good
    <3> QED BY <2>2, <2>3
  <2>5. PICK t : t = SubSeq(s, 1, at - 1) \o <<b>> \o SubSeq(s, at, Len(s))
    OBVIOUS
  <2>6. Sorted(s, b) = t
    BY <1>3, <2>1, <2>3, <2>5 DEF Sorted, daddr_add
  <2> HIDE DEF Ends
  <2>7. PICK u, v, w : u = SubSeq(s, 1, at - 1) /\ v = <<b>> /\ w = SubSeq(s, at, Len(s))
    OBVIOUS
  <2>8. /\ u \in Seq(Blocks) /\ Len(u) = at - 1 /\ \A i \in 1 .. at - 1 : u[i] = s[i]
        /\ v \in Seq(Blocks) /\ Len(v) = 1 /\ v[1] = b
        /\ w \in Seq(Blocks) /\ Len(w) = Len(s) + 1 - at
        /\ \A i \in 1 .. Len(s) + 1 - at : w[i] = s[at + i - 1]
    <3>1. s \in Seq(Blocks) /\ at \in 2 .. Len(s) + 1
      BY <2>4 DEF Lists
    <3>2. u \in Seq(Blocks) /\ Len(u) = at - 1 /\ \A i \in 1 .. at - 1 : u[i] = s[i]
      BY <1>1, <2>7, <3>1
    <3>3. w \in Seq(Blocks) /\ Len(w) = Len(s) + 1 - at
      BY <1>1, <2>7, <3>1
    <3>4. \A i \in 1 .. Len(s) + 1 - at : w[i] = s[at + i - 1]
      BY <1>1, <2>7, <3>1
    <3> QED BY <2>7, <3>2, <3>3, <3>4
  <2>9. /\ t \in Seq(Blocks) /\ Len(t) = Len(s) + 1
        /\ \A i \in 1 .. Len(t) : t[i] = IF i < at THEN s[i] ELSE IF i = at THEN b ELSE s[i - 1]
    <3>1. PICK x : x = u \o v
      OBVIOUS
    <3>2. /\ x \in Seq(Blocks) /\ Len(x) = at
          /\ \A i \in 1 .. at : x[i] = IF i < at THEN s[i] ELSE b
      <4>1. /\ x \in Seq(Blocks) /\ Len(x) = Len(u) + Len(v)
            /\ \A i \in 1 .. Len(u) : x[i] = u[i]
            /\ \A i \in 1 .. Len(v) : x[Len(u) + i] = v[i]
        BY <2>8, <3>1, Joined
      <4>2. Len(x) = at /\ at - 1 + 1 = at /\ 1 \in 1 .. 1
        BY <1>1, <2>4, <2>8, <4>1
      <4>3. x[at] = b
        BY <2>8, <4>1, <4>2
      <4>4. \A i \in 1 .. at : i # at => i \in 1 .. at - 1 /\ i < at
        BY <1>1, <2>4
      <4> QED BY <1>1, <2>8, <4>1, <4>2, <4>3, <4>4
    <3>3. t = x \o w
      BY <2>5, <2>7, <3>1
    <3>4. /\ t \in Seq(Blocks) /\ Len(t) = Len(s) + 1
          /\ \A i \in 1 .. at : t[i] = x[i]
          /\ \A i \in at + 1 .. Len(s) + 1 : t[i] = w[i - at]
      <4>1. /\ t \in Seq(Blocks) /\ Len(t) = Len(x) + Len(w)
            /\ \A i \in 1 .. Len(x) : t[i] = x[i]
            /\ \A i \in 1 .. Len(w) : t[Len(x) + i] = w[i]
        <5>1. x \in Seq(Blocks) /\ w \in Seq(Blocks)
          BY <2>8, <3>2
        <5> QED BY <3>3, <5>1, Joined
      <4>2. Len(t) = Len(s) + 1
        BY <1>1, <2>4, <2>8, <3>2, <4>1
      <4>3. \A i \in at + 1 .. Len(s) + 1 : i - at \in 1 .. Len(w) /\ at + (i - at) = i
        BY <1>1, <2>4, <2>8
      <4> QED BY <3>2, <4>1, <4>2, <4>3
    <3>5. \A i \in at + 1 .. Len(s) + 1 : w[i - at] = s[i - 1]
      <4> SUFFICES ASSUME NEW i \in at + 1 .. Len(s) + 1 PROVE w[i - at] = s[i - 1]
        OBVIOUS
      <4>1. i - at \in 1 .. Len(s) + 1 - at /\ at + (i - at) - 1 = i - 1
        BY <1>1, <2>4
      <4> QED BY <2>8, <4>1
    <3>6. \A i \in 1 .. Len(t) : i \in 1 .. at \/ i \in at + 1 .. Len(s) + 1
      BY <1>1, <2>4, <3>4
    <3> QED BY <1>1, <2>4, <3>2, <3>4, <3>5, <3>6
  <2>10. at \in 1 .. Len(s) + 1 /\ at # 1
    BY <1>1, <2>4
  <2>11. Insertion(s, b, t)
    <3>1. t \in Lists
      BY <2>9 DEF Lists
    <3> QED BY <2>4, <2>9, <2>10, <3>1, InsertedAt
  <2> QED BY <2>6, <2>11
<1> QED BY <1>2, <1>3

----------------------------------------------------------------------------
(* Free blocks: balloc and bfree.                                          *)

LEMMA FrontIs ==
  ASSUME NEW t \in Lists, t # <<>>
  PROVE  /\ Front(t) \in Lists /\ Len(Front(t)) = Len(t) - 1 /\ Len(t) \in Nat \ {0}
         /\ \A i \in 1 .. Len(t) - 1 : Front(t)[i] = t[i]
         /\ Last(t) = t[Len(t)] /\ Last(t) \in Blocks
         /\ Append(Front(t), Last(t)) = t
         /\ Distinct(t) => Distinct(Front(t)) /\ \A i \in 1 .. Len(t) - 1 : Front(t)[i] # Last(t)
         /\ Descends(t) => Descends(Front(t))
<1>1. t \in Seq(Blocks) /\ Len(t) \in Nat \ {0}
  BY DEF Lists
<1>2. PICK u, b : u = SubSeq(t, 1, Len(t) - 1) /\ b = t[Len(t)]
  OBVIOUS
<1>3. /\ u \in Seq(Blocks) /\ Len(u) = Len(t) - 1 /\ b \in Blocks
      /\ \A i \in 1 .. Len(t) - 1 : u[i] = t[i]
  <2>1. PICK n : n = Len(t) - 1
    OBVIOUS
  <2>2. n \in Nat /\ n <= Len(t) /\ u = SubSeq(t, 1, n)
    BY <1>1, <1>2, <2>1
  <2>3. u \in Seq(Blocks) /\ Len(u) = n /\ \A i \in 1 .. n : u[i] = t[i]
    <3>1. u \in Seq(Blocks) /\ Len(u) = n
      BY <1>1, <2>2
    <3>2. \A i \in 1 .. n : u[i] = t[i]
      BY <1>1, <2>2
    <3> QED BY <3>1, <3>2
  <2>4. b \in Blocks
    BY <1>1, <1>2
  <2> QED BY <2>1, <2>3, <2>4
<1>4. \A i \in 1 .. Len(t) - 1 : u[i] = t[i]
  BY <1>3
<1>5. Append(u, b) = t
  <2>1. Append(u, b) \in Seq(Blocks) /\ Len(Append(u, b)) = Len(t)
    BY <1>1, <1>3
  <2>2. \A i \in 1 .. Len(t) : Append(u, b)[i] = t[i]
    <3>1. \A i \in 1 .. Len(t) : i = Len(t) \/ i \in 1 .. Len(t) - 1
      BY <1>1
    <3>2. \A i \in 1 .. Len(t) - 1 : Append(u, b)[i] = u[i]
      BY <1>1, <1>3
    <3>3. Append(u, b)[Len(t)] = b
      BY <1>1, <1>3
    <3> QED BY <1>2, <1>4, <3>1, <3>2, <3>3
  <2> QED BY <1>1, <2>1, <2>2
<1>6. Distinct(t) => Distinct(u) /\ \A i \in 1 .. Len(t) - 1 : u[i] # b
  <2>1. \A i \in 1 .. Len(t) - 1 : i \in 1 .. Len(t) /\ i # Len(t)
    BY <1>1
  <2>2. Len(t) \in 1 .. Len(t)
    BY <1>1
  <2> QED BY <1>2, <1>3, <1>4, <2>1, <2>2 DEF Distinct
<1>7. Descends(t) => Descends(u)
  <2>1. \A i \in 2 .. Len(u) - 1 : /\ i \in 2 .. Len(t) - 1 /\ i \in 1 .. Len(t) - 1
                                   /\ i + 1 \in 1 .. Len(t) - 1
    BY <1>1, <1>3
  <2> QED BY <1>4, <2>1 DEF Descends
<1> QED BY <1>1, <1>2, <1>3, <1>4, <1>5, <1>6, <1>7 DEF Front, Last, Lists

\* One entry of a list more, in a chain that then goes on in bk2.
LEMMA EntryMore ==
  ASSUME NEW s, NEW bk, NEW F, HasChain(s, bk, F), NEW b \in Blocks \ F,
         NEW t, Insertion(s, b, t), NEW list, NEW bk2, NEW front, NEW last,
         front = Front(t), last = Last(t),
         IF Len(front) \in {0, NICFREE}
         THEN list = <<last>> /\ bk2[last] = front
         ELSE list = t,
         \A c \in Blocks \ {last} : bk2[c] = bk[c]
  PROVE  HasChain(list, bk2, F \cup {b})
<1>1. PICK L, m : IsFree(L, m, s, bk) /\ Members(L, m) = F
  BY DEF HasChain
<1>2. /\ m \in Nat /\ s \in Lists /\ Distinct(s) /\ (t_sortblocks => Descends(s))
      /\ s = <<>> <=> m = 0
      /\ \A i \in 1 .. Len(s) : s[i] \in F
      /\ \A k \in 1 .. m : L[k - 1][1] \in F
      /\ \A k \in 1 .. m : \A i \in 1 .. Len(s) : L[k - 1][1] = s[i] => k = 1 /\ i = 1
  BY <1>1, HeadIs
<1>3. F \subseteq Blocks
  <2>1. IsLists(L, m)
    BY <1>1, FreeIs
  <2> QED BY <1>1, <2>1, MembersAre
<1>4. /\ t \in Lists /\ Len(t) = Len(s) + 1 /\ Len(s) \in Nat /\ t # <<>> /\ Distinct(t)
      /\ t_sortblocks => Descends(t)
      /\ s # <<>> => t[1] = s[1]
      /\ \A i \in 1 .. Len(t) : t[i] = b \/ \E j \in 1 .. Len(s) : t[i] = s[j]
      /\ \A j \in 1 .. Len(s) : \E i \in 1 .. Len(t) : t[i] = s[j]
      /\ \E i \in 1 .. Len(t) : t[i] = b
  <2>1. Insertion(s, b, t)
    OBVIOUS
  <2>2. t \in Lists /\ Len(t) = Len(s) + 1 /\ Len(s) \in Nat
    BY <1>2, <2>1 DEF Insertion, Lists
  <2>3. t # <<>>
    BY <2>2 DEF Lists
  <2> QED BY <2>1, <2>2, <2>3 DEF Insertion
<1>5. /\ front \in Lists /\ Len(front) = Len(s)
      /\ \A i \in 1 .. Len(s) : front[i] = t[i]
      /\ last = t[Len(t)] /\ last \in Blocks
      /\ Distinct(front) /\ \A i \in 1 .. Len(s) : front[i] # last
      /\ t_sortblocks => Descends(front)
  <2>1. Len(t) - 1 = Len(s)
    BY <1>4
  <2> QED BY <1>4, <2>1, FrontIs
<1>6. Len(t) \in 1 .. Len(t) /\ \A i \in 1 .. Len(t) : i \in 1 .. Len(s) \/ i = Len(t)
  BY <1>4
<1>7. last = b \/ \E j \in 1 .. Len(s) : last = s[j]
  BY <1>4, <1>5, <1>6
<1>8. s # <<>> => 1 \in 1 .. Len(s) /\ last # s[1]
  <2>1. s # <<>> => 1 \in 1 .. Len(s)
    BY <1>2 DEF Lists
  <2> QED BY <1>4, <1>5, <2>1
<1>9. \A k \in 1 .. m : L[k - 1][1] # last /\ L[k - 1][1] \in Blocks
  <2> SUFFICES ASSUME NEW k \in 1 .. m PROVE L[k - 1][1] # last /\ L[k - 1][1] \in Blocks
    OBVIOUS
  <2>1. L[k - 1][1] \in F /\ s # <<>>
    BY <1>2
  <2> QED BY <1>2, <1>3, <1>7, <1>8, <2>1
<1>10. \A k \in 1 .. m : bk2[L[k - 1][1]] = bk[L[k - 1][1]]
  BY <1>9
<1>14. \A c : In(t, c) <=> c = b \/ In(s, c)
  BY <1>4 DEF In
<1>11. CASE s = <<>>
  <2>1. Len(s) = 0 /\ front = <<>> /\ last = b
    <3>1. Len(s) = 0
      BY <1>11
    <3> QED BY <1>5, <1>7, <3>1 DEF Lists
  <2>2. list = <<b>> /\ bk2[b] = s
    BY <1>5, <1>11, <2>1
  <2>3. PICK M : IsFree(M, m + 1, <<b>>, bk2) /\ Members(M, m + 1) = F \cup {b}
    BY <1>1, <1>10, <2>2, HeadPushed
  <2> QED BY <2>2, <2>3 DEF HasChain
<1>12. CASE s # <<>> /\ Len(front) = NICFREE
  <2>1. list = <<last>> /\ bk2[last] = front
    BY <1>12
  <2>2. front # <<>> /\ front[1] = s[1]
    <3>1. 1 \in 1 .. Len(s)
      BY <1>8, <1>12
    <3> QED BY <1>4, <1>5, <1>12, <3>1
  <2>3. \A i \in 1 .. Len(front) : front[i] \in F => \E h \in 1 .. Len(s) : front[i] = s[h]
    <3>1. \A i \in 1 .. Len(s) : i \in 1 .. Len(t)
      BY <1>4
    <3> QED BY <1>4, <1>5, <3>1
  <2>4. PICK M : /\ IsFree(M, m, front, bk)
                 /\ \A c : c \in Members(M, m) <=> In(front, c) \/ (c \in F /\ ~ In(s, c))
    <3>1. Replaces(front, s, L, m, bk, bk)
      BY <1>1, <1>5, <1>12, <2>2, <2>3 DEF Replaces, In
    <3> QED BY <1>1, <3>1, HeadChanged
  <2>5. last \notin Members(M, m)
    BY <1>5, <1>7, <2>4 DEF In
  <2>6. \A k \in 1 .. m : bk2[M[k - 1][1]] = bk[M[k - 1][1]]
    <3>1. \A k \in 1 .. m : M[k - 1][1] \in Members(M, m)
      BY <2>4, HeadIs
    <3>2. Members(M, m) \subseteq Blocks
      <4>1. IsLists(M, m)
        BY <2>4, FreeIs
      <4> QED BY <4>1, MembersAre
    <3> QED BY <2>5, <3>1, <3>2
  <2>7. PICK M2 : IsFree(M2, m + 1, <<last>>, bk2) /\ Members(M2, m + 1) = Members(M, m) \cup {last}
    BY <1>5, <2>1, <2>4, <2>5, <2>6, HeadPushed
  <2>8. Members(M, m) \cup {last} = F \cup {b}
    <3>1. \A c : In(front, c) \/ c = last <=> In(t, c)
      <4>1. \A i \in 1 .. Len(s) : i \in 1 .. Len(t)
        BY <1>4
      <4> QED BY <1>5, <1>6, <4>1 DEF In
    <3>2. \A c : In(s, c) => c \in F
      BY <1>2 DEF In
    <3>3. \A c : c \in Members(M, m) \cup {last} <=> c \in F \cup {b}
      BY <1>14, <2>4, <3>1, <3>2
    <3> QED BY <3>3
  <2> QED BY <2>1, <2>7, <2>8 DEF HasChain
<1>13. CASE s # <<>> /\ Len(front) # NICFREE
  <2>1. list = t
    <3>1. Len(front) # 0
      BY <1>5, <1>8, <1>13
    <3> QED BY <1>13, <3>1
  <2>2. \A i \in 1 .. Len(t) : t[i] \in F => \E h \in 1 .. Len(s) : t[i] = s[h]
    BY <1>4
  <2>3. PICK M : /\ IsFree(M, m, t, bk2)
                 /\ \A c : c \in Members(M, m) <=> In(t, c) \/ (c \in F /\ ~ In(s, c))
    <3>1. Replaces(t, s, L, m, bk, bk2)
      BY <1>1, <1>4, <1>10, <1>13, <2>2 DEF Replaces, In
    <3> QED BY <1>1, <3>1, HeadChanged
  <2>4. Members(M, m) = F \cup {b}
    <3>1. \A c : In(s, c) => c \in F
      BY <1>2 DEF In
    <3>2. \A c : c \in Members(M, m) <=> c \in F \cup {b}
      BY <1>14, <2>3, <3>1
    <3> QED BY <3>2
  <2> QED BY <2>1, <2>3, <2>4 DEF HasChain
<1> QED BY <1>11, <1>12, <1>13

\* The last entry of the first list less.
LEMMA EntryLess ==
  ASSUME NEW s, NEW bk, NEW F, HasChain(s, bk, F), s # <<>>,
         NEW bk2, NEW last, last = Last(s), \A c \in F \ {last} : bk2[c] = bk[c]
  PROVE  /\ last \in F
         /\ HasChain(IF Len(s) = 1 THEN bk[last] ELSE Front(s), bk2, F \ {last})
<1>1. PICK L, m : IsFree(L, m, s, bk) /\ Members(L, m) = F
  BY DEF HasChain
<1>2. /\ m \in Nat /\ s \in Lists /\ Distinct(s) /\ (t_sortblocks => Descends(s))
      /\ \A i \in 1 .. Len(s) : s[i] \in F
      /\ \A k \in 1 .. m : L[k - 1][1] \in F
      /\ \A k \in 1 .. m : \A i \in 1 .. Len(s) : L[k - 1][1] = s[i] => k = 1 /\ i = 1
  BY <1>1, HeadIs
<1>3. PICK front : front = Front(s)
  OBVIOUS
<1>4. /\ front \in Lists /\ Len(front) = Len(s) - 1 /\ Len(s) \in Nat \ {0}
      /\ \A i \in 1 .. Len(s) - 1 : front[i] = s[i]
      /\ last = s[Len(s)] /\ last \in Blocks
      /\ Distinct(front) /\ \A i \in 1 .. Len(s) - 1 : front[i] # last
      /\ t_sortblocks => Descends(front)
  BY <1>2, <1>3, FrontIs
<1>5. Len(s) \in 1 .. Len(s) /\ last \in F
  BY <1>2, <1>4
<1>6. CASE Len(s) = 1
  <2>1. last = s[1]
    BY <1>4, <1>6
  <2>2. PICK M : IsFree(M, m - 1, bk[s[1]], bk2) /\ Members(M, m - 1) = F \ {s[1]}
    BY <1>1, <1>6, <2>1, HeadPopped
  <2> QED BY <1>5, <1>6, <2>1, <2>2 DEF HasChain
<1>7. CASE Len(s) # 1
  <2>1. 1 \in 1 .. Len(s) - 1 /\ \A i \in 1 .. Len(s) - 1 : i \in 1 .. Len(s)
    BY <1>4, <1>7
  <2>2. front # <<>> /\ front[1] = s[1]
    BY <1>4, <2>1
  <2>3. \A i \in 1 .. Len(front) : front[i] \in F => \E h \in 1 .. Len(s) : front[i] = s[h]
    BY <1>4, <2>1
  <2>4. \A k \in 1 .. m : bk2[L[k - 1][1]] = bk[L[k - 1][1]]
    <3>1. \A k \in 1 .. m : L[k - 1][1] # last
      BY <1>2, <1>4, <1>5, <1>7
    <3> QED BY <1>2, <3>1
  <2>5. PICK M : /\ IsFree(M, m, front, bk2)
                 /\ \A c : c \in Members(M, m) <=> In(front, c) \/ (c \in F /\ ~ In(s, c))
    <3>1. Replaces(front, s, L, m, bk, bk2)
      BY <1>1, <1>4, <2>2, <2>3, <2>4 DEF Replaces, In
    <3> QED BY <1>1, <3>1, HeadChanged
  <2>6. Members(M, m) = F \ {last}
    <3>1. \A i \in 1 .. Len(s) : i = Len(s) \/ i \in 1 .. Len(s) - 1
      BY <1>4
    <3>2. \A c : In(s, c) => c \in F
      BY <1>2 DEF In
    <3>3. \A c : In(s, c) <=> c = last \/ In(front, c)
      BY <1>4, <1>5, <2>1, <3>1 DEF In
    <3>4. ~ In(front, last)
      BY <1>4 DEF In
    <3>5. \A c : c \in Members(M, m) <=> c \in F \ {last}
      BY <2>5, <3>2, <3>3, <3>4
    <3> QED BY <3>5
  <2> QED BY <1>3, <1>5, <1>7, <2>5, <2>6 DEF HasChain
<1> QED BY <1>6, <1>7
----------------------------------------------------------------------------
(* Free blocks: the chain that repeated calls of bfree leave.              *)

FormStates == [list : Lists, blk : [Blocks -> Lists]]

FormStep(prev, n) ==
  IF Len(prev.list) \in {0, NICFREE}
  THEN [list |-> <<FlEnd - n>>, blk |-> [prev.blk EXCEPT ![FlEnd - n] = prev.list]]
  ELSE [prev EXCEPT !.list = Append(@, FlEnd - n)]

LEMMA FlNumbers ==
  /\ FlSize \in Nat \ {0} /\ FlFirst \in Nat /\ FlEnd \in Nat /\ 0 \notin Blocks
  /\ \A n \in 1 .. FlSize : FlEnd - n \in Blocks
  /\ IsFiniteSet(Blocks) /\ Cardinality(Blocks) = FlSize
<1>1. FlFirst \in Nat \ {0} /\ FlEnd \in Nat /\ FlFirst < FlEnd
  BY FlAssumption
<1>2. IsFiniteSet(FlFirst .. FlEnd - 1)
      /\ Cardinality(FlFirst .. FlEnd - 1) = IF FlFirst > FlEnd - 1 THEN 0 ELSE FlEnd - 1 - FlFirst + 1
  BY <1>1, FS_Interval
<1> QED BY <1>1, <1>2 DEF FlSize, Blocks

LEMMA FormTyped ==
  ASSUME NEW r \in FormStates, NEW n \in 1 .. FlSize
  PROVE  FormStep(r, n) \in FormStates
<1>1. PICK b : b = FlEnd - n
  OBVIOUS
<1>2. b \in Blocks
  BY <1>1, FlNumbers
<1>3. r.list \in Lists /\ r.blk \in [Blocks -> Lists]
  BY DEF FormStates
<1>4. <<b>> \in Lists /\ Append(r.list, b) \in Lists
  BY <1>2, <1>3 DEF Lists
<1>5. [r.blk EXCEPT ![b] = r.list] \in [Blocks -> Lists]
  BY <1>2, <1>3
<1>6. [r EXCEPT !.list = Append(r.list, b)] \in FormStates
  BY <1>4 DEF FormStates
<1> QED BY <1>1, <1>4, <1>5, <1>6 DEF FormStep, FormStates

LEMMA FormattedIs ==
  /\ Formatted[0] = [list |-> <<>>, blk |-> [b \in Blocks |-> <<>>]]
  /\ \A n \in 1 .. FlSize : Formatted[n] = FormStep(Formatted[n - 1], n)
<1> DEFINE N == FlSize
           base == [list |-> <<>>, blk |-> [b \in Blocks |-> <<>>]]
           F == [x \in (1 .. N) \X FormStates |-> FormStep(x[2], x[1])]
           Is(g) == g = [n \in 0 .. N |-> IF n = 0 THEN base ELSE FormStep(g[n - 1], n)]
<1>0. N \in Nat
  BY FlNumbers
<1>1. base \in FormStates
  BY DEF FormStates, Lists
<1>2. F \in [(1 .. N) \X FormStates -> FormStates]
  <2>1. ASSUME NEW x \in (1 .. N) \X FormStates PROVE FormStep(x[2], x[1]) \in FormStates
    BY FormTyped
  <2> QED BY <2>1
<1>3. PICK g0 \in [0 .. N -> FormStates] : IsRec(g0, N, base, F)
  <2> HIDE DEF base, F, N
  <2> QED BY <1>0, <1>1, <1>2, RecExists
<1>4. Is(g0)
  <2>1. ASSUME NEW n \in 0 .. N, n # 0 PROVE F[<<n, g0[n - 1]>>] = FormStep(g0[n - 1], n)
    <3>1. <<n, g0[n - 1]>> \in (1 .. N) \X FormStates
      BY <1>0, <2>1
    <3> QED BY <3>1
  <2> HIDE DEF F, base
  <2> QED BY <1>3, <2>1 DEF IsRec
<1>5. Is(Formatted)
  <2>1. PICK g : g = CHOOSE h : Is(h)
    OBVIOUS
  <2>2. Is(g)
    BY <1>4, <2>1
  <2>3. Formatted = g
    BY <2>1 DEF Formatted, FormStep
  <2> QED BY <2>2, <2>3
<1>6. 0 \in 0 .. N /\ \A n \in 1 .. N : n \in 0 .. N /\ n # 0
  BY <1>0
<1> HIDE DEF N, base
<1>7. Formatted[0] = base /\ \A n \in 1 .. N : Formatted[n] = FormStep(Formatted[n - 1], n)
  BY <1>5, <1>6
<1> QED BY <1>7 DEF N, base

\* The blocks freed first are the highest.
Highest(n) == FlEnd - n .. FlEnd - 1

Formed(n) ==
  /\ Formatted[n] \in FormStates
  /\ HasChain(Formatted[n].list, Formatted[n].blk, Highest(n))

LEMMA NoneFormed == Formed(0)
<1> DEFINE bk == [b \in Blocks |-> <<>>]
           L == [k \in 0 .. 0 |-> <<>>]
<1>1. Formatted[0] = [list |-> <<>>, blk |-> bk]
  BY FormattedIs
<1>2. Formatted[0] \in FormStates
  BY <1>1 DEF FormStates, Lists
<1>3. Highest(0) = {}
  BY FlNumbers DEF Highest
<1>4. /\ L \in [0 .. 0 -> Lists] /\ \A k \in 0 .. 0 : L[k] = <<>> /\ Descends(L[k])
  BY DEF Lists, Descends
<1> HIDE DEF L
<1>5. IsFree(L, 0, <<>>, bk)
  <2> HIDE DEF bk
  <2>1. \A k \in 1 .. 0 : FALSE
    OBVIOUS
  <2>2. \A k \in 0 .. 0 : \A i \in 1 .. Len(L[k]) : FALSE
    BY <1>4
  <2>3. 0 \in 0 .. 0 /\ 0 \in Nat
    OBVIOUS
  <2>4. PICK z : z = 0
    OBVIOUS
  <2>5. PICK e : e = <<>>
    OBVIOUS
  <2>6. IsFree(L, z, e, bk)
    BY <1>4, <2>1, <2>2, <2>3, <2>4, <2>5, FreeMade
  <2> QED BY <2>4, <2>5, <2>6
<1>6. Members(L, 0) = {}
  <2>1. IsLists(L, 0)
    BY <1>4 DEF IsLists
  <2>2. \A b \in Members(L, 0) : \E k \in 0 .. 0 : \E i \in 1 .. Len(L[k]) : b = L[k][i]
    BY <2>1, MembersAre
  <2> QED BY <1>4, <2>2
<1> HIDE DEF bk
<1>7. HasChain(<<>>, bk, {})
  <2>1. PICK s, F, z : s = <<>> /\ F = {} /\ z = 0
    OBVIOUS
  <2>2. IsFree(L, z, s, bk) /\ Members(L, z) = F
    BY <1>5, <1>6, <2>1
  <2>3. HasChain(s, bk, F)
    BY <2>2 DEF HasChain
  <2> QED BY <2>1, <2>3
<1>8. Formatted[0].list = <<>> /\ Formatted[0].blk = bk
  BY <1>1
<1> QED BY <1>2, <1>3, <1>7, <1>8 DEF Formed

LEMMA OneMoreFormed ==
  ASSUME NEW n \in 1 .. FlSize, Formed(n - 1)
  PROVE  Formed(n)
<1>1. PICK r, b : r = Formatted[n - 1] /\ b = FlEnd - n
  OBVIOUS
<1>2. /\ b \in Blocks /\ Highest(n) = Highest(n - 1) \cup {b} /\ b \notin Highest(n - 1)
      /\ b \in Nat /\ \A c \in Highest(n - 1) : c > b
  <2>1. PICK e : e = FlEnd
    OBVIOUS
  <2>2. e \in Nat /\ b = e - n /\ b \in Blocks /\ b \in Nat /\ n \in Nat
    BY <1>1, <2>1, FlNumbers DEF Blocks
  <2>3. \A c \in Int : c \in e - n .. e - 1 <=> c \in e - (n - 1) .. e - 1 \/ c = b
    BY <2>2
  <2>4. Highest(n) = Highest(n - 1) \cup {b}
    BY <2>1, <2>2, <2>3 DEF Highest
  <2>5. \A c \in Highest(n - 1) : c > b
    BY <2>1, <2>2 DEF Highest
  <2>6. ~ (b > b)
    BY <2>2
  <2> QED BY <2>2, <2>4, <2>5, <2>6
<1>3. r \in FormStates /\ HasChain(r.list, r.blk, Highest(n - 1))
  BY <1>1 DEF Formed
<1>4. PICK s : s = r.list
  OBVIOUS
<1>5. PICK L, m : IsFree(L, m, s, r.blk) /\ Members(L, m) = Highest(n - 1)
  BY <1>3, <1>4 DEF HasChain
<1>6. /\ s \in Lists /\ Distinct(s) /\ (t_sortblocks => Descends(s))
      /\ \A i \in 1 .. Len(s) : s[i] \in Highest(n - 1)
  BY <1>5, HeadIs
<1>7. PICK t : t = Append(s, b)
  OBVIOUS
<1>8. /\ t \in Lists /\ Len(t) = Len(s) + 1 /\ t[Len(t)] = b /\ Len(s) \in Nat
      /\ \A i \in 1 .. Len(s) : t[i] = s[i]
  BY <1>2, <1>6, <1>7 DEF Lists
<1>9. Insertion(s, b, t)
  <2>1. PICK at : at = Len(s) + 1
    OBVIOUS
  <2>2. at \in 1 .. Len(s) + 1 /\ (s # <<>> => at # 1)
    BY <1>6, <1>8, <2>1 DEF Lists
  <2>3. \A i \in 1 .. Len(t) : t[i] = IF i < at THEN s[i] ELSE IF i = at THEN b ELSE s[i - 1]
    BY <1>8, <2>1
  <2>4. t_sortblocks => /\ Descends(s) /\ (at <= Len(s) => s[at] < b)
                        /\ \A j \in 2 .. at - 1 : s[j] > b
    <3>1. \A j \in 2 .. at - 1 : j \in 1 .. Len(s)
      BY <1>8, <2>1
    <3>2. ~ (at <= Len(s))
      BY <1>8, <2>1
    <3> QED BY <1>2, <1>6, <3>1, <3>2
  <2>5. \A i \in 1 .. Len(s) : s[i] # b
    BY <1>2, <1>6
  <2> QED BY <1>2, <1>6, <1>8, <2>2, <2>3, <2>4, <2>5, InsertedAt
<1>10. PICK front, last : front = Front(t) /\ last = Last(t)
  OBVIOUS
<1>11. last = b /\ Len(front) = Len(s) /\ front = s
  <2>1. t # <<>> /\ Len(t) - 1 = Len(s)
    BY <1>8
  <2>2. /\ front \in Lists /\ Len(front) = Len(s)
        /\ \A i \in 1 .. Len(s) : front[i] = t[i]
        /\ last = t[Len(t)]
    BY <1>8, <1>10, <2>1, FrontIs
  <2>3. front = s
    BY <1>6, <1>8, <2>2 DEF Lists
  <2> QED BY <1>8, <2>2, <2>3
<1>12. PICK q : q = FormStep(r, n)
  OBVIOUS
<1>13. /\ r = [list |-> s, blk |-> r.blk] /\ r.blk \in [Blocks -> Lists]
  BY <1>3, <1>4 DEF FormStates
<1>14. IF Len(front) \in {0, NICFREE}
       THEN q.list = <<last>> /\ q.blk[last] = front /\ q.blk = [r.blk EXCEPT ![b] = s]
       ELSE q.list = t /\ q.blk = r.blk
  BY <1>1, <1>2, <1>4, <1>7, <1>11, <1>12, <1>13 DEF FormStep
<1>15. \A c \in Blocks \ {last} : q.blk[c] = r.blk[c]
  BY <1>11, <1>13, <1>14
<1>16. HasChain(q.list, q.blk, Highest(n))
  <2>1. PICK F, bk, l2, bk2 : F = Highest(n - 1) /\ bk = r.blk /\ l2 = q.list /\ bk2 = q.blk
    OBVIOUS
  <2>2. IF Len(front) \in {0, NICFREE} THEN l2 = <<last>> /\ bk2[last] = front ELSE l2 = t
    BY <1>14, <2>1
  <2>3. HasChain(s, bk, F) /\ b \in Blocks \ F
    BY <1>2, <1>3, <1>4, <2>1
  <2>4. \A c \in Blocks \ {last} : bk2[c] = bk[c]
    BY <1>15, <2>1
  <2>5. HasChain(l2, bk2, F \cup {b})
    BY <1>9, <1>10, <2>2, <2>3, <2>4, EntryMore
  <2> QED BY <1>2, <2>1, <2>5
<1>17. Formatted[n] = q /\ q \in FormStates
  BY <1>1, <1>3, <1>12, FormattedIs, FormTyped
<1> QED BY <1>16, <1>17 DEF Formed

LEMMA AllFormed == Formed(FlSize)
<1> DEFINE G == {n \in 0 .. FlSize : Formed(n)}
<1>1. FlSize \in Nat /\ 0 \in 0 .. FlSize /\ FlSize \in 0 .. FlSize
      /\ \A n \in 1 .. FlSize : n \in 0 .. FlSize
  BY FlNumbers
<1>2. 0 \in G
  BY <1>1, NoneFormed
<1>3. ASSUME NEW n \in 1 .. FlSize, n - 1 \in G PROVE n \in G
  BY <1>1, <1>3, OneMoreFormed
<1>4. \A n \in 0 .. FlSize : n \in G
  <2> HIDE DEF G
  <2> QED BY <1>1, <1>2, <1>3, Upwards
<1> QED BY <1>1, <1>4
----------------------------------------------------------------------------
(* Free blocks: the chain of the superblock.                               *)

LEMMA ChainIs ==
  ASSUME s_free \in Lists, blk \in [Blocks -> Lists]
  PROVE  /\ Chain[0] = s_free
         /\ \A k \in 1 .. FlSize :
              Chain[k] = IF Chain[k - 1] = <<>> THEN <<>> ELSE blk[Chain[k - 1][1]]
<1> DEFINE N == FlSize
           After(s) == IF s = <<>> THEN <<>> ELSE blk[s[1]]
           F == [x \in (1 .. N) \X Lists |-> After(x[2])]
           Is(g) == g = [k \in 0 .. N |-> IF k = 0 THEN s_free ELSE After(g[k - 1])]
<1>0. N \in Nat
  BY FlNumbers
<1>1. F \in [(1 .. N) \X Lists -> Lists]
  <2>1. ASSUME NEW s \in Lists PROVE After(s) \in Lists
    <3>1. CASE s = <<>>
      BY <3>1 DEF Lists
    <3>2. CASE s # <<>>
      <4>1. s[1] \in Blocks
        BY <3>2 DEF Lists
      <4> QED BY <3>2, <4>1
    <3> QED BY <3>1, <3>2
  <2> HIDE DEF After
  <2> QED BY <2>1
<1>2. PICK g0 \in [0 .. N -> Lists] : IsRec(g0, N, s_free, F)
  <2> HIDE DEF F, N
  <2> QED BY <1>0, <1>1, RecExists
<1>3. Is(g0)
  <2>1. ASSUME NEW n \in 0 .. N, n # 0 PROVE F[<<n, g0[n - 1]>>] = After(g0[n - 1])
    <3>1. <<n, g0[n - 1]>> \in (1 .. N) \X Lists
      BY <1>0, <2>1
    <3> HIDE DEF After
    <3> QED BY <3>1
  <2> HIDE DEF F, After
  <2> QED BY <1>2, <2>1 DEF IsRec
<1>4. Is(Chain)
  <2>1. PICK g : g = CHOOSE h : Is(h)
    OBVIOUS
  <2>2. Is(g)
    BY <1>3, <2>1
  <2>3. Chain = g
    BY <2>1 DEF Chain
  <2> QED BY <2>2, <2>3
<1>5. 0 \in 0 .. N /\ \A n \in 1 .. N : n \in 0 .. N /\ n # 0
  BY <1>0
<1>6. Chain[0] = s_free /\ \A k \in 1 .. N : Chain[k] = After(Chain[k - 1])
  <2> HIDE DEF N, After
  <2> QED BY <1>4, <1>5
<1> QED BY <1>6

\* Each list has a link of its own: there are no more of them than blocks.
LEMMA ChainShort ==
  ASSUME NEW L, NEW m, NEW s, NEW bk, IsFree(L, m, s, bk)
  PROVE  m \in Nat /\ m <= FlSize
<1>1. /\ m \in Nat /\ L \in [0 .. m -> Lists]
      /\ \A k \in 0 .. m : Len(L[k]) \in Nat
      /\ \A k \in 1 .. m : L[k - 1] # <<>>
      /\ \A j, k \in 0 .. m : \A i \in 1 .. Len(L[j]), h \in 1 .. Len(L[k]) :
           L[j][i] = L[k][h] => j = k /\ i = h
  BY FreeIs
<1>2. PICK f : f = [k \in 1 .. m |-> L[k - 1][1]]
  OBVIOUS
<1>3. \A k \in 1 .. m : k - 1 \in 0 .. m /\ 1 \in 1 .. Len(L[k - 1]) /\ L[k - 1][1] \in Blocks
  <2> SUFFICES ASSUME NEW k \in 1 .. m
               PROVE  k - 1 \in 0 .. m /\ 1 \in 1 .. Len(L[k - 1]) /\ L[k - 1][1] \in Blocks
    OBVIOUS
  <2>1. PICK t : t = L[k - 1]
    OBVIOUS
  <2>2. k - 1 \in 0 .. m /\ t \in Seq(Blocks) /\ t # <<>>
    BY <1>1, <2>1 DEF Lists
  <2>3. 1 \in 1 .. Len(t) /\ t[1] \in Blocks
    BY <2>2
  <2> QED BY <2>1, <2>2, <2>3
<1>4. f \in [1 .. m -> Blocks]
  BY <1>2, <1>3
<1>5. \A j, k \in 1 .. m : f[j] = f[k] => j = k
  <2> SUFFICES ASSUME NEW j \in 1 .. m, NEW k \in 1 .. m, f[j] = f[k] PROVE j = k
    OBVIOUS
  <2>1. L[j - 1][1] = L[k - 1][1]
    BY <1>2
  <2>2. j - 1 = k - 1
    BY <1>1, <1>3, <2>1
  <2> QED BY <1>1, <2>2
<1>6. f \in Injection(1 .. m, Blocks)
  BY <1>4, <1>5 DEF Injection, IsInjective
<1>7. Cardinality(1 .. m) <= Cardinality(Blocks)
  BY <1>6, FlNumbers, FS_Injection
<1>8. Cardinality(1 .. m) = m
  <2>1. Cardinality(1 .. m) = IF 1 > m THEN 0 ELSE m - 1 + 1
    BY <1>1, FS_Interval
  <2> QED BY <1>1, <2>1
<1> QED BY <1>1, <1>7, <1>8, FlNumbers

LEMMA ChainWalks ==
  ASSUME blk \in [Blocks -> Lists], NEW L, NEW m, IsFree(L, m, s_free, blk)
  PROVE  \A k \in 0 .. FlSize : Chain[k] = IF k <= m THEN L[k] ELSE <<>>
<1>1. /\ m \in Nat /\ L \in [0 .. m -> Lists] /\ L[0] = s_free /\ L[m] = <<>>
      /\ \A k \in 1 .. m : L[k - 1] # <<>> /\ L[k] = blk[L[k - 1][1]]
  BY FreeIs
<1>2. FlSize \in Nat
  BY FlNumbers
<1>3. /\ Chain[0] = s_free
      /\ \A k \in 1 .. FlSize :
           Chain[k] = IF Chain[k - 1] = <<>> THEN <<>> ELSE blk[Chain[k - 1][1]]
  <2>1. s_free \in Lists
    BY <1>1
  <2> QED BY <2>1, ChainIs
<1> DEFINE G == {k \in 0 .. FlSize : Chain[k] = IF k <= m THEN L[k] ELSE <<>>}
<1>4. 0 \in G
  BY <1>1, <1>2, <1>3
<1>5. ASSUME NEW k \in 1 .. FlSize, k - 1 \in G PROVE k \in G
  <2>1. Chain[k - 1] = IF k - 1 <= m THEN L[k - 1] ELSE <<>>
    BY <1>5
  <2>2. Chain[k] = IF Chain[k - 1] = <<>> THEN <<>> ELSE blk[Chain[k - 1][1]]
    BY <1>3
  <2>3. CASE k <= m
    <3>1. k \in 1 .. m /\ k - 1 <= m
      BY <1>1, <1>2, <2>3
    <3> QED BY <1>1, <1>2, <2>1, <2>2, <2>3, <3>1
  <2>4. CASE ~ (k <= m)
    <3>1. k - 1 = m \/ ~ (k - 1 <= m)
      BY <1>1, <1>2, <2>4
    <3>2. Chain[k - 1] = <<>>
      BY <1>1, <2>1, <3>1
    <3> QED BY <1>2, <2>2, <2>4, <3>2
  <2> QED BY <2>3, <2>4
<1> HIDE DEF G
<1>6. \A k \in 0 .. FlSize : k \in G
  BY <1>2, <1>4, <1>5, Upwards
<1> QED BY <1>6 DEF G

LEMMA ChainExact ==
  ASSUME blk \in [Blocks -> Lists], NEW F, HasChain(s_free, blk, F)
  PROVE  FreeBlocks = F /\ Proper(Chain) /\ FlSorted
<1>1. PICK L, m : IsFree(L, m, s_free, blk) /\ Members(L, m) = F
  BY DEF HasChain
<1>2. /\ m \in Nat /\ L \in [0 .. m -> Lists] /\ L[m] = <<>> /\ IsLists(L, m)
      /\ \A k \in 0 .. m : Len(L[k]) \in Nat
      /\ \A j, k \in 0 .. m : \A i \in 1 .. Len(L[j]), h \in 1 .. Len(L[k]) :
           L[j][i] = L[k][h] => j = k /\ i = h
      /\ t_sortblocks => \A k \in 0 .. m : Descends(L[k])
  BY <1>1, FreeIs
<1>3. m <= FlSize /\ FlSize \in Nat
  BY <1>1, ChainShort, FlNumbers
<1>4. \A k \in 0 .. FlSize : Chain[k] = IF k <= m THEN L[k] ELSE <<>>
  BY <1>1, ChainWalks
<1>5. \A k \in 0 .. FlSize :
        /\ k <= m => k \in 0 .. m /\ Chain[k] = L[k] /\ DOMAIN Chain[k] = 1 .. Len(L[k])
        /\ ~ (k <= m) => Chain[k] = <<>>
  <2>1. \A k \in 0 .. m : DOMAIN L[k] = 1 .. Len(L[k])
    BY <1>2 DEF Lists
  <2>2. \A k \in 0 .. FlSize : k <= m => k \in 0 .. m
    BY <1>2, <1>3
  <2> QED BY <1>4, <2>1, <2>2
<1>6. DOMAIN <<>> = {} /\ Range(<<>>) = {}
  BY DEF Range
<1>7. ASSUME NEW b PROVE b \in FreeBlocks <=> b \in F
  <2>1. b \in F <=> \E k \in 0 .. m : \E i \in 1 .. Len(L[k]) : b = L[k][i]
    BY <1>1, <1>2, MemberIff
  <2>2. b \in FreeBlocks <=> \E k \in 0 .. FlSize : \E i \in DOMAIN Chain[k] : b = Chain[k][i]
    BY DEF FreeBlocks, Range
  <2>3. \A k \in 0 .. m : k \in 0 .. FlSize /\ k <= m
    BY <1>2, <1>3
  <2>4. ASSUME NEW k \in 0 .. FlSize, NEW i \in DOMAIN Chain[k], b = Chain[k][i]
        PROVE  \E j \in 0 .. m : \E h \in 1 .. Len(L[j]) : b = L[j][h]
    BY <1>5, <1>6, <2>4
  <2>5. ASSUME NEW k \in 0 .. m, NEW i \in 1 .. Len(L[k]), b = L[k][i]
        PROVE  \E j \in 0 .. FlSize : \E h \in DOMAIN Chain[j] : b = Chain[j][h]
    BY <1>5, <2>3, <2>5
  <2> QED BY <2>1, <2>2, <2>4, <2>5
<1>8. Proper(Chain)
  <2>1. Chain[FlSize] = <<>>
    BY <1>2, <1>3, <1>4
  <2>2. \A x \in Places(Chain) : /\ x = <<x[1], x[2]>> /\ x[1] \in 0 .. m
                                 /\ x[2] \in 1 .. Len(L[x[1]])
                                 /\ Chain[x[1]][x[2]] = L[x[1]][x[2]]
    <3> SUFFICES ASSUME NEW x \in Places(Chain)
                 PROVE  /\ x = <<x[1], x[2]>> /\ x[1] \in 0 .. m
                        /\ x[2] \in 1 .. Len(L[x[1]])
                        /\ Chain[x[1]][x[2]] = L[x[1]][x[2]]
      OBVIOUS
    <3>1. PICK k \in 0 .. FlSize : x \in {k} \X DOMAIN Chain[k]
      BY DEF Places
    <3>2. x = <<x[1], x[2]>> /\ x[1] = k /\ x[2] \in DOMAIN Chain[k]
      BY <3>1
    <3>3. k <= m
      BY <1>5, <1>6, <3>2
    <3> QED BY <1>5, <3>2, <3>3
  <2>3. ASSUME NEW x \in Places(Chain), NEW y \in Places(Chain),
               Chain[x[1]][x[2]] = Chain[y[1]][y[2]]
        PROVE  x = y
    <3>1. x[1] = y[1] /\ x[2] = y[2]
      BY <1>2, <2>2, <2>3
    <3> QED BY <2>2, <3>1
  <2> QED BY <2>1, <2>3 DEF Proper
<1>9. FlSorted
  <2>1. \A i \in 2 .. Len(<<>>) - 1 : FALSE
    OBVIOUS
  <2>2. t_sortblocks => \A k \in 0 .. FlSize : Descends(Chain[k])
    BY <1>2, <1>5, <2>1 DEF Descends
  <2> QED BY <2>2 DEF FlSorted, Descends
<1> QED BY <1>7, <1>8, <1>9
----------------------------------------------------------------------------
(* Free blocks: who has which block.                                       *)

Owned == [f \in FlFiles |-> BlocksOf(f)]
AllOf(h) == UNION {h[f] : f \in FlFiles}
Apart(h) == \A f, g \in FlFiles : f # g => h[f] \cap h[g] = {}
FreeNow == Blocks \ AllOf(Owned)

FlTypes ==
  /\ blk \in [Blocks -> Lists]
  /\ i_addr \in [FlFiles -> Blocks \cup {0}]
  /\ flFreeing \in [FlFiles -> Lists]
  /\ u_error \in BOOLEAN

\* What indfree frees ends with the indirect block, and nothing is in it
\* twice; nor is anything in an indirect block.
OwnOf(f) ==
  IF flFreeing[f] # <<>>
  THEN Distinct(flFreeing[f]) /\ Last(flFreeing[f]) = i_addr[f]
  ELSE i_addr[f] # 0 => Distinct(blk[i_addr[f]]) /\ ~ In(blk[i_addr[f]], i_addr[f])

FlInv ==
  /\ FlTypes /\ \A f \in FlFiles : OwnOf(f)
  /\ Apart(Owned)
  /\ HasChain(s_free, blk, FreeNow)
  /\ s_tfree = Cardinality(FreeNow)
  /\ flLocked = FALSE

LEMMA InRange == \A s, c : s \in Lists => (c \in Range(s) <=> In(s, c))
<1> SUFFICES ASSUME NEW s \in Lists, NEW c PROVE c \in Range(s) <=> In(s, c)
  OBVIOUS
<1>1. DOMAIN s = 1 .. Len(s)
  BY DEF Lists
<1> QED BY <1>1 DEF Range, In

LEMMA OwnedTyped ==
  ASSUME FlTypes, \A f \in FlFiles : OwnOf(f)
  PROVE  /\ Owned \in [FlFiles -> SUBSET Blocks]
         /\ \A f \in FlFiles : Owned[f] = BlocksOf(f)
         /\ \A f \in FlFiles : i_addr[f] # 0 => i_addr[f] \in BlocksOf(f)
<1> SUFFICES ASSUME NEW f \in FlFiles
             PROVE  BlocksOf(f) \subseteq Blocks /\ (i_addr[f] # 0 => i_addr[f] \in BlocksOf(f))
  BY DEF Owned
<1>1. /\ flFreeing[f] \in Lists /\ i_addr[f] \in Blocks \cup {0} /\ blk \in [Blocks -> Lists]
      /\ OwnOf(f)
  BY DEF FlTypes
<1>2. \A s \in Lists : Range(s) \subseteq Blocks
  <2> SUFFICES ASSUME NEW s \in Lists PROVE Range(s) \subseteq Blocks
    OBVIOUS
  <2> QED BY InRange DEF In, Lists
<1>3. CASE flFreeing[f] # <<>>
  <2>1. PICK s : s = flFreeing[f]
    OBVIOUS
  <2>2. s \in Seq(Blocks) /\ s # <<>> /\ Last(s) = i_addr[f]
    BY <1>1, <1>3, <2>1 DEF OwnOf, Lists
  <2>3. Len(s) \in 1 .. Len(s)
    BY <2>2
  <2>4. In(s, i_addr[f])
    BY <2>2, <2>3 DEF In, Last
  <2>5. i_addr[f] \in Range(s) /\ Range(s) \subseteq Blocks
    BY <1>1, <1>2, <2>1, <2>4, InRange
  <2> QED BY <1>3, <2>1, <2>5 DEF BlocksOf
<1>4. CASE flFreeing[f] = <<>>
  BY <1>1, <1>2, <1>4 DEF BlocksOf
<1> QED BY <1>3, <1>4

LEMMA OneMoreOwned ==
  ASSUME NEW h \in [FlFiles -> SUBSET Blocks], Apart(h), NEW f \in FlFiles,
         NEW b \in Blocks \ AllOf(h), NEW h2, h2 = [h EXCEPT ![f] = @ \cup {b}]
  PROVE  Apart(h2) /\ Blocks \ AllOf(h2) = (Blocks \ AllOf(h)) \ {b}
<1>1. \A g \in FlFiles : b \notin h[g]
  BY DEF AllOf
<1>2. h2[f] = h[f] \cup {b} /\ \A g \in FlFiles : g # f => h2[g] = h[g]
  OBVIOUS
<1>3. Apart(h2)
  BY <1>1, <1>2 DEF Apart
<1>4. AllOf(h2) = AllOf(h) \cup {b}
  BY <1>2 DEF AllOf
<1> QED BY <1>3, <1>4

Lessens(h, f, b, h2) ==
  /\ h \in [FlFiles -> SUBSET Blocks] /\ Apart(h) /\ f \in FlFiles
  /\ b \in h[f] /\ h2 = [h EXCEPT ![f] = h[f] \ {b}]

LEMMA OneLessOwned ==
  ASSUME NEW h, NEW f, NEW b, NEW h2, Lessens(h, f, b, h2)
  PROVE  /\ Apart(h2) /\ Blocks \ AllOf(h2) = (Blocks \ AllOf(h)) \cup {b}
         /\ b \in AllOf(h)
<1>0. /\ h \in [FlFiles -> SUBSET Blocks] /\ Apart(h) /\ f \in FlFiles
      /\ b \in h[f] /\ h2 = [h EXCEPT ![f] = h[f] \ {b}]
  BY DEF Lessens
<1>1. b \in Blocks /\ b \in AllOf(h)
  BY <1>0 DEF AllOf
<1>2. \A g \in FlFiles : g # f => b \notin h[g]
  BY <1>0 DEF Apart
<1>3. h2[f] = h[f] \ {b} /\ \A g \in FlFiles : g # f => h2[g] = h[g]
  BY <1>0
<1>4. Apart(h2)
  BY <1>0, <1>3 DEF Apart
<1>5. AllOf(h2) = AllOf(h) \ {b}
  BY <1>0, <1>2, <1>3 DEF AllOf
<1> QED BY <1>1, <1>4, <1>5

\* A file that an operation leaves alone.
LEMMA OwnStays ==
  ASSUME NEW g, flFreeing'[g] = flFreeing[g], i_addr'[g] = i_addr[g],
         flFreeing[g] = <<>> /\ i_addr[g] # 0 => blk'[i_addr[g]] = blk[i_addr[g]]
  PROVE  BlocksOf(g)' = BlocksOf(g) /\ (OwnOf(g) <=> OwnOf(g)')
BY DEF BlocksOf, OwnOf

LEMMA FreeCount ==
  ASSUME NEW F \in SUBSET Blocks
  PROVE  /\ Cardinality(F) \in Nat
         /\ \A b \in F : Cardinality(F \ {b}) = Cardinality(F) - 1
         /\ \A b \in Blocks \ F : Cardinality(F \cup {b}) = Cardinality(F) + 1
<1>1. IsFiniteSet(F)
  BY FlNumbers, FS_Subset
<1> QED BY <1>1, FS_CardinalityType, FS_AddElement, FS_RemoveElement

LEMMA FlStart == FlInit => FlInv
<1> SUFFICES ASSUME FlInit PROVE FlInv
  OBVIOUS
<1>1. /\ s_free = Formatted[FlSize].list /\ blk = Formatted[FlSize].blk /\ s_tfree = FlSize
      /\ i_addr = [f \in FlFiles |-> 0] /\ flFreeing = [f \in FlFiles |-> <<>>]
      /\ u_error = FALSE /\ flLocked = FALSE
  BY DEF FlInit
<1>2. FlTypes
  <2>1. Formatted[FlSize].blk \in [Blocks -> Lists]
    BY AllFormed DEF Formed, FormStates
  <2>2. <<>> \in Lists
    BY DEF Lists
  <2> QED BY <1>1, <2>1, <2>2 DEF FlTypes
<1>3. \A f \in FlFiles : OwnOf(f) /\ BlocksOf(f) = {}
  BY <1>1 DEF OwnOf, BlocksOf
<1>4. Apart(Owned) /\ FreeNow = Blocks
  BY <1>3 DEF Apart, Owned, FreeNow, AllOf
<1>5. Highest(FlSize) = Blocks
  <2>1. PICK e, a : e = FlEnd /\ a = FlFirst
    OBVIOUS
  <2>2. e - (e - a) = a
    BY <2>1, FlNumbers
  <2> QED BY <2>1, <2>2 DEF Highest, FlSize, Blocks
<1>6. HasChain(s_free, blk, FreeNow)
  BY <1>1, <1>4, <1>5, AllFormed DEF Formed
<1>7. s_tfree = Cardinality(FreeNow)
  BY <1>1, <1>4, FlNumbers
<1> QED BY <1>1, <1>2, <1>3, <1>4, <1>6, <1>7 DEF FlInv

\* balloc, with what its caller does to the block.
LEMMA BallocTakes ==
  ASSUME FlInv, NEW b \in Blocks, balloc(b), \A c \in FreeNow \ {b} : blk'[c] = blk[c]
  PROVE  /\ b \in FreeNow /\ HasChain(s_free', blk', FreeNow \ {b})
         /\ s_tfree' = Cardinality(FreeNow \ {b})
<1>1. PICK F : F = FreeNow
  OBVIOUS
<1>2. PICK s, bk, bk2, s2 : s = s_free /\ bk = blk /\ bk2 = blk' /\ s2 = s_free'
  OBVIOUS
<1>3. HasChain(s, bk, F) /\ s # <<>> /\ b = Last(s) /\ \A c \in F \ {b} : bk2[c] = bk[c]
  BY <1>1, <1>2 DEF FlInv, balloc
<1>4. b \in F /\ HasChain(IF Len(s) = 1 THEN bk[b] ELSE Front(s), bk2, F \ {b})
  BY <1>3, EntryLess
<1>5. s2 = IF Len(s) = 1 THEN bk[b] ELSE Front(s)
  BY <1>2 DEF balloc, Popped
<1>6. s_tfree' = s_tfree - 1 /\ s_tfree = Cardinality(F) /\ F \subseteq Blocks
  BY <1>1 DEF balloc, FlInv, FreeNow
<1> QED BY <1>1, <1>2, <1>4, <1>5, <1>6, FreeCount

LEMMA BfreeGives ==
  ASSUME FlInv, NEW b \in Blocks \ FreeNow, bfree(b)
  PROVE  /\ HasChain(s_free', blk', FreeNow \cup {b})
         /\ s_tfree' = Cardinality(FreeNow \cup {b})
         /\ blk' \in [Blocks -> Lists]
         /\ \A c \in Blocks \ (FreeNow \cup {b}) : blk'[c] = blk[c]
         /\ flLocked' = flLocked
<1>1. PICK F, s, t : F = FreeNow /\ s = s_free /\ t = Sorted(s_free, b)
  OBVIOUS
<1>2. PICK L, m : IsFree(L, m, s, blk) /\ Members(L, m) = F
  BY <1>1 DEF FlInv, HasChain
<1>3. /\ s \in Lists /\ Distinct(s) /\ (t_sortblocks => Descends(s))
      /\ \A i \in 1 .. Len(s) : s[i] \in F
  BY <1>2, HeadIs
<1>4. Insertion(s, b, t)
  BY <1>1, <1>3, SortedIs
<1>5. t \in Lists /\ t # <<>>
  <2>1. t \in Lists /\ Len(t) = Len(s) + 1
    BY <1>4 DEF Insertion
  <2> QED BY <1>3, <2>1 DEF Lists
<1>6. PICK front, last : front = Front(t) /\ last = Last(t)
  OBVIOUS
<1>7. front \in Lists /\ last \in Blocks /\ Append(front, last) = t
  BY <1>5, <1>6, FrontIs
<1>8. /\ s_free' = Pushed(front, last).list /\ blk' = Pushed(front, last).blk
      /\ s_tfree' = s_tfree + 1 /\ flLocked' = flLocked
  BY <1>1, <1>5, <1>6 DEF bfree, Sorted
<1>9. blk \in [Blocks -> Lists]
  BY DEF FlInv, FlTypes
<1>10. /\ blk' \in [Blocks -> Lists]
       /\ \A c \in Blocks \ {last} : blk'[c] = blk[c]
       /\ IF Len(front) \in {0, NICFREE}
          THEN s_free' = <<last>> /\ blk'[last] = front
          ELSE s_free' = t
  <2>1. <<>> \in Lists
    BY DEF Lists
  <2>2. CASE Len(front) \in {0, NICFREE}
    <3>1. s_free' = <<last>> /\ blk' = [blk EXCEPT ![last] = front]
      BY <1>8, <2>2 DEF Pushed
    <3> QED BY <1>7, <1>9, <2>2, <3>1
  <2>3. CASE ~ (Len(front) \in {0, NICFREE})
    <3>1. s_free' = t /\ blk' = [blk EXCEPT ![last] = <<>>]
      BY <1>7, <1>8, <2>3 DEF Pushed
    <3> QED BY <1>7, <1>9, <2>1, <2>3, <3>1
  <2> QED BY <2>2, <2>3
<1>11. HasChain(s_free', blk', F \cup {b})
  <2>1. PICK bk, bk2, list : bk = blk /\ bk2 = blk' /\ list = s_free'
    OBVIOUS
  <2>2. HasChain(s, bk, F) /\ b \in Blocks \ F
    BY <1>1, <2>1 DEF FlInv
  <2>3. IF Len(front) \in {0, NICFREE} THEN list = <<last>> /\ bk2[last] = front ELSE list = t
    BY <1>10, <2>1
  <2>4. \A c \in Blocks \ {last} : bk2[c] = bk[c]
    BY <1>10, <2>1
  <2>5. HasChain(list, bk2, F \cup {b})
    BY <1>4, <1>6, <2>2, <2>3, <2>4, EntryMore
  <2> QED BY <2>1, <2>5
<1>12. last \in F \cup {b}
  <2>1. PICK n : n = Len(t)
    OBVIOUS
  <2>2. n \in 1 .. n /\ last = t[n]
    BY <1>5, <1>6, <2>1 DEF Lists, Last
  <2>3. \A i \in 1 .. Len(t) : t[i] = b \/ \E j \in 1 .. Len(s) : t[i] = s[j]
    BY <1>4 DEF Insertion
  <2> QED BY <1>3, <2>1, <2>2, <2>3
<1>13. s_tfree' = Cardinality(F \cup {b})
  <2>1. s_tfree = Cardinality(F) /\ F \subseteq Blocks /\ b \in Blocks \ F
    BY <1>1 DEF FlInv, FreeNow
  <2> QED BY <1>8, <2>1, FreeCount
<1> QED BY <1>1, <1>8, <1>10, <1>11, <1>12, <1>13
----------------------------------------------------------------------------
(* Free blocks: every operation.                                           *)

LEMMA NoneFree == FlInv /\ s_free = <<>> => FreeNow = {}
<1> SUFFICES ASSUME FlInv, s_free = <<>> PROVE FreeNow = {}
  OBVIOUS
<1>1. PICK L, m : IsFree(L, m, s_free, blk) /\ Members(L, m) = FreeNow
  BY DEF FlInv, HasChain
<1>2. m = 0 /\ L[0] = <<>> /\ IsLists(L, m)
  BY <1>1, HeadIs, FreeIs
<1>3. \A b \in Members(L, m) : \E k \in 0 .. m : \E i \in 1 .. Len(L[k]) : b = L[k][i]
  BY <1>2, MembersAre
<1>4. \A k \in 0 .. m : \A i \in 1 .. Len(L[k]) : FALSE
  BY <1>2
<1> QED BY <1>1, <1>3, <1>4

\* File f gets the free block b, or gives its block b back.
Took(f, b) ==
  /\ b \in FreeNow /\ FreeNow' = FreeNow \ {b}
  /\ Owned' = [Owned EXCEPT ![f] = @ \cup {b}]
Gave(f, b) ==
  /\ b \in Owned[f] /\ b \notin FreeNow /\ FreeNow' = FreeNow \cup {b}
  /\ Owned' = [Owned EXCEPT ![f] = @ \ {b}]

LEMMA TakenIs ==
  ASSUME FlInv, NEW f \in FlFiles, NEW b \in Blocks, balloc(b),
         \A c \in FreeNow \ {b} : blk'[c] = blk[c],
         FlTypes', \A g \in FlFiles : OwnOf(g)',
         BlocksOf(f)' = BlocksOf(f) \cup {b},
         \A g \in FlFiles : g # f => BlocksOf(g)' = BlocksOf(g)
  PROVE  FlInv' /\ Took(f, b)
<1>1. b \in FreeNow /\ HasChain(s_free', blk', FreeNow \ {b}) /\ s_tfree' = Cardinality(FreeNow \ {b})
  BY BallocTakes
<1>2. Owned \in [FlFiles -> SUBSET Blocks] /\ \A g \in FlFiles : Owned[g] = BlocksOf(g)
  BY OwnedTyped DEF FlInv
<1>3. Owned' = [Owned EXCEPT ![f] = @ \cup {b}]
  BY <1>2 DEF Owned
<1>4. Apart(Owned') /\ Blocks \ AllOf(Owned') = FreeNow \ {b}
  <2>1. PICK h, h2 : h = Owned /\ h2 = Owned'
    OBVIOUS
  <2>2. h \in [FlFiles -> SUBSET Blocks] /\ Apart(h) /\ b \in Blocks \ AllOf(h)
        /\ h2 = [h EXCEPT ![f] = @ \cup {b}]
    BY <1>1, <1>2, <1>3, <2>1 DEF FlInv, FreeNow
  <2>3. Apart(h2) /\ Blocks \ AllOf(h2) = (Blocks \ AllOf(h)) \ {b}
    BY <2>2, OneMoreOwned
  <2> QED BY <2>1, <2>3 DEF FreeNow
<1>5. Apart(Owned)' /\ FreeNow' = FreeNow \ {b}
  BY <1>4 DEF Apart, FreeNow, AllOf
<1>6. flLocked' = flLocked
  BY DEF balloc
<1> QED BY <1>1, <1>3, <1>5, <1>6 DEF FlInv, Took

LEMMA GivenIs ==
  ASSUME FlInv, NEW f \in FlFiles, NEW b \in BlocksOf(f), bfree(b),
         FlTypes', \A g \in FlFiles : OwnOf(g)',
         BlocksOf(f)' = BlocksOf(f) \ {b},
         \A g \in FlFiles : g # f => BlocksOf(g)' = BlocksOf(g)
  PROVE  FlInv' /\ Gave(f, b)
<1>1. Owned \in [FlFiles -> SUBSET Blocks] /\ \A g \in FlFiles : Owned[g] = BlocksOf(g)
  BY OwnedTyped DEF FlInv
<1>2. Owned' = [Owned EXCEPT ![f] = @ \ {b}]
  BY <1>1 DEF Owned
<1>3. Apart(Owned') /\ Blocks \ AllOf(Owned') = FreeNow \cup {b} /\ b \in Blocks \ FreeNow
  <2>1. PICK h, h2 : h = Owned /\ h2 = Owned'
    OBVIOUS
  <2>2. Lessens(h, f, b, h2) /\ b \in Blocks
    BY <1>1, <1>2, <2>1 DEF FlInv, Lessens
  <2>3. Apart(h2) /\ Blocks \ AllOf(h2) = (Blocks \ AllOf(h)) \cup {b} /\ b \in AllOf(h)
    BY <2>2, OneLessOwned
  <2> QED BY <2>1, <2>2, <2>3 DEF FreeNow
<1>4. Apart(Owned)' /\ FreeNow' = FreeNow \cup {b}
  BY <1>3 DEF Apart, FreeNow, AllOf
<1>5. /\ HasChain(s_free', blk', FreeNow \cup {b}) /\ s_tfree' = Cardinality(FreeNow \cup {b})
      /\ flLocked' = flLocked
  BY <1>3, BfreeGives
<1>6. b \in Owned[f]
  BY <1>1
<1> QED BY <1>2, <1>3, <1>4, <1>5, <1>6 DEF FlInv, Gave

LEMMA KeptIs ==
  ASSUME FlInv, UNCHANGED <<s_free, s_tfree, blk, flLocked>>, FlTypes', \A g \in FlFiles : OwnOf(g)',
         \A g \in FlFiles : BlocksOf(g)' = BlocksOf(g)
  PROVE  FlInv' /\ UNCHANGED <<Owned, FreeNow>>
<1>1. Owned' = Owned
  BY DEF Owned
<1>2. FreeNow' = FreeNow /\ Apart(Owned)'
  BY <1>1 DEF FreeNow, FlInv, Apart, AllOf
<1> QED BY <1>1, <1>2 DEF FlInv

\* What a step of the file f may do.
FlStep(f) ==
  \/ \E b \in Blocks : Took(f, b) /\ u_error' = FALSE
  \/ FreeNow = {} /\ u_error' = TRUE /\ UNCHANGED <<Owned, FreeNow>>
  \/ \E b \in Blocks : Gave(f, b) /\ u_error' = u_error
  \/ UNCHANGED <<Owned, FreeNow, u_error>>

LEMMA FailureStep ==
  ASSUME FlInv, NEW f \in FlFiles, ballocFails, UNCHANGED <<blk, i_addr, flFreeing>>
  PROVE  FlInv' /\ FlStep(f)
<1>1. s_free = <<>> /\ u_error' = TRUE /\ UNCHANGED <<s_free, s_tfree, flLocked>>
  BY DEF ballocFails
<1>2. FlTypes' /\ \A g \in FlFiles : OwnOf(g)' /\ BlocksOf(g)' = BlocksOf(g)
  <2>1. FlTypes'
    BY <1>1 DEF FlInv, FlTypes
  <2>2. \A g \in FlFiles : OwnOf(g)' /\ BlocksOf(g)' = BlocksOf(g)
    BY OwnStays DEF FlInv
  <2> QED BY <2>1, <2>2
<1>3. FlInv' /\ UNCHANGED <<Owned, FreeNow>>
  BY <1>1, <1>2, KeptIs
<1> QED BY <1>1, <1>3, NoneFree DEF FlStep

LEMMA IndirectStep ==
  ASSUME FlInv, NEW f \in FlFiles, areadIndirect(f)
  PROVE  FlInv' /\ FlStep(f)
<1>1. CASE ballocFails /\ UNCHANGED <<i_addr, blk>>
  BY <1>1, FailureStep DEF areadIndirect
<1>2. ASSUME NEW b \in Blocks, balloc(b), i_addr' = [i_addr EXCEPT ![f] = b],
             blk' = [blk EXCEPT ![b] = <<>>]
      PROVE  FlInv' /\ FlStep(f)
  <2>1. i_addr[f] = 0 /\ flFreeing' = flFreeing /\ u_error' = FALSE
    BY <1>2 DEF areadIndirect, balloc
  <2>2. FlTypes /\ \A g \in FlFiles : OwnOf(g)
    BY DEF FlInv
  <2>3. FlTypes'
    <3>1. <<>> \in Lists
      BY DEF Lists
    <3> QED BY <1>2, <2>1, <2>2, <3>1 DEF FlTypes
  <2>4. \A c \in FreeNow \ {b} : blk'[c] = blk[c]
    BY <1>2, <2>2 DEF FlTypes, FreeNow
  <2>5. b \in FreeNow
    BY <1>2, <2>4, BallocTakes
  <2>6. ASSUME NEW g \in FlFiles, g # f PROVE OwnOf(g)' /\ BlocksOf(g)' = BlocksOf(g)
    <3>1. i_addr[g] # 0 => i_addr[g] \in Blocks /\ i_addr[g] # b
      <4>1. i_addr[g] # 0 => i_addr[g] \in BlocksOf(g)
        BY <2>2, OwnedTyped
      <4>2. b \notin BlocksOf(g)
        BY <2>5 DEF FreeNow, AllOf, Owned
      <4> QED BY <2>2, <4>1, <4>2 DEF FlTypes
    <3>2. i_addr'[g] = i_addr[g] /\ (i_addr[g] # 0 => blk'[i_addr[g]] = blk[i_addr[g]])
      BY <1>2, <2>2, <2>6, <3>1 DEF FlTypes
    <3> QED BY <2>1, <2>2, <3>2, OwnStays
  <2>7. flFreeing[f] = <<>>
    <3>1. flFreeing[f] # <<>> => Last(flFreeing[f]) \in Blocks
      BY <2>2, FrontIs DEF FlTypes
    <3> QED BY <2>1, <2>2, <3>1, FlNumbers DEF OwnOf
  <2>8. i_addr'[f] = b /\ blk'[b] = <<>> /\ flFreeing'[f] = <<>> /\ b # 0
    BY <1>2, <2>1, <2>2, <2>7, FlNumbers DEF FlTypes
  <2>9. OwnOf(f)' /\ BlocksOf(f)' = BlocksOf(f) \cup {b}
    <3>1. Range(<<>>) = {} /\ Distinct(<<>>) /\ ~ In(<<>>, b)
      BY DEF Range, Distinct, In
    <3> QED BY <2>1, <2>7, <2>8, <3>1 DEF OwnOf, BlocksOf
  <2>10. FlInv' /\ Took(f, b)
    <3>1. \A g \in FlFiles : OwnOf(g)'
      BY <2>6, <2>9
    <3>2. \A g \in FlFiles : g # f => BlocksOf(g)' = BlocksOf(g)
      BY <2>6
    <3> QED BY <1>2, <2>3, <2>4, <2>9, <3>1, <3>2, TakenIs
  <2> QED BY <2>1, <2>10 DEF FlStep
<1> QED BY <1>1, <1>2 DEF areadIndirect

LEMMA AreadStep ==
  ASSUME FlInv, NEW f \in FlFiles, aread(f)
  PROVE  FlInv' /\ FlStep(f)
<1>1. CASE ballocFails /\ UNCHANGED blk
  BY <1>1, FailureStep DEF aread
<1>2. ASSUME NEW b \in Blocks, balloc(b),
             blk' = [blk EXCEPT ![i_addr[f]] = Append(@, b), ![b] = <<>>]
      PROVE  FlInv' /\ FlStep(f)
  <2>1. PICK a : a = i_addr[f]
    OBVIOUS
  <2>2. FlTypes /\ (\A g \in FlFiles : OwnOf(g)) /\ Apart(Owned)
    BY DEF FlInv
  <2>3. /\ a # 0 /\ flFreeing[f] = <<>> /\ UNCHANGED <<i_addr, flFreeing>> /\ u_error' = FALSE
        /\ a \in Blocks /\ blk[a] \in Lists
    BY <1>2, <2>1, <2>2 DEF aread, balloc, FlTypes
  <2>4. PICK s : s = Append(blk[a], b)
    OBVIOUS
  <2>5. /\ s \in Lists /\ Len(s) = Len(blk[a]) + 1 /\ Len(blk[a]) \in Nat
        /\ s[Len(blk[a]) + 1] = b /\ \A i \in 1 .. Len(blk[a]) : s[i] = blk[a][i]
    BY <2>3, <2>4 DEF Lists
  <2>6. blk' = [[blk EXCEPT ![a] = s] EXCEPT ![b] = <<>>]
    BY <1>2, <2>1, <2>2, <2>3, <2>4 DEF FlTypes
  <2>7. FlTypes'
    <3>1. <<>> \in Lists
      BY DEF Lists
    <3>2. blk' \in [Blocks -> Lists]
      BY <2>2, <2>3, <2>5, <2>6, <3>1 DEF FlTypes
    <3> QED BY <2>2, <2>3, <3>2 DEF FlTypes
  <2>8. \A c \in Blocks : c # a /\ c # b => blk'[c] = blk[c]
    BY <2>2, <2>6 DEF FlTypes
  <2>9. a \in BlocksOf(f) /\ a \notin FreeNow
    BY <2>1, <2>2, <2>3, OwnedTyped DEF FreeNow, AllOf
  <2>10. \A c \in FreeNow \ {b} : blk'[c] = blk[c]
    BY <2>8, <2>9 DEF FreeNow
  <2>11. b \in FreeNow
    BY <1>2, <2>10, BallocTakes
  <2>12. \A g \in FlFiles : b \notin BlocksOf(g)
    BY <2>11 DEF FreeNow, AllOf, Owned
  <2>13. ASSUME NEW g \in FlFiles, g # f PROVE OwnOf(g)' /\ BlocksOf(g)' = BlocksOf(g)
    <3>1. i_addr[g] # 0 => i_addr[g] \in Blocks /\ i_addr[g] # b /\ i_addr[g] # a
      <4>1. i_addr[g] # 0 => i_addr[g] \in BlocksOf(g)
        BY <2>2, OwnedTyped
      <4>2. a \notin BlocksOf(g)
        BY <2>2, <2>9, <2>13 DEF Apart, Owned
      <4> QED BY <2>2, <2>12, <4>1, <4>2 DEF FlTypes
    <3>2. i_addr'[g] = i_addr[g] /\ (i_addr[g] # 0 => blk'[i_addr[g]] = blk[i_addr[g]])
      BY <2>3, <2>8, <3>1
    <3> QED BY <2>2, <2>3, <3>2, OwnStays
  <2>14. i_addr'[f] = a /\ blk'[a] = s /\ flFreeing'[f] = <<>> /\ a # b
    <3>1. a # b
      BY <2>9, <2>12
    <3> QED BY <2>1, <2>2, <2>3, <2>5, <2>6, <3>1 DEF FlTypes
  <2>15. BlocksOf(f) = {a} \cup Range(blk[a])
    BY <2>1, <2>3 DEF BlocksOf
  <2>16. /\ Distinct(blk[a]) /\ ~ In(blk[a], a) /\ ~ In(blk[a], b)
    <3>1. ~ In(blk[a], b)
      BY <2>3, <2>12, <2>15, InRange
    <3> QED BY <2>1, <2>2, <2>3, <3>1 DEF OwnOf
  <2>17. \A i \in 1 .. Len(s) : i \in 1 .. Len(blk[a]) \/ i = Len(blk[a]) + 1
    BY <2>5
  <2>18. \A c : In(s, c) <=> In(blk[a], c) \/ c = b
    <3>1. /\ \A i \in 1 .. Len(blk[a]) : i \in 1 .. Len(s)
          /\ Len(blk[a]) + 1 \in 1 .. Len(s)
      BY <2>5
    <3> QED BY <2>5, <2>17, <3>1 DEF In
  <2>19. Distinct(s)
    <3> SUFFICES ASSUME NEW i \in 1 .. Len(s), NEW j \in 1 .. Len(s), s[i] = s[j]
                 PROVE  i = j
      BY DEF Distinct
    <3> QED BY <2>5, <2>16, <2>17 DEF Distinct, In
  <2>20. OwnOf(f)' /\ BlocksOf(f)' = BlocksOf(f) \cup {b}
    <3>1. OwnOf(f)'
      BY <2>3, <2>14, <2>16, <2>18, <2>19 DEF OwnOf
    <3>2. BlocksOf(f)' = {a} \cup Range(s)
      BY <2>3, <2>14 DEF BlocksOf
    <3>3. \A c : c \in Range(s) <=> c \in Range(blk[a]) \/ c = b
      BY <2>3, <2>5, <2>18, InRange
    <3> QED BY <2>15, <3>1, <3>2, <3>3
  <2>21. FlInv' /\ Took(f, b)
    <3>1. \A g \in FlFiles : OwnOf(g)'
      BY <2>13, <2>20
    <3>2. \A g \in FlFiles : g # f => BlocksOf(g)' = BlocksOf(g)
      BY <2>13
    <3> QED BY <1>2, <2>7, <2>10, <2>20, <3>1, <3>2, TakenIs
  <2> QED BY <2>3, <2>21 DEF FlStep
<1> QED BY <1>1, <1>2 DEF aread

\* indfree's copy: the entries of the indirect block, and that block.
LEMMA CopyIs ==
  ASSUME NEW s \in Lists, NEW a \in Blocks, Distinct(s), ~ In(s, a),
         NEW t, NEW r, r = Reverse(s), t = r \o <<a>>
  PROVE  /\ t \in Lists /\ t # <<>> /\ Distinct(t) /\ Last(t) = a
         /\ \A c : In(t, c) <=> In(s, c) \/ c = a
<1>1. s \in Seq(Blocks) /\ Len(s) \in Nat
  BY DEF Lists
<1>2. PICK n, o : n = Len(s) /\ o = <<a>>
  OBVIOUS
<1>3. \A i \in 1 .. n : n + 1 - i \in 1 .. n /\ n + 1 - (n + 1 - i) = i
  BY <1>1, <1>2
<1>4. r = [i \in 1 .. n |-> s[n + 1 - i]] /\ n \in Nat
  BY <1>1, <1>2 DEF Reverse
<1>5. r \in Seq(Blocks) /\ Len(r) = n /\ \A i \in 1 .. n : r[i] = s[n + 1 - i]
  <2>1. \A i \in 1 .. n : s[n + 1 - i] \in Blocks
    BY <1>1, <1>2, <1>3
  <2>2. r \in [1 .. n -> Blocks]
    BY <1>4, <2>1
  <2> QED BY <1>4, <2>2
<1>6. o \in Seq(Blocks) /\ Len(o) = 1 /\ o[1] = a
  BY <1>2
<1>7. /\ t \in Seq(Blocks) /\ Len(t) = n + 1
      /\ \A i \in 1 .. n : t[i] = s[n + 1 - i]
      /\ t[n + 1] = a
  <2>1. /\ t \in Seq(Blocks) /\ Len(t) = Len(r) + Len(o)
        /\ \A i \in 1 .. Len(r) : t[i] = r[i]
        /\ \A i \in 1 .. Len(o) : t[Len(r) + i] = o[i]
    BY <1>2, <1>5, <1>6, Joined
  <2>2. 1 \in 1 .. Len(o)
    BY <1>6
  <2> QED BY <1>5, <1>6, <2>1, <2>2
<1>8. \A i \in 1 .. Len(t) : i \in 1 .. n \/ i = n + 1
  BY <1>4, <1>7
<1>9. \A i \in 1 .. n : i \in 1 .. Len(t)
  BY <1>4, <1>7
<1>10. n + 1 \in 1 .. Len(t)
  BY <1>4, <1>7
<1>11. Distinct(t)
  <2> SUFFICES ASSUME NEW i \in 1 .. Len(t), NEW j \in 1 .. Len(t), t[i] = t[j]
               PROVE  i = j
    BY DEF Distinct
  <2>1. \A k \in 1 .. n : t[k] # a
    BY <1>2, <1>3, <1>7 DEF In
  <2>2. CASE i \in 1 .. n /\ j \in 1 .. n
    <3>1. PICK i2, j2 : i2 = n + 1 - i /\ j2 = n + 1 - j
      OBVIOUS
    <3>2. i2 \in 1 .. Len(s) /\ j2 \in 1 .. Len(s) /\ s[i2] = s[j2]
      BY <1>2, <1>3, <1>7, <2>2, <3>1
    <3>3. n + 1 - i = n + 1 - j
      BY <3>1, <3>2 DEF Distinct
    <3> QED BY <1>4, <2>2, <3>3
  <2> QED BY <1>7, <1>8, <2>1, <2>2
<1>12. ASSUME NEW c PROVE In(t, c) <=> In(s, c) \/ c = a
  <2>1. ASSUME In(t, c) PROVE In(s, c) \/ c = a
    BY <1>2, <1>3, <1>7, <1>8, <2>1 DEF In
  <2>2. ASSUME NEW i \in 1 .. n, c = s[i] PROVE In(t, c)
    <3>1. n + 1 - i \in 1 .. n /\ t[n + 1 - i] = s[i]
      BY <1>3, <1>7
    <3> QED BY <1>9, <2>2, <3>1 DEF In
  <2>3. ASSUME c = a PROVE In(t, c)
    BY <1>7, <1>10, <2>3 DEF In
  <2> QED BY <1>2, <2>1, <2>2, <2>3 DEF In
<1>13. t \in Lists /\ t # <<>> /\ Last(t) = a
  BY <1>4, <1>7 DEF Lists, Last
<1> QED BY <1>11, <1>12, <1>13

LEMMA ItruncateStep ==
  ASSUME FlInv, NEW f \in FlFiles, itruncate(f)
  PROVE  FlInv' /\ FlStep(f)
<1>1. FlTypes /\ \A g \in FlFiles : OwnOf(g)
  BY DEF FlInv
<1>2. PICK a, t : a = i_addr[f] /\ t = indfreeCopy(f)
  OBVIOUS
<1>3. /\ a # 0 /\ flFreeing[f] = <<>> /\ a \in Blocks /\ blk[a] \in Lists
      /\ UNCHANGED <<s_free, s_tfree, blk, i_addr, u_error, flLocked>>
      /\ flFreeing' = [flFreeing EXCEPT ![f] = t]
  BY <1>1, <1>2 DEF itruncate, FlTypes
<1>4. /\ t \in Lists /\ t # <<>> /\ Distinct(t) /\ Last(t) = a
      /\ \A c : In(t, c) <=> In(blk[a], c) \/ c = a
  <2>1. Distinct(blk[a]) /\ ~ In(blk[a], a)
    BY <1>1, <1>2, <1>3 DEF OwnOf
  <2>2. t = Reverse(blk[a]) \o <<a>>
    BY <1>2 DEF indfreeCopy
  <2>3. PICK s, r : s = blk[a] /\ r = Reverse(blk[a])
    OBVIOUS
  <2>4. /\ t \in Lists /\ t # <<>> /\ Distinct(t) /\ Last(t) = a
        /\ \A c : In(t, c) <=> In(s, c) \/ c = a
    <3>1. s \in Lists /\ Distinct(s) /\ ~ In(s, a) /\ a \in Blocks
      BY <1>3, <2>1, <2>3
    <3>2. r = Reverse(s) /\ t = r \o <<a>>
      BY <2>2, <2>3
    <3> QED BY <3>1, <3>2, CopyIs
  <2> QED BY <2>3, <2>4
<1>5. FlTypes'
  BY <1>1, <1>3, <1>4 DEF FlTypes
<1>6. flFreeing'[f] = t /\ \A g \in FlFiles : g # f => flFreeing'[g] = flFreeing[g]
  BY <1>1, <1>3 DEF FlTypes
<1>7. \A g \in FlFiles : g # f => OwnOf(g)' /\ BlocksOf(g)' = BlocksOf(g)
  BY <1>1, <1>3, <1>6, OwnStays
<1>8. OwnOf(f)'
  BY <1>2, <1>3, <1>4, <1>6 DEF OwnOf
<1>9. BlocksOf(f)' = BlocksOf(f)
  <2>1. BlocksOf(f)' = Range(t)
    BY <1>4, <1>6 DEF BlocksOf
  <2>2. BlocksOf(f) = {a} \cup Range(blk[a])
    BY <1>2, <1>3 DEF BlocksOf
  <2>3. \A c : c \in Range(t) <=> c = a \/ c \in Range(blk[a])
    BY <1>3, <1>4, InRange
  <2> QED BY <2>1, <2>2, <2>3
<1>10. FlInv' /\ UNCHANGED <<Owned, FreeNow>>
  <2>1. \A g \in FlFiles : OwnOf(g)'
    BY <1>7, <1>8
  <2>2. \A g \in FlFiles : BlocksOf(g)' = BlocksOf(g)
    BY <1>7, <1>9
  <2> QED BY <1>3, <1>5, <2>1, <2>2, KeptIs
<1> QED BY <1>3, <1>10 DEF FlStep

LEMMA TailIs ==
  ASSUME NEW s \in Lists, s # <<>>, Distinct(s), NEW t, t = Tail(s), NEW b, b = Head(s)
  PROVE  /\ b \in Blocks /\ In(s, b) /\ t \in Lists
         /\ t # <<>> => Distinct(t) /\ Last(t) = Last(s) /\ Len(s) # 1
         /\ t = <<>> => Len(s) = 1
         /\ \A c : In(t, c) <=> In(s, c) /\ c # b
<1>1. s \in Seq(Blocks) /\ Len(s) \in Nat \ {0}
  BY DEF Lists
<1>2. PICK n : n = Len(s) - 1
  OBVIOUS
<1>3. n \in Nat /\ Len(s) = n + 1
  BY <1>1, <1>2
<1>4. t \in Seq(Blocks) /\ Len(t) = n
  BY <1>1, <1>3
<1>5. \A i \in 1 .. n : t[i] = s[i + 1]
  BY <1>1, <1>3
<1>6. b = s[1] /\ b \in Blocks /\ 1 \in 1 .. Len(s)
  BY <1>1
<1>7. \A i \in 1 .. n : i \in 1 .. Len(t) /\ i + 1 \in 1 .. Len(s) /\ i + 1 # 1
  BY <1>3, <1>4
<1>8. \A i \in 1 .. Len(s) : i = 1 \/ (i - 1 \in 1 .. n /\ i - 1 + 1 = i)
  BY <1>3
<1>9. Distinct(t)
  <2> SUFFICES ASSUME NEW i \in 1 .. Len(t), NEW j \in 1 .. Len(t), t[i] = t[j]
               PROVE  i = j
    BY DEF Distinct
  <2>1. i \in 1 .. n /\ j \in 1 .. n
    BY <1>4
  <2>2. i + 1 = j + 1
    BY <1>5, <1>7, <2>1 DEF Distinct
  <2> QED BY <2>1, <2>2
<1>10. t # <<>> => Last(t) = Last(s) /\ Len(s) # 1
  <2>1. t # <<>> => n \in 1 .. n
    BY <1>3, <1>4
  <2> QED BY <1>3, <1>4, <1>5, <2>1 DEF Last
<1>11. t = <<>> => Len(s) = 1
  <2>1. t = <<>> => Len(t) = 0
    OBVIOUS
  <2> QED BY <1>3, <1>4, <2>1
<1>12. ASSUME NEW c PROVE In(t, c) <=> In(s, c) /\ c # b
  <2>1. ASSUME NEW i \in 1 .. n, c = t[i] PROVE In(s, c) /\ c # b
    BY <1>5, <1>6, <1>7, <2>1 DEF In, Distinct
  <2>2. ASSUME NEW i \in 1 .. Len(s), c = s[i], c # b PROVE In(t, c)
    <3>1. i - 1 \in 1 .. n /\ t[i - 1] = s[i]
      BY <1>5, <1>6, <1>8, <2>2
    <3> QED BY <1>7, <2>2, <3>1 DEF In
  <2> QED BY <1>4, <2>1, <2>2 DEF In
<1> QED BY <1>4, <1>6, <1>9, <1>10, <1>11, <1>12 DEF In, Lists

LEMMA IndfreeStep ==
  ASSUME FlInv, NEW f \in FlFiles, indfree(f)
  PROVE  FlInv' /\ FlStep(f)
<1>1. FlTypes /\ (\A g \in FlFiles : OwnOf(g)) /\ Apart(Owned)
  BY DEF FlInv
<1>2. PICK s, t, b : s = flFreeing[f] /\ t = Tail(s) /\ b = Head(s)
  OBVIOUS
<1>3. /\ s # <<>> /\ bfree(b) /\ flFreeing' = [flFreeing EXCEPT ![f] = t]
      /\ i_addr' = [i_addr EXCEPT ![f] = IF Len(s) = 1 THEN 0 ELSE i_addr[f]]
      /\ u_error' = u_error
  BY <1>2 DEF indfree
<1>4. s \in Lists /\ Distinct(s) /\ Last(s) = i_addr[f]
  BY <1>1, <1>2, <1>3 DEF FlTypes, OwnOf
<1>5. /\ b \in Blocks /\ In(s, b) /\ t \in Lists
      /\ t # <<>> => Distinct(t) /\ Last(t) = Last(s) /\ Len(s) # 1
      /\ t = <<>> => Len(s) = 1
      /\ \A c : In(t, c) <=> In(s, c) /\ c # b
  BY <1>2, <1>3, <1>4, TailIs
<1>6. BlocksOf(f) = Range(s) /\ b \in BlocksOf(f)
  BY <1>2, <1>3, <1>4, <1>5, InRange DEF BlocksOf
<1>7. b \notin FreeNow
  BY <1>6 DEF FreeNow, AllOf, Owned
<1>8. blk' \in [Blocks -> Lists] /\ \A c \in Blocks \ (FreeNow \cup {b}) : blk'[c] = blk[c]
  BY <1>3, <1>5, <1>7, BfreeGives
<1>9. FlTypes'
  BY <1>1, <1>3, <1>5, <1>8 DEF FlTypes
<1>10. /\ flFreeing'[f] = t /\ i_addr'[f] = IF Len(s) = 1 THEN 0 ELSE i_addr[f]
       /\ \A g \in FlFiles : g # f => flFreeing'[g] = flFreeing[g] /\ i_addr'[g] = i_addr[g]
  BY <1>1, <1>3 DEF FlTypes
<1>11. ASSUME NEW g \in FlFiles, g # f PROVE OwnOf(g)' /\ BlocksOf(g)' = BlocksOf(g)
  <2>1. i_addr[g] # 0 => blk'[i_addr[g]] = blk[i_addr[g]]
    <3>1. i_addr[g] # 0 => i_addr[g] \in BlocksOf(g) /\ i_addr[g] \in Blocks
      BY <1>1, OwnedTyped DEF FlTypes
    <3>2. b \notin BlocksOf(g)
      BY <1>1, <1>6, <1>11 DEF Apart, Owned
    <3>3. \A c \in BlocksOf(g) : c \notin FreeNow
      BY DEF FreeNow, AllOf, Owned
    <3> QED BY <1>8, <3>1, <3>2, <3>3
  <2> QED BY <1>1, <1>10, <1>11, <2>1, OwnStays
<1>12. OwnOf(f)'
  <2>1. CASE t = <<>>
    BY <1>5, <1>10, <2>1 DEF OwnOf
  <2>2. CASE t # <<>>
    BY <1>4, <1>5, <1>10, <2>2 DEF OwnOf
  <2> QED BY <2>1, <2>2
<1>13. BlocksOf(f)' = BlocksOf(f) \ {b}
  <2>1. \A c : c \in Range(t) <=> c \in Range(s) /\ c # b
    BY <1>4, <1>5, InRange
  <2>2. CASE t = <<>>
    <3>1. BlocksOf(f)' = {}
      BY <1>5, <1>10, <2>2 DEF BlocksOf
    <3>2. \A c : c \notin Range(t)
      BY <2>2 DEF Range
    <3> QED BY <1>6, <2>1, <3>1, <3>2
  <2>3. CASE t # <<>>
    <3>1. BlocksOf(f)' = Range(t)
      BY <1>10, <2>3 DEF BlocksOf
    <3> QED BY <1>6, <2>1, <3>1
  <2> QED BY <2>2, <2>3
<1>14. FlInv' /\ Gave(f, b)
  <2>1. \A g \in FlFiles : OwnOf(g)'
    BY <1>11, <1>12
  <2>2. \A g \in FlFiles : g # f => BlocksOf(g)' = BlocksOf(g)
    BY <1>11
  <2> QED BY <1>3, <1>6, <1>9, <1>13, <2>1, <2>2, GivenIs
<1> QED BY <1>3, <1>5, <1>14 DEF FlStep

LEMMA FlSteps ==
  FlInv /\ [FlNext]_flVars => /\ FlInv'
                              /\ \/ \E f \in FlFiles : FlStep(f)
                                 \/ UNCHANGED <<Owned, FreeNow, u_error>>
<1> SUFFICES ASSUME FlInv, [FlNext]_flVars
             PROVE  /\ FlInv'
                    /\ \/ \E f \in FlFiles : FlStep(f)
                       \/ UNCHANGED <<Owned, FreeNow, u_error>>
  OBVIOUS
<1>1. ASSUME NEW f \in FlFiles, areadIndirect(f) \/ aread(f) \/ itruncate(f) \/ indfree(f)
      PROVE  FlInv' /\ FlStep(f)
  BY <1>1, IndirectStep, AreadStep, ItruncateStep, IndfreeStep
<1>2. CASE UNCHANGED flVars
  <2>1. UNCHANGED <<s_free, s_tfree, blk, i_addr, flFreeing, u_error, flLocked>>
    BY <1>2 DEF flVars
  <2>2. FlTypes' /\ (\A g \in FlFiles : OwnOf(g)')
        /\ \A g \in FlFiles : BlocksOf(g)' = BlocksOf(g)
    BY <2>1, OwnStays DEF FlInv, FlTypes
  <2> QED BY <2>1, <2>2, KeptIs
<1> QED BY <1>1, <1>2 DEF FlNext

(***************************************************************************)
(* The chain of free blocks (balloc, bfree) holds exactly the blocks no    *)
(* file has, each once and in order, and s_tfree counts them, for every    *)
(* number of blocks, length of the lists and order of growing and          *)
(* truncating files.                                                       *)
(***************************************************************************)
THEOREM FreeListSound == FlSpec => []FlSound
<1>1. FlInv => FlSound
  <2> SUFFICES ASSUME FlInv PROVE FlSound
    OBVIOUS
  <2>1. FreeBlocks = FreeNow /\ Proper(Chain) /\ FlSorted
    BY ChainExact DEF FlInv, FlTypes
  <2>2. FreeNow = Blocks \ UNION {BlocksOf(f) : f \in FlFiles}
    BY DEF FreeNow, AllOf, Owned
  <2>3. \A f, g \in FlFiles : f # g => BlocksOf(f) \cap BlocksOf(g) = {}
    BY DEF FlInv, Apart, Owned
  <2> QED BY <2>1, <2>2, <2>3 DEF FlSound, FlExact, FlInv
<1> QED BY <1>1, FlStart, FlSteps, PTL DEF FlSpec

(***************************************************************************)
(* And it implements the set of free blocks: a block goes from the set to  *)
(* one file and back, and "Out of space" (ENOSPC) is said only when the    *)
(* set is empty.                                                           *)
(***************************************************************************)
THEOREM FreeListImplements == FlSpec => FlImplementsSet
<1>1. FlInv => FreeBlocks = FreeNow
  BY ChainExact DEF FlInv, FlTypes
<1>2. FlInv /\ FlInit => FreeSetOf!FsInit
  <2> SUFFICES ASSUME FlInv, FlInit PROVE FreeSetOf!FsInit
    OBVIOUS
  <2>1. u_error = FALSE
    BY DEF FlInit
  <2>2. \A f, g \in FlFiles : f # g => Owned[f] \cap Owned[g] = {}
    BY DEF FlInv, Apart
  <2>3. \A f \in FlFiles : Owned[f] \cap FreeBlocks = {}
    BY <1>1 DEF FreeNow, AllOf
  <2> QED BY <2>1, <2>2, <2>3 DEF FreeSetOf!FsInit, Owned
<1>3. FlInv /\ FlInv' /\ [FlNext]_flVars =>
        FreeSetOf!FsNext \/ UNCHANGED <<FreeBlocks, Owned, u_error>>
  <2> SUFFICES ASSUME FlInv, FlInv', [FlNext]_flVars
               PROVE  FreeSetOf!FsNext \/ UNCHANGED <<FreeBlocks, Owned, u_error>>
    OBVIOUS
  <2>1. FreeBlocks = FreeNow /\ FreeBlocks' = FreeNow'
    <3>1. FlInv' => (FreeBlocks = FreeNow)'
      BY <1>1, PTL
    <3> QED BY <1>1, <3>1
  <2>2. CASE UNCHANGED <<Owned, FreeNow, u_error>>
    BY <2>1, <2>2
  <2>3. Owned \in [FlFiles -> SUBSET Blocks] /\ \A g \in FlFiles : Owned[g] \cap FreeNow = {}
    BY OwnedTyped DEF FlInv, FreeNow, AllOf
  <2>4. ASSUME NEW f \in FlFiles, FlStep(f)
        PROVE  FreeSetOf!FsNext \/ UNCHANGED <<FreeBlocks, Owned, u_error>>
    <3>1. ASSUME NEW b \in Blocks, Took(f, b), u_error' = FALSE PROVE FreeSetOf!FsAlloc(f)
      <4>1. b \in FreeBlocks /\ FreeBlocks' = FreeBlocks \ {b}
        BY <2>1, <3>1 DEF Took
      <4>2. b \notin Owned[f] /\ Owned' = [Owned EXCEPT ![f] = @ \cup {b}]
        BY <2>1, <2>3, <3>1 DEF Took
      <4>3. b \in Owned'[f] \ Owned[f]
        BY <2>3, <4>2
      <4> QED BY <3>1, <4>1, <4>2, <4>3 DEF FreeSetOf!FsAlloc, Owned
    <3>2. ASSUME FreeNow = {}, u_error' = TRUE, UNCHANGED <<Owned, FreeNow>>
          PROVE  FreeSetOf!FsAlloc(f)
      BY <2>1, <3>2 DEF FreeSetOf!FsAlloc, Owned
    <3>3. ASSUME NEW b \in Blocks, Gave(f, b), u_error' = u_error PROVE FreeSetOf!FsFree(f)
      <4>1. b \notin FreeBlocks /\ FreeBlocks' = FreeBlocks \cup {b}
        BY <2>1, <3>3 DEF Gave
      <4>2. Owned' = [Owned EXCEPT ![f] = @ \ {b}]
        BY <3>3 DEF Gave
      <4>3. b \in Owned[f] \ Owned'[f]
        BY <2>3, <3>3, <4>2 DEF Gave
      <4> QED BY <3>3, <4>1, <4>2, <4>3 DEF FreeSetOf!FsFree, Owned
    <3>4. CASE UNCHANGED <<Owned, FreeNow, u_error>>
      BY <2>1, <3>4
    <3> QED BY <2>4, <3>1, <3>2, <3>3, <3>4 DEF FlStep, FreeSetOf!FsNext
  <2> QED BY <2>2, <2>4, FlSteps
<1>4. FlInv /\ FlInv' /\ [FlNext]_flVars =>
        FreeSetOf!FsNext \/ UNCHANGED <<FreeBlocks, [f \in FlFiles |-> BlocksOf(f)], u_error>>
  BY <1>3 DEF Owned
<1>5. FlInv /\ [FlNext]_flVars => FlInv'
  BY FlSteps
<1> QED BY <1>2, <1>4, <1>5, FlStart, PTL DEF FlSpec, FlImplementsSet, FreeSetOf!FsSpec

----------------------------------------------------------------------------
(***************************************************************************)
(* Inodes.                                                                 *)
(***************************************************************************)
InPcs == {"idle", "iattach", "iwait", "fwait", "icopydm", "created", "busy", "ialloc", "isync",
          "scan", "icopymd", "ifree", "open"}
InFiles == [mode : BOOLEAN, nlink : Int]
InEntries == [ino : InInos \cup {0}, refc : Int, nlink : Int, mode : BOOLEAN, mod : BOOLEAN,
              lrt : Nat, gate : InProcs \cup {InNone}]
InCalls == [pc : InPcs, op : {"none", "open", "unlink", "creat"}, name : AllNames \cup {InNone},
            ino : Int, ip : Int, copy : {<<>>} \cup InFiles, unlock : BOOLEAN,
            back : {"idle", "open", "isync"}]

Locking == {"icopydm", "created", "icopymd", "ifree"}
Looking == {"iattach", "iwait", "fwait", "icopydm"}

CallWell(c) ==
  /\ c \in InCalls
  /\ c.pc \in {"iwait", "fwait", "open"} \cup Locking => c.ip \in InSlots
  /\ c.pc \in {"open", "ifree", "icopymd", "created"} \cup Looking => c.ino \in InInos
  /\ c.pc \in Looking => c.op # "none"
  /\ c.op \in {"open", "unlink"} => c.pc \in Looking
  /\ c.op = "creat" => c.name \in AllNames /\ c.pc # "idle" /\ c.pc # "open"
  /\ c.pc \in {"created", "busy", "ialloc", "isync", "scan"} => c.op = "creat"
  /\ c.pc \in {"icopymd", "ifree"} => c.copy \in InFiles /\ (c.op = "creat" <=> c.back # "idle")
  /\ c.pc \notin {"icopymd", "ifree"} => c.back = "idle"
  /\ c.pc = "ifree" => c.back # "open"

InTyped ==
  /\ inode \in [InSlots -> InEntries] /\ dinode \in [InInos -> InFiles]
  /\ sb \in [list : Seq(InInos), tinode : Int, gate : InProcs \cup {InNone}]
  /\ name \in [AllNames -> InInos \cup {0}] /\ dirGate \in [Dirs -> InProcs \cup {InNone}]
  /\ in \in [InProcs -> InCalls] /\ \A p \in InProcs : CallWell(in[p])
  /\ overflow \in BOOLEAN

RefersTo(c, s) == c.ip = s /\ (c.pc \in {"icopydm", "created", "open"}
                               \/ (c.pc = "icopymd" /\ c.back = "open"))
Counted(t, f) ==
  \A s \in InSlots :
    /\ t[s].refc = Cardinality({p \in InProcs : RefersTo(f[p], s)})
    /\ \A p \in InProcs : RefersTo(f[p], s) => t[s].ino = f[p].ino


-----------------------------------------------------------------------------
(* What the operators return.                                              *)

SameEntry(e, o) ==
  /\ e.ino = o.ino /\ e.refc = o.refc /\ e.nlink = o.nlink
  /\ e.mode = o.mode /\ e.mod = o.mod /\ e.gate = o.gate

LEMMA RecentIs ==
  ASSUME NEW t \in [InSlots -> InEntries], NEW s
  PROVE  /\ Recent(t, s) \in [InSlots -> InEntries]
         /\ \A u \in InSlots : SameEntry(Recent(t, s)[u], t[u])
<1> DEFINE g == [u \in InSlots |-> t[u].lrt]
           R == {g[u] : u \in InSlots}
           others == {t[u].lrt : u \in InSlots \ {s}} \ {0}
           lrt(u) == IF u = s THEN Cardinality(others) + 1
                     ELSE Cardinality({l \in others : l <= t[u].lrt})
<1>1. IsFiniteSet(R)
  <2>1. g \in Surjection(InSlots, R)
    BY DEF Surjection
  <2> QED BY <2>1, FS_Surjection, InAssumption
<1>2. others \subseteq R
  OBVIOUS
<1>3. \A S \in SUBSET others : Cardinality(S) \in Nat
  BY <1>1, <1>2, FS_Subset, FS_CardinalityType
<1>4. \A u \in InSlots : lrt(u) \in Nat
  BY <1>3
<1>5. Recent(t, s) = [u \in InSlots |-> [t[u] EXCEPT !.lrt = lrt(u)]]
  BY DEF Recent
<1> HIDE DEF lrt
<1>6. ASSUME NEW u \in InSlots
      PROVE  /\ [t[u] EXCEPT !.lrt = lrt(u)] \in InEntries
             /\ SameEntry([t[u] EXCEPT !.lrt = lrt(u)], t[u])
  <2>1. PICK e \in InEntries : e = t[u]
    OBVIOUS
  <2>2. PICK l \in Nat : l = lrt(u)
    BY <1>4
  <2>3. [e EXCEPT !.lrt = l] \in InEntries /\ SameEntry([e EXCEPT !.lrt = l], e)
    BY DEF InEntries, SameEntry
  <2> QED BY <2>1, <2>2, <2>3
<1> QED BY <1>5, <1>6

\* The free inodes of the disk in order: all of the list are inodes, and it is
\* empty only if none is free.
LEMMA FreeOnDiskIs ==
  ASSUME dinode \in [InInos -> InFiles]
  PROVE  /\ FreeOnDisk \in Seq(InInos)
         /\ FreeOnDisk = <<>> => \A i \in InInos : dinode[i].mode
<1> DEFINE free == {i \in InInos : ~ dinode[i].mode}
           first == {i \in free : Cardinality({j \in free : j < i}) < NICINOD}
           n == Cardinality(first)
           before(i) == {j \in first : j < i}
           rank == [i \in first |-> Cardinality(before(i))]
<1>1. InInos \subseteq Nat /\ IsFiniteSet(InInos) /\ NICINOD \in Nat \ {0}
  BY InAssumption
<1>2. free \subseteq InInos /\ first \subseteq free /\ IsFiniteSet(first) /\ n \in Nat
  BY <1>1, FS_Subset, FS_CardinalityType
<1>F. \A i \in free : Cardinality({j \in free : j < i}) < NICINOD => i \in first
  OBVIOUS
<1>9. FreeOnDisk = [k \in 1 .. n |-> CHOOSE i \in first : Cardinality(before(i)) = k - 1]
  BY DEF FreeOnDisk
<1>E. \A i \in InInos : ~ dinode[i].mode => i \in free
  OBVIOUS
<1>N. first \subseteq Nat /\ free \subseteq Nat
  BY <1>1, <1>2
<1> HIDE DEF first, free
<1>3. \A i \in first : IsFiniteSet(before(i)) /\ Cardinality(before(i)) \in Nat
  BY <1>2, FS_Subset, FS_CardinalityType
<1>4. ASSUME NEW i \in first, NEW k \in first, i < k
      PROVE  rank[i] < rank[k] /\ rank[i] \in 0 .. n - 1
  <2>1. before(i) \cup {i} \subseteq before(k) /\ i \notin before(i) /\ before(i) \cup {i} \subseteq first
    <3>1. \A j \in first : j < i => j < k
      BY <1>N, <1>4
    <3>2. ~ (i < i)
      BY <1>N
    <3> QED BY <1>4, <3>1, <3>2
  <2>2. Cardinality(before(i) \cup {i}) = Cardinality(before(i)) + 1
    BY <1>3, <2>1, FS_AddElement
  <2>3. /\ Cardinality(before(i) \cup {i}) <= Cardinality(before(k))
        /\ Cardinality(before(i) \cup {i}) <= n
    BY <1>2, <1>3, <2>1, FS_Subset
  <2>4. rank[i] = Cardinality(before(i)) /\ rank[k] = Cardinality(before(k))
    OBVIOUS
  <2>5. PICK a \in Nat, b \in Nat : a = Cardinality(before(i)) /\ b = Cardinality(before(k))
    BY <1>3
  <2> HIDE DEF before, rank, n
  <2> QED BY <1>2, <2>2, <2>3, <2>4, <2>5
<1>5. \A i \in first : rank[i] \in 0 .. n - 1
  <2> SUFFICES ASSUME NEW i \in first PROVE rank[i] \in 0 .. n - 1
    OBVIOUS
  <2>1. before(i) \cup {i} \subseteq first /\ i \notin before(i)
    BY <1>N
  <2>2. Cardinality(before(i) \cup {i}) = Cardinality(before(i)) + 1
    BY <1>3, <2>1, FS_AddElement
  <2>3. Cardinality(before(i) \cup {i}) <= n
    BY <1>2, <2>1, FS_Subset
  <2>4. rank[i] = Cardinality(before(i)) /\ rank[i] \in Nat
    BY <1>3
  <2> HIDE DEF before, rank, n
  <2> QED BY <1>2, <2>2, <2>3, <2>4
<1>6. rank \in Injection(first, 0 .. n - 1)
  <2>1. \A i, k \in first : i = k \/ i < k \/ k < i
    BY <1>N
  <2>0. rank = [i \in first |-> rank[i]]
    OBVIOUS
  <2> HIDE DEF rank, n
  <2>2. \A i, k \in first : rank[i] = rank[k] => i = k
    BY <1>4, <1>5, <1>2, <2>1
  <2>3. rank \in [first -> 0 .. n - 1]
    BY <1>5, <2>0
  <2>4. PICK g : g = rank
    OBVIOUS
  <2>5. g \in Injection(first, 0 .. n - 1)
    BY <2>2, <2>3, <2>4 DEF Injection, IsInjective
  <2> QED BY <2>4, <2>5
<1>7. rank \in Surjection(first, 0 .. n - 1)
  <2>1. IsFiniteSet(0 .. n - 1) /\ Cardinality(0 .. n - 1) = n
    BY <1>2, FS_Interval
  <2> QED BY <1>6, <2>1, FS_Injection
<1>8. \A k \in 1 .. n : \E i \in first : Cardinality(before(i)) = k - 1
  <2> SUFFICES ASSUME NEW k \in 1 .. n PROVE \E i \in first : Cardinality(before(i)) = k - 1
    OBVIOUS
  <2>1. k - 1 \in 0 .. n - 1
    BY <1>2
  <2>2. PICK i \in first : rank[i] = k - 1
    BY <1>7, <2>1 DEF Surjection
  <2> QED BY <2>2
<1> HIDE DEF n, rank
<1>10. FreeOnDisk \in Seq(InInos) /\ Len(FreeOnDisk) = n
  <2>1. \A k \in 1 .. n : (CHOOSE i \in first : Cardinality(before(i)) = k - 1) \in InInos
    BY <1>2, <1>8
  <2>2. \A k \in 1 .. n : FreeOnDisk[k] \in InInos
    BY <1>9, <2>1
  <2>3. PICK z : z = FreeOnDisk
    OBVIOUS
  <2>4. z \in [1 .. n -> InInos]
    BY <1>9, <2>1, <2>3
  <2> QED BY <1>2, <2>3, <2>4
<1>11. ASSUME FreeOnDisk = <<>>, NEW i \in InInos, ~ dinode[i].mode PROVE FALSE
  <2>1. n = 0
    BY <1>10, <1>11
  <2>2. first = {}
    BY <1>2, <2>1, FS_EmptySet DEF n
  <2>3. PICK k \in free : \A j \in free : k <= j
    <3>1. free # {}
      BY <1>E, <1>11
    <3> QED BY <1>N, <3>1, LeastNat
  <2>4. {j \in free : j < k} = {}
    <3>1. \A j \in free : ~ (j < k)
      BY <1>N, <2>3
    <3> QED BY <3>1
  <2>5. Cardinality({j \in free : j < k}) < NICINOD
    <3>1. Cardinality({j \in free : j < k}) = 0
      BY <2>4, FS_EmptySet
    <3> QED BY <1>1, <3>1
  <2> QED BY <1>F, <2>2, <2>3, <2>5
<1> QED BY <1>10, <1>11

-----------------------------------------------------------------------------
(* Types and references.                                                   *)

InBase == InTyped /\ Counted(inode, in)

Ref(c, s) == IF RefersTo(c, s) THEN 1 ELSE 0

CountedAt(t, f, s) ==
  /\ t[s].refc = Cardinality({p \in InProcs : RefersTo(f[p], s)})
  /\ \A p \in InProcs : RefersTo(f[p], s) => t[s].ino = f[p].ino

\* p goes on at c, which moves a reference or none; those of others stay.
LEMMA CountedOn ==
  ASSUME InBase, NEW p \in InProcs, NEW c, NEW f, f = [in EXCEPT ![p] = c], NEW t,
         NEW s \in InSlots, inode[s].refc \in Int,
         t[s].refc = inode[s].refc + Ref(c, s) - Ref(in[p], s),
         RefersTo(c, s) => t[s].ino = c.ino,
         t[s].ino = inode[s].ino \/ inode[s].refc = 0
  PROVE  CountedAt(t, f, s)
<1> DEFINE S == {q \in InProcs : RefersTo(in[q], s)}
           R == {q \in InProcs : RefersTo(f[q], s)}
<1>1. f[p] = c /\ \A q \in InProcs : q # p => f[q] = in[q]
  BY DEF InBase, InTyped
<1>2. IsFiniteSet(S) /\ Cardinality(S) \in Nat /\ inode[s].refc = Cardinality(S)
  BY InAssumption, FS_Subset, FS_CardinalityType DEF InBase, Counted
<1>3. S = {} <=> inode[s].refc = 0
  BY <1>2, FS_EmptySet
<1>4. \A q \in S : q \in InProcs /\ inode[s].ino = in[q].ino
  BY DEF InBase, Counted
<1>5. (p \in S <=> RefersTo(in[p], s)) /\ (p \in R <=> RefersTo(c, s))
  BY <1>1
<1>6. R = IF p \in R THEN S \cup {p} ELSE S \ {p}
  BY <1>1
<1>7. \A q \in R : q \in S \/ q = p
  BY <1>1
<1>8. \A q \in InProcs : RefersTo(f[q], s) => q \in R
  OBVIOUS
<1> HIDE DEF S, R
<1>9. t[s].refc = Cardinality(R)
  <2>1. CASE p \in R
    <3>1. Cardinality(R) = IF p \in S THEN Cardinality(S) ELSE Cardinality(S) + 1
      BY <1>2, <1>6, <2>1, FS_AddElement
    <3> QED BY <1>2, <1>5, <2>1, <3>1 DEF Ref
  <2>2. CASE p \notin R
    <3>1. Cardinality(R) = IF p \in S THEN Cardinality(S) - 1 ELSE Cardinality(S)
      BY <1>2, <1>6, <2>2, FS_RemoveElement
    <3> QED BY <1>2, <1>5, <2>2, <3>1 DEF Ref
  <2> QED BY <2>1, <2>2
<1>10. \A q \in R : t[s].ino = f[q].ino
  BY <1>1, <1>3, <1>4, <1>5, <1>7
<1> QED BY <1>8, <1>9, <1>10 DEF R, CountedAt

\* p goes on at c; the entries stay.
Goes(p, c) ==
  /\ in' = [in EXCEPT ![p] = c]
  /\ inode' \in [InSlots -> InEntries]
  /\ \A u \in InSlots : SameEntry(inode'[u], inode[u])

\* t is the table inode but for the entry s, which is e.
Holds(t, s, e) ==
  /\ t \in [InSlots -> InEntries]
  /\ \A u \in InSlots : u # s => SameEntry(t[u], inode[u])
  /\ SameEntry(t[s], e)

\* p goes on at c; the entry s becomes e, and the others stay.
Ends(p, c, s, e) == in' = [in EXCEPT ![p] = c] /\ Holds(inode', s, e)

InRest ==
  /\ dinode \in [InInos -> InFiles]
  /\ sb \in [list : Seq(InInos), tinode : Int, gate : InProcs \cup {InNone}]
  /\ name \in [AllNames -> InInos \cup {0}] /\ dirGate \in [Dirs -> InProcs \cup {InNone}]
  /\ overflow \in BOOLEAN

LEMMA BaseMoved ==
  ASSUME InBase, NEW p \in InProcs, NEW c, NEW s \in InSlots, NEW e, Ends(p, c, s, e), CallWell(c), InRest',
         e.refc = inode[s].refc + Ref(c, s) - Ref(in[p], s),
         RefersTo(c, s) => e.ino = c.ino,
         e.ino = inode[s].ino \/ inode[s].refc = 0,
         \A u \in InSlots : u # s => ~ RefersTo(c, u) /\ ~ RefersTo(in[p], u)
  PROVE  InBase'
<1>1. PICK t : t = inode'
  OBVIOUS
<1>2. PICK f : f = in'
  OBVIOUS
<1>3. \A u \in InSlots : inode[u] \in InEntries /\ inode[u].refc \in Int
  BY DEF InBase, InTyped, InEntries
<1>4. f = [in EXCEPT ![p] = c]
  BY <1>2 DEF Ends
<1>5. ASSUME NEW u \in InSlots
      PROVE  CountedAt(t, f, u)
  <2>1. CASE u = s
    <3>1. t[u].refc = e.refc /\ t[u].ino = e.ino
      BY <1>1, <2>1 DEF Ends, Holds, SameEntry
    <3> QED BY <1>3, <1>4, <2>1, <3>1, CountedOn
  <2>2. CASE u # s
    <3>1. t[u].refc = inode[u].refc /\ t[u].ino = inode[u].ino
      BY <1>1, <2>2 DEF Ends, Holds, SameEntry
    <3>2. ~ RefersTo(c, u) /\ ~ RefersTo(in[p], u)
      BY <2>2
    <3>3. t[u].refc = inode[u].refc + Ref(c, u) - Ref(in[p], u)
      BY <1>3, <3>1, <3>2 DEF Ref
    <3> QED BY <1>3, <1>4, <3>1, <3>2, <3>3, CountedOn
  <2> QED BY <2>1, <2>2
<1>6. Counted(t, f)
  BY <1>5 DEF Counted, CountedAt
<1>7. f \in [InProcs -> InCalls] /\ \A q \in InProcs : CallWell(f[q])
  <2>1. CallWell(c) /\ in \in [InProcs -> InCalls] /\ \A q \in InProcs : CallWell(in[q])
    BY DEF InBase, InTyped
  <2>2. c \in InCalls
    BY <2>1 DEF CallWell
  <2> QED BY <1>4, <2>1, <2>2
<1> QED BY <1>1, <1>2, <1>6, <1>7 DEF InBase, InTyped, InRest, Ends, Holds

LEMMA BaseGone ==
  ASSUME InBase, NEW p \in InProcs, NEW c, Goes(p, c), CallWell(c), InRest',
         \A u \in InSlots : ~ RefersTo(c, u) /\ ~ RefersTo(in[p], u)
  PROVE  InBase'
<1>1. PICK t : t = inode'
  OBVIOUS
<1>2. PICK f : f = in'
  OBVIOUS
<1>3. \A u \in InSlots : inode[u] \in InEntries /\ inode[u].refc \in Int
  BY DEF InBase, InTyped, InEntries
<1>4. f = [in EXCEPT ![p] = c]
  BY <1>2 DEF Goes
<1>5. ASSUME NEW u \in InSlots
      PROVE  CountedAt(t, f, u)
  <2>1. t[u].refc = inode[u].refc /\ t[u].ino = inode[u].ino
    BY <1>1 DEF Goes, SameEntry
  <2>2. ~ RefersTo(c, u) /\ ~ RefersTo(in[p], u)
    OBVIOUS
  <2>3. t[u].refc = inode[u].refc + Ref(c, u) - Ref(in[p], u)
    BY <1>3, <2>1, <2>2 DEF Ref
  <2> QED BY <1>3, <1>4, <2>1, <2>2, <2>3, CountedOn
<1>6. Counted(t, f)
  BY <1>5 DEF Counted, CountedAt
<1>7. f \in [InProcs -> InCalls] /\ \A q \in InProcs : CallWell(f[q])
  <2>1. CallWell(c) /\ in \in [InProcs -> InCalls] /\ \A q \in InProcs : CallWell(in[q])
    BY DEF InBase, InTyped
  <2>2. c \in InCalls
    BY <2>1 DEF CallWell
  <2> QED BY <1>4, <2>1, <2>2
<1> QED BY <1>1, <1>2, <1>6, <1>7 DEF InBase, InTyped, InRest, Goes

-----------------------------------------------------------------------------
(* What the steps do, with their records spelled out.                      *)

Call(pc, op, nm, ino, ip, copy, unlock, back) ==
  [pc |-> pc, op |-> op, name |-> nm, ino |-> ino, ip |-> ip, copy |-> copy,
   unlock |-> unlock, back |-> back]

Entry(i, r, n, m, d, g) ==
  [ino |-> i, refc |-> r, nlink |-> n, mode |-> m, mod |-> d, lrt |-> 0, gate |-> g]

File(m, n) == [mode |-> m, nlink |-> n]

Looks(op, i) == Call("iattach", op, InNone, i, 0, <<>>, TRUE, "idle")
Opens(i, s) == Call("open", "none", InNone, i, s, <<>>, TRUE, "idle")
Writes(i, s, m, n) == Call("icopymd", "none", InNone, i, s, File(m, n), TRUE, "idle")

\* c with its pc, inode number and slot.
On(c, pc, i, s) == Call(pc, c.op, c.name, i, s, c.copy, c.unlock, c.back)

LEMMA EntryIs ==
  ASSUME NEW e \in InEntries
  PROVE  SameEntry(e, Entry(e.ino, e.refc, e.nlink, e.mode, e.mod, e.gate))
BY DEF SameEntry, Entry

Excepts(r, a, b, c, d, e, f, g, h) ==
  /\ \A w, x, y : [r EXCEPT !.pc = w, !.op = x, !.ino = y] = Call(w, x, c, y, e, f, g, h)
  /\ \A w, x, y : [r EXCEPT !.pc = w, !.ip = x, !.ino = y] = Call(w, b, c, y, x, f, g, h)
  /\ \A w, x, y, z : [r EXCEPT !.pc = w, !.ino = x, !.ip = y, !.copy = z] = Call(w, b, c, x, y, z, g, h)
  /\ \A w, x, y : [r EXCEPT !.pc = w, !.op = x, !.name = y] = Call(w, x, y, d, e, f, g, h)

LEMMA CallExcept ==
  ASSUME NEW a, NEW b, NEW c, NEW d, NEW e, NEW f, NEW g, NEW h,
         NEW r, r = Call(a, b, c, d, e, f, g, h)
  PROVE  Excepts(r, a, b, c, d, e, f, g, h)
<1>1. \A w, x, y : [r EXCEPT !.pc = w, !.op = x, !.ino = y] = Call(w, x, c, y, e, f, g, h)
  <2> TAKE w, x, y
  <2>1. [Call(a, b, c, d, e, f, g, h) EXCEPT !.pc = w] = Call(w, b, c, d, e, f, g, h)
    BY DEF Call
  <2>2. [Call(w, b, c, d, e, f, g, h) EXCEPT !.op = x] = Call(w, x, c, d, e, f, g, h)
    BY DEF Call
  <2>3. [Call(w, x, c, d, e, f, g, h) EXCEPT !.ino = y] = Call(w, x, c, y, e, f, g, h)
    BY DEF Call
  <2> QED BY <2>1, <2>2, <2>3
<1>2. \A w, x, y : [r EXCEPT !.pc = w, !.ip = x, !.ino = y] = Call(w, b, c, y, x, f, g, h)
  <2> TAKE w, x, y
  <2>1. [Call(a, b, c, d, e, f, g, h) EXCEPT !.pc = w] = Call(w, b, c, d, e, f, g, h)
    BY DEF Call
  <2>2. [Call(w, b, c, d, e, f, g, h) EXCEPT !.ip = x] = Call(w, b, c, d, x, f, g, h)
    BY DEF Call
  <2>3. [Call(w, b, c, d, x, f, g, h) EXCEPT !.ino = y] = Call(w, b, c, y, x, f, g, h)
    BY DEF Call
  <2> QED BY <2>1, <2>2, <2>3
<1>3. \A w, x, y, z : [r EXCEPT !.pc = w, !.ino = x, !.ip = y, !.copy = z] = Call(w, b, c, x, y, z, g, h)
  <2> TAKE w, x, y, z
  <2>1. [Call(a, b, c, d, e, f, g, h) EXCEPT !.pc = w] = Call(w, b, c, d, e, f, g, h)
    BY DEF Call
  <2>2. [Call(w, b, c, d, e, f, g, h) EXCEPT !.ino = x] = Call(w, b, c, x, e, f, g, h)
    BY DEF Call
  <2>3. [Call(w, b, c, x, e, f, g, h) EXCEPT !.ip = y] = Call(w, b, c, x, y, f, g, h)
    BY DEF Call
  <2>4. [Call(w, b, c, x, y, f, g, h) EXCEPT !.copy = z] = Call(w, b, c, x, y, z, g, h)
    BY DEF Call
  <2> QED BY <2>1, <2>2, <2>3, <2>4
<1>4. \A w, x, y : [r EXCEPT !.pc = w, !.op = x, !.name = y] = Call(w, x, y, d, e, f, g, h)
  <2> TAKE w, x, y
  <2>1. [Call(a, b, c, d, e, f, g, h) EXCEPT !.pc = w] = Call(w, b, c, d, e, f, g, h)
    BY DEF Call
  <2>2. [Call(w, b, c, d, e, f, g, h) EXCEPT !.op = x] = Call(w, x, c, d, e, f, g, h)
    BY DEF Call
  <2>3. [Call(w, x, c, d, e, f, g, h) EXCEPT !.name = y] = Call(w, x, y, d, e, f, g, h)
    BY DEF Call
  <2> QED BY <2>1, <2>2, <2>3
<1> QED BY <1>1, <1>2, <1>3, <1>4 DEF Excepts

LEMMA IdleIs ==
  /\ Idle = Call("idle", "none", InNone, 0, 0, <<>>, TRUE, "idle")
  /\ \A op, i : [Idle EXCEPT !.pc = "iattach", !.op = op, !.ino = i] = Looks(op, i)
  /\ \A s, i : [Idle EXCEPT !.pc = "open", !.ip = s, !.ino = i] = Opens(i, s)
  /\ \A i, s, m, n : [Idle EXCEPT !.pc = "icopymd", !.ino = i, !.ip = s,
                                  !.copy = [mode |-> m, nlink |-> n]] = Writes(i, s, m, n)
  /\ \A nm : [Idle EXCEPT !.pc = "ialloc", !.op = "creat", !.name = nm]
               = Call("ialloc", "creat", nm, 0, 0, <<>>, TRUE, "idle")
<1>1. Idle = Call("idle", "none", InNone, 0, 0, <<>>, TRUE, "idle")
  BY DEF Idle, Call
<1>2. PICK a, b, n0, z, y, u : /\ a = "idle" /\ b = "none" /\ n0 = InNone /\ z = 0
                               /\ y = <<>> /\ u = TRUE
  OBVIOUS
<1>3. Idle = Call(a, b, n0, z, z, y, u, a)
  BY <1>1, <1>2
<1>8. Excepts(Idle, a, b, n0, z, z, y, u, a)
  BY <1>3, CallExcept
<1>4. \A op, i : [Idle EXCEPT !.pc = "iattach", !.op = op, !.ino = i] = Looks(op, i)
  <2> TAKE op, i
  <2>1. PICK w : w = "iattach"
    OBVIOUS
  <2>2. \A j, x, k : [Idle EXCEPT !.pc = j, !.op = x, !.ino = k] = Call(j, x, n0, k, z, y, u, a)
    BY <1>8 DEF Excepts
  <2>3. [Idle EXCEPT !.pc = w, !.op = op, !.ino = i] = Call(w, op, n0, i, z, y, u, a)
    BY <2>2
  <2>4. Looks(op, i) = Call(w, op, n0, i, z, y, u, a)
    BY <1>2, <2>1 DEF Looks
  <2> QED BY <2>1, <2>3, <2>4
<1>5. \A s, i : [Idle EXCEPT !.pc = "open", !.ip = s, !.ino = i] = Opens(i, s)
  <2> TAKE s, i
  <2>1. PICK w : w = "open"
    OBVIOUS
  <2>2. \A j, x, k : [Idle EXCEPT !.pc = j, !.ip = x, !.ino = k] = Call(j, b, n0, k, x, y, u, a)
    BY <1>8 DEF Excepts
  <2>3. [Idle EXCEPT !.pc = w, !.ip = s, !.ino = i] = Call(w, b, n0, i, s, y, u, a)
    BY <2>2
  <2>4. Opens(i, s) = Call(w, b, n0, i, s, y, u, a)
    BY <1>2, <2>1 DEF Opens
  <2> QED BY <2>1, <2>3, <2>4
<1>6. \A i, s, m, n : [Idle EXCEPT !.pc = "icopymd", !.ino = i, !.ip = s,
                                  !.copy = [mode |-> m, nlink |-> n]] = Writes(i, s, m, n)
  <2> TAKE i, s, m, n
  <2>1. PICK w, f : w = "icopymd" /\ f = [mode |-> m, nlink |-> n]
    OBVIOUS
  <2>2. \A j, x, k, l : [Idle EXCEPT !.pc = j, !.ino = x, !.ip = k, !.copy = l] = Call(j, b, n0, x, k, l, u, a)
    BY <1>8 DEF Excepts
  <2>3. [Idle EXCEPT !.pc = w, !.ino = i, !.ip = s, !.copy = f] = Call(w, b, n0, i, s, f, u, a)
    BY <2>2
  <2>4. Writes(i, s, m, n) = Call(w, b, n0, i, s, f, u, a)
    BY <1>2, <2>1 DEF Writes, File
  <2> QED BY <2>1, <2>3, <2>4
<1>7. \A nm : [Idle EXCEPT !.pc = "ialloc", !.op = "creat", !.name = nm]
               = Call("ialloc", "creat", nm, 0, 0, <<>>, TRUE, "idle")
  <2> TAKE nm
  <2>1. PICK w, o : w = "ialloc" /\ o = "creat"
    OBVIOUS
  <2>2. \A j, x, k : [Idle EXCEPT !.pc = j, !.op = x, !.name = k] = Call(j, x, k, z, z, y, u, a)
    BY <1>8 DEF Excepts
  <2>3. [Idle EXCEPT !.pc = w, !.op = o, !.name = nm] = Call(w, o, nm, z, z, y, u, a)
    BY <2>2
  <2>4. Call("ialloc", "creat", nm, 0, 0, <<>>, TRUE, "idle") = Call(w, o, nm, z, z, y, u, a)
    BY <1>2, <2>1
  <2> QED BY <2>1, <2>3, <2>4
<1> QED BY <1>1, <1>4, <1>5, <1>6, <1>7

-----------------------------------------------------------------------------
(* What becomes of an entry.                                               *)

LEMMA HoldsRecent ==
  ASSUME NEW t, NEW s \in InSlots, NEW e, Holds(t, s, e)
  PROVE  Holds(Recent(t, s), s, e)
<1>1. PICK v : v = Recent(t, s)
  OBVIOUS
<1>2. t \in [InSlots -> InEntries]
  BY DEF Holds
<1>3. v \in [InSlots -> InEntries] /\ \A u \in InSlots : SameEntry(v[u], t[u])
  BY <1>1, <1>2, RecentIs
<1>4. Holds(v, s, e)
  BY <1>3 DEF Holds, SameEntry
<1> QED BY <1>1, <1>4

\* The entry s of the table t changes.
LEMMA HoldsSet ==
  ASSUME NEW t, NEW s \in InSlots, NEW e, Holds(t, s, e),
         NEW g \in InEntries, NEW o, SameEntry(g, o)
  PROVE  Holds([t EXCEPT ![s] = g], s, o)
<1>1. PICK v : v = [t EXCEPT ![s] = g]
  OBVIOUS
<1>2. t \in [InSlots -> InEntries]
  BY DEF Holds
<1>3. v \in [InSlots -> InEntries] /\ v[s] = g /\ \A u \in InSlots : u # s => v[u] = t[u]
  BY <1>1, <1>2
<1>4. Holds(v, s, o)
  BY <1>3 DEF Holds
<1> QED BY <1>1, <1>4

LEMMA HoldsNow ==
  ASSUME inode \in [InSlots -> InEntries], NEW s \in InSlots
  PROVE  Holds(inode, s, Entry(inode[s].ino, inode[s].refc, inode[s].nlink, inode[s].mode,
                               inode[s].mod, inode[s].gate))
BY EntryIs DEF Holds, SameEntry, Entry

\* What EXCEPT makes of an entry.
LEMMA EntryRefc ==
  ASSUME NEW e \in InEntries, NEW r \in Int
  PROVE  /\ [e EXCEPT !.refc = r] \in InEntries
         /\ SameEntry([e EXCEPT !.refc = r], Entry(e.ino, r, e.nlink, e.mode, e.mod, e.gate))
BY DEF InEntries, SameEntry, Entry

LEMMA EntryGate ==
  ASSUME NEW e \in InEntries, NEW g \in InProcs \cup {InNone}
  PROVE  /\ [e EXCEPT !.gate = g] \in InEntries
         /\ SameEntry([e EXCEPT !.gate = g], Entry(e.ino, e.refc, e.nlink, e.mode, e.mod, g))
BY DEF InEntries, SameEntry, Entry

LEMMA EntryIno ==
  ASSUME NEW e \in InEntries, NEW i \in InInos \cup {0}
  PROVE  /\ [e EXCEPT !.ino = i] \in InEntries
         /\ SameEntry([e EXCEPT !.ino = i], Entry(i, e.refc, e.nlink, e.mode, e.mod, e.gate))
BY DEF InEntries, SameEntry, Entry

LEMMA EntryMode ==
  ASSUME NEW e \in InEntries, NEW m \in BOOLEAN
  PROVE  /\ [e EXCEPT !.mode = m] \in InEntries
         /\ SameEntry([e EXCEPT !.mode = m], Entry(e.ino, e.refc, e.nlink, m, e.mod, e.gate))
BY DEF InEntries, SameEntry, Entry

LEMMA EntryNlink ==
  ASSUME NEW e \in InEntries, NEW n \in Int
  PROVE  /\ [e EXCEPT !.nlink = n] \in InEntries
         /\ SameEntry([e EXCEPT !.nlink = n], Entry(e.ino, e.refc, n, e.mode, e.mod, e.gate))
BY DEF InEntries, SameEntry, Entry

LEMMA EntryMod ==
  ASSUME NEW e \in InEntries, NEW d \in BOOLEAN
  PROVE  /\ [e EXCEPT !.mod = d] \in InEntries
         /\ SameEntry([e EXCEPT !.mod = d], Entry(e.ino, e.refc, e.nlink, e.mode, d, e.gate))
BY DEF InEntries, SameEntry, Entry

LEMMA EntryLrt ==
  ASSUME NEW e \in InEntries, NEW l \in Nat
  PROVE  /\ [e EXCEPT !.lrt = l] \in InEntries
         /\ SameEntry([e EXCEPT !.lrt = l], Entry(e.ino, e.refc, e.nlink, e.mode, e.mod, e.gate))
BY DEF InEntries, SameEntry, Entry

-----------------------------------------------------------------------------
(* What iattach, icopydm and iclose do with an entry.                      *)

Detaches(p, s, i, r, n, m, d) ==
  \/ /\ ~ (r = 1 /\ (d \/ n = 0))
     /\ Ends(p, Idle, s, Entry(i, r - 1, n, m, d, InNone))
  \/ /\ r = 1 /\ d /\ n # 0
     /\ Ends(p, Writes(i, s, m, n), s, Entry(i, 0, n, m, d, p))
  \/ /\ r = 1 /\ n = 0
     /\ Ends(p, Writes(i, s, FALSE, 0), s, Entry(i, 0, 0, FALSE, d, p))

LEMMA EntryFour ==
  ASSUME NEW e \in InEntries, NEW r \in Int, NEW m \in BOOLEAN, NEW l \in Nat,
         NEW g \in InProcs \cup {InNone}
  PROVE  LET u == [e EXCEPT !.refc = r, !.mode = m, !.lrt = l, !.gate = g]
         IN  u \in InEntries /\ SameEntry(u, Entry(e.ino, r, e.nlink, m, e.mod, g))
<1>1. PICK e1 \in InEntries : /\ e1 = [e EXCEPT !.refc = r]
                              /\ SameEntry(e1, Entry(e.ino, r, e.nlink, e.mode, e.mod, e.gate))
  BY EntryRefc
<1>2. PICK e2 \in InEntries : /\ e2 = [e1 EXCEPT !.mode = m]
                              /\ SameEntry(e2, Entry(e.ino, r, e.nlink, m, e.mod, e.gate))
  <2>1. [e1 EXCEPT !.mode = m] \in InEntries
        /\ SameEntry([e1 EXCEPT !.mode = m], Entry(e1.ino, e1.refc, e1.nlink, m, e1.mod, e1.gate))
    BY EntryMode
  <2>2. PICK u \in InEntries : u = [e1 EXCEPT !.mode = m] /\ SameEntry(u, Entry(e1.ino, e1.refc, e1.nlink, m, e1.mod, e1.gate))
    BY <2>1
  <2>3. SameEntry(u, Entry(e.ino, r, e.nlink, m, e.mod, e.gate))
    BY <1>1, <2>2 DEF SameEntry, Entry
  <2> QED BY <2>2, <2>3
<1>3. PICK e3 \in InEntries : /\ e3 = [e2 EXCEPT !.lrt = l]
                              /\ SameEntry(e3, Entry(e.ino, r, e.nlink, m, e.mod, e.gate))
  <2>1. [e2 EXCEPT !.lrt = l] \in InEntries
        /\ SameEntry([e2 EXCEPT !.lrt = l], Entry(e2.ino, e2.refc, e2.nlink, e2.mode, e2.mod, e2.gate))
    BY EntryLrt
  <2>2. PICK u \in InEntries : u = [e2 EXCEPT !.lrt = l] /\ SameEntry(u, Entry(e2.ino, e2.refc, e2.nlink, e2.mode, e2.mod, e2.gate))
    BY <2>1
  <2>3. SameEntry(u, Entry(e.ino, r, e.nlink, m, e.mod, e.gate))
    BY <1>2, <2>2 DEF SameEntry, Entry
  <2> QED BY <2>2, <2>3
<1>4. PICK e4 \in InEntries : /\ e4 = [e3 EXCEPT !.gate = g]
                              /\ SameEntry(e4, Entry(e.ino, r, e.nlink, m, e.mod, g))
  <2>1. [e3 EXCEPT !.gate = g] \in InEntries
        /\ SameEntry([e3 EXCEPT !.gate = g], Entry(e3.ino, e3.refc, e3.nlink, e3.mode, e3.mod, g))
    BY EntryGate
  <2>2. PICK u \in InEntries : u = [e3 EXCEPT !.gate = g] /\ SameEntry(u, Entry(e3.ino, e3.refc, e3.nlink, e3.mode, e3.mod, g))
    BY <2>1
  <2>3. SameEntry(u, Entry(e.ino, r, e.nlink, m, e.mod, g))
    BY <1>3, <2>2 DEF SameEntry, Entry
  <2> QED BY <2>2, <2>3
<1>5. [e EXCEPT !.refc = r, !.mode = m, !.lrt = l, !.gate = g] = e4
  BY <1>1, <1>2, <1>3, <1>4
<1> QED BY <1>4, <1>5

LEMMA Detached ==
  ASSUME NEW p \in InProcs, NEW s \in InSlots, NEW t, NEW i \in InInos \cup {0}, NEW r \in Int, NEW n \in Int,
         NEW m \in BOOLEAN, NEW d \in BOOLEAN, NEW g \in InProcs \cup {InNone},
         Holds(t, s, Entry(i, r, n, m, d, g)), idetach(p, s, t)
  PROVE  Detaches(p, s, i, r, n, m, d)
<1>1. PICK e \in InEntries : e = t[s] /\ SameEntry(e, Entry(i, r, n, m, d, g))
  BY DEF Holds
<1>2. e.ino = i /\ e.refc = r /\ e.nlink = n /\ e.mode = m /\ e.mod = d /\ e.gate = g /\ e.lrt \in Nat
  BY <1>1 DEF SameEntry, Entry, InEntries
<1>3. PICK w \in BOOLEAN, f \in BOOLEAN : /\ w <=> (r = 1 /\ (d \/ n = 0))
                                          /\ f <=> (r = 1 /\ n = 0)
  OBVIOUS
<1>4. PICK m1 \in BOOLEAN : m1 <=> (m /\ ~ f)
  OBVIOUS
<1>5. PICK l1 \in Nat : l1 = IF f THEN 0 ELSE e.lrt
  BY <1>2
<1>6. PICK g1 \in InProcs \cup {InNone} : g1 = IF w THEN p ELSE InNone
  OBVIOUS
<1>7. PICK r1 \in Int : r1 = r - 1
  OBVIOUS
<1>8. PICK u \in InEntries : /\ u = [e EXCEPT !.refc = r1, !.mode = m1, !.lrt = l1, !.gate = g1]
                             /\ SameEntry(u, Entry(i, r1, n, m1, d, g1))
  BY <1>2, EntryFour
<1>9. /\ inode' = [t EXCEPT ![s] = u]
      /\ in' = [in EXCEPT ![p] = IF w THEN [Idle EXCEPT !.pc = "icopymd", !.ino = u.ino, !.ip = s,
                                                        !.copy = [mode |-> u.mode, nlink |-> u.nlink]]
                                 ELSE Idle]
  <2> DEFINE writes == t[s].refc = 1 /\ (t[s].mod \/ t[s].nlink = 0)
             frees == t[s].refc = 1 /\ t[s].nlink = 0
             v == [t[s] EXCEPT !.refc = @ - 1, !.mode = @ /\ ~ frees,
                               !.lrt = IF frees THEN 0 ELSE @,
                               !.gate = IF writes THEN p ELSE InNone]
  <2>1. /\ inode' = [t EXCEPT ![s] = v]
        /\ in' = [in EXCEPT ![p] = IF writes THEN [Idle EXCEPT !.pc = "icopymd", !.ino = v.ino, !.ip = s,
                                                        !.copy = [mode |-> v.mode, nlink |-> v.nlink]]
                                 ELSE Idle]
    BY DEF idetach
  <2>2. (writes <=> w) /\ (frees <=> f)
    BY <1>1, <1>2, <1>3
  <2>3. (IF writes THEN p ELSE InNone) = g1 /\ (IF frees THEN 0 ELSE t[s].lrt) = l1
    BY <1>1, <1>5, <1>6, <2>2
  <2>4. (t[s].mode /\ ~ frees) = m1
    BY <1>1, <1>2, <1>4, <2>2
  <2>5. t[s].refc - 1 = r1
    BY <1>1, <1>2, <1>7
  <2> HIDE DEF writes, frees
  <2>6. v = [t[s] EXCEPT !.refc = r1, !.mode = m1, !.lrt = l1, !.gate = g1]
    BY <2>3, <2>4, <2>5, Zenon
  <2>7. v = u
    BY <1>1, <1>8, <2>6
  <2> HIDE DEF v
  <2> QED BY <2>1, <2>2, <2>7
<1>10. Holds(inode', s, Entry(i, r1, n, m1, d, g1))
  BY <1>8, <1>9, HoldsSet
<1>11. u.ino = i /\ u.mode = m1 /\ u.nlink = n
  BY <1>8 DEF SameEntry, Entry
<1>12. in' = [in EXCEPT ![p] = IF w THEN Writes(i, s, m1, n) ELSE Idle]
  BY <1>9, <1>11, IdleIs
<1>13. Ends(p, IF w THEN Writes(i, s, m1, n) ELSE Idle, s, Entry(i, r1, n, m1, d, g1))
  BY <1>10, <1>12 DEF Ends
<1>14. CASE ~ w
  BY <1>3, <1>4, <1>6, <1>7, <1>13, <1>14 DEF Detaches
<1>15. CASE w /\ ~ f
  <2>1. m1 = m /\ r1 = 0 /\ g1 = p /\ d /\ n # 0 /\ r = 1
    BY <1>3, <1>4, <1>6, <1>7, <1>15
  <2> QED BY <1>13, <1>15, <2>1 DEF Detaches
<1>16. CASE f
  <2>1. m1 = FALSE /\ r1 = 0 /\ g1 = p /\ n = 0 /\ r = 1 /\ w
    BY <1>3, <1>4, <1>6, <1>7, <1>16
  <2> QED BY <1>13, <1>16, <2>1 DEF Detaches
<1> QED BY <1>3, <1>14, <1>15, <1>16

\* A field of the entry s changes.
LEMMA HoldsIno ==
  ASSUME NEW t, NEW s \in InSlots, NEW i, NEW r, NEW n, NEW m, NEW d, NEW g,
         Holds(t, s, Entry(i, r, n, m, d, g)), NEW j \in InInos \cup {0}
  PROVE  Holds([t EXCEPT ![s].ino = j], s, Entry(j, r, n, m, d, g))
<1>1. PICK e \in InEntries : e = t[s] /\ SameEntry(e, Entry(i, r, n, m, d, g))
  BY DEF Holds
<1>2. PICK u \in InEntries : u = [e EXCEPT !.ino = j] /\ SameEntry(u, Entry(j, e.refc, e.nlink, e.mode, e.mod, e.gate))
  <2>1. [e EXCEPT !.ino = j] \in InEntries /\ SameEntry([e EXCEPT !.ino = j], Entry(j, e.refc, e.nlink, e.mode, e.mod, e.gate))
    BY EntryIno
  <2> QED BY <2>1
<1>3. SameEntry(u, Entry(j, r, n, m, d, g))
  BY <1>1, <1>2 DEF SameEntry, Entry
<1>4. Holds([t EXCEPT ![s] = u], s, Entry(j, r, n, m, d, g))
  BY <1>3, HoldsSet
<1>5. [t EXCEPT ![s].ino = j] = [t EXCEPT ![s] = u]
  BY <1>1, <1>2
<1> QED BY <1>4, <1>5

LEMMA HoldsRefc ==
  ASSUME NEW t, NEW s \in InSlots, NEW i, NEW r, NEW n, NEW m, NEW d, NEW g,
         Holds(t, s, Entry(i, r, n, m, d, g)), NEW k \in Int
  PROVE  Holds([t EXCEPT ![s].refc = k], s, Entry(i, k, n, m, d, g))
<1>1. PICK e \in InEntries : e = t[s] /\ SameEntry(e, Entry(i, r, n, m, d, g))
  BY DEF Holds
<1>2. PICK u \in InEntries : u = [e EXCEPT !.refc = k] /\ SameEntry(u, Entry(e.ino, k, e.nlink, e.mode, e.mod, e.gate))
  <2>1. [e EXCEPT !.refc = k] \in InEntries /\ SameEntry([e EXCEPT !.refc = k], Entry(e.ino, k, e.nlink, e.mode, e.mod, e.gate))
    BY EntryRefc
  <2> QED BY <2>1
<1>3. SameEntry(u, Entry(i, k, n, m, d, g))
  BY <1>1, <1>2 DEF SameEntry, Entry
<1>4. Holds([t EXCEPT ![s] = u], s, Entry(i, k, n, m, d, g))
  BY <1>3, HoldsSet
<1>5. [t EXCEPT ![s].refc = k] = [t EXCEPT ![s] = u]
  BY <1>1, <1>2
<1> QED BY <1>4, <1>5

LEMMA HoldsNlink ==
  ASSUME NEW t, NEW s \in InSlots, NEW i, NEW r, NEW n, NEW m, NEW d, NEW g,
         Holds(t, s, Entry(i, r, n, m, d, g)), NEW k \in Int
  PROVE  Holds([t EXCEPT ![s].nlink = k], s, Entry(i, r, k, m, d, g))
<1>1. PICK e \in InEntries : e = t[s] /\ SameEntry(e, Entry(i, r, n, m, d, g))
  BY DEF Holds
<1>2. PICK u \in InEntries : u = [e EXCEPT !.nlink = k] /\ SameEntry(u, Entry(e.ino, e.refc, k, e.mode, e.mod, e.gate))
  <2>1. [e EXCEPT !.nlink = k] \in InEntries /\ SameEntry([e EXCEPT !.nlink = k], Entry(e.ino, e.refc, k, e.mode, e.mod, e.gate))
    BY EntryNlink
  <2> QED BY <2>1
<1>3. SameEntry(u, Entry(i, r, k, m, d, g))
  BY <1>1, <1>2 DEF SameEntry, Entry
<1>4. Holds([t EXCEPT ![s] = u], s, Entry(i, r, k, m, d, g))
  BY <1>3, HoldsSet
<1>5. [t EXCEPT ![s].nlink = k] = [t EXCEPT ![s] = u]
  BY <1>1, <1>2
<1> QED BY <1>4, <1>5

LEMMA HoldsMode ==
  ASSUME NEW t, NEW s \in InSlots, NEW i, NEW r, NEW n, NEW m, NEW d, NEW g,
         Holds(t, s, Entry(i, r, n, m, d, g)), NEW b \in BOOLEAN
  PROVE  Holds([t EXCEPT ![s].mode = b], s, Entry(i, r, n, b, d, g))
<1>1. PICK e \in InEntries : e = t[s] /\ SameEntry(e, Entry(i, r, n, m, d, g))
  BY DEF Holds
<1>2. PICK u \in InEntries : u = [e EXCEPT !.mode = b] /\ SameEntry(u, Entry(e.ino, e.refc, e.nlink, b, e.mod, e.gate))
  <2>1. [e EXCEPT !.mode = b] \in InEntries /\ SameEntry([e EXCEPT !.mode = b], Entry(e.ino, e.refc, e.nlink, b, e.mod, e.gate))
    BY EntryMode
  <2> QED BY <2>1
<1>3. SameEntry(u, Entry(i, r, n, b, d, g))
  BY <1>1, <1>2 DEF SameEntry, Entry
<1>4. Holds([t EXCEPT ![s] = u], s, Entry(i, r, n, b, d, g))
  BY <1>3, HoldsSet
<1>5. [t EXCEPT ![s].mode = b] = [t EXCEPT ![s] = u]
  BY <1>1, <1>2
<1> QED BY <1>4, <1>5

LEMMA HoldsMod ==
  ASSUME NEW t, NEW s \in InSlots, NEW i, NEW r, NEW n, NEW m, NEW d, NEW g,
         Holds(t, s, Entry(i, r, n, m, d, g)), NEW b \in BOOLEAN
  PROVE  Holds([t EXCEPT ![s].mod = b], s, Entry(i, r, n, m, b, g))
<1>1. PICK e \in InEntries : e = t[s] /\ SameEntry(e, Entry(i, r, n, m, d, g))
  BY DEF Holds
<1>2. PICK u \in InEntries : u = [e EXCEPT !.mod = b] /\ SameEntry(u, Entry(e.ino, e.refc, e.nlink, e.mode, b, e.gate))
  <2>1. [e EXCEPT !.mod = b] \in InEntries /\ SameEntry([e EXCEPT !.mod = b], Entry(e.ino, e.refc, e.nlink, e.mode, b, e.gate))
    BY EntryMod
  <2> QED BY <2>1
<1>3. SameEntry(u, Entry(i, r, n, m, b, g))
  BY <1>1, <1>2 DEF SameEntry, Entry
<1>4. Holds([t EXCEPT ![s] = u], s, Entry(i, r, n, m, b, g))
  BY <1>3, HoldsSet
<1>5. [t EXCEPT ![s].mod = b] = [t EXCEPT ![s] = u]
  BY <1>1, <1>2
<1> QED BY <1>4, <1>5

LEMMA HoldsGate ==
  ASSUME NEW t, NEW s \in InSlots, NEW i, NEW r, NEW n, NEW m, NEW d, NEW g,
         Holds(t, s, Entry(i, r, n, m, d, g)), NEW h \in InProcs \cup {InNone}
  PROVE  Holds([t EXCEPT ![s].gate = h], s, Entry(i, r, n, m, d, h))
<1>1. PICK e \in InEntries : e = t[s] /\ SameEntry(e, Entry(i, r, n, m, d, g))
  BY DEF Holds
<1>2. PICK u \in InEntries : u = [e EXCEPT !.gate = h] /\ SameEntry(u, Entry(e.ino, e.refc, e.nlink, e.mode, e.mod, h))
  <2>1. [e EXCEPT !.gate = h] \in InEntries /\ SameEntry([e EXCEPT !.gate = h], Entry(e.ino, e.refc, e.nlink, e.mode, e.mod, h))
    BY EntryGate
  <2> QED BY <2>1
<1>3. SameEntry(u, Entry(i, r, n, m, d, h))
  BY <1>1, <1>2 DEF SameEntry, Entry
<1>4. Holds([t EXCEPT ![s] = u], s, Entry(i, r, n, m, d, h))
  BY <1>3, HoldsSet
<1>5. [t EXCEPT ![s].gate = h] = [t EXCEPT ![s] = u]
  BY <1>1, <1>2
<1> QED BY <1>4, <1>5

\* What becomes of f, which is in but for the call c of p, when a field of the call changes.
CallFields(p, f, c) ==
  /\ \A x : [f EXCEPT ![p].pc = x] = [in EXCEPT ![p] = [c EXCEPT !.pc = x]]
  /\ \A x : [f EXCEPT ![p].ip = x] = [in EXCEPT ![p] = [c EXCEPT !.ip = x]]
  /\ \A x : [f EXCEPT ![p].ino = x] = [in EXCEPT ![p] = [c EXCEPT !.ino = x]]
  /\ \A x : [f EXCEPT ![p].back = x] = [in EXCEPT ![p] = [c EXCEPT !.back = x]]
  /\ \A x : [f EXCEPT ![p].unlock = x] = [in EXCEPT ![p] = [c EXCEPT !.unlock = x]]
  /\ \A x : [f EXCEPT ![p].copy = x] = [in EXCEPT ![p] = [c EXCEPT !.copy = x]]

LEMMA CallField ==
  ASSUME NEW p \in InProcs, NEW f, NEW c, f = [in EXCEPT ![p] = c], in \in [InProcs -> InCalls]
  PROVE  CallFields(p, f, c)
<1>1. \A x : [f EXCEPT ![p].pc = x] = [in EXCEPT ![p] = [c EXCEPT !.pc = x]]
  BY DEF InCalls
<1>2. \A x : [f EXCEPT ![p].ip = x] = [in EXCEPT ![p] = [c EXCEPT !.ip = x]]
  BY DEF InCalls
<1>3. \A x : [f EXCEPT ![p].ino = x] = [in EXCEPT ![p] = [c EXCEPT !.ino = x]]
  BY DEF InCalls
<1>4. \A x : [f EXCEPT ![p].back = x] = [in EXCEPT ![p] = [c EXCEPT !.back = x]]
  BY DEF InCalls
<1>5. \A x : [f EXCEPT ![p].unlock = x] = [in EXCEPT ![p] = [c EXCEPT !.unlock = x]]
  BY DEF InCalls
<1>6. \A x : [f EXCEPT ![p].copy = x] = [in EXCEPT ![p] = [c EXCEPT !.copy = x]]
  BY DEF InCalls
<1> QED BY <1>1, <1>2, <1>3, <1>4, <1>5, <1>6 DEF CallFields

\* What EXCEPT makes of the call of p.
SetPc(p, x) ==
  [in EXCEPT ![p].pc = x]
SetPcIp(p, x, s) ==
  [in EXCEPT ![p].pc = x, ![p].ip = s]
SetPcInoIp(p, x, i, s) ==
  [in EXCEPT ![p].pc = x, ![p].ino = i, ![p].ip = s]
SetPcIpIno(p, x, s, i) ==
  [in EXCEPT ![p].pc = x, ![p].ip = s, ![p].ino = i]
SetWrite(p, x, b0, u0, y) ==
  [in EXCEPT ![p].pc = x, ![p].back = b0, ![p].unlock = u0, ![p].copy = y]
SetSync(p, x, b0, i, s, u0, y) ==
  [in EXCEPT ![p].pc = x, ![p].back = b0, ![p].ino = i, ![p].ip = s, ![p].unlock = u0, ![p].copy = y]

LEMMA GoesPc ==
  ASSUME NEW p \in InProcs, in \in [InProcs -> InCalls], NEW x
  PROVE  SetPc(p, x) = [in EXCEPT ![p] = On(in[p], x, in[p].ino, in[p].ip)]
<1>1. in = [in EXCEPT ![p] = in[p]] /\ in[p] \in InCalls
  OBVIOUS
<1>2. PICK a, b, c, d, e, f, g, h : /\ in[p] = Call(a, b, c, d, e, f, g, h)
                                      /\ b = in[p].op /\ c = in[p].name /\ d = in[p].ino /\ e = in[p].ip
                                      /\ f = in[p].copy /\ g = in[p].unlock /\ h = in[p].back
  <2>1. in[p] = Call(in[p].pc, in[p].op, in[p].name, in[p].ino, in[p].ip, in[p].copy,
                     in[p].unlock, in[p].back)
    BY <1>1 DEF InCalls, Call
  <2> QED BY <2>1
<1>10. CallFields(p, in, in[p])
  BY <1>1, CallField
<1>11. PICK f1, c1 : f1 = [in EXCEPT ![p].pc = x] /\ c1 = [in[p] EXCEPT !.pc = x]
  OBVIOUS
<1>12. f1 = [in EXCEPT ![p] = c1]
  BY <1>10, <1>11 DEF CallFields
<1>13. c1 = Call(x, b, c, d, e, f, g, h)
  BY <1>2, <1>11 DEF Call
<1>3. [in EXCEPT ![p].pc = x] = f1
  BY <1>11
<1>4. c1 = On(in[p], x, in[p].ino, in[p].ip)
  BY <1>2, <1>13 DEF On
<1> QED BY <1>12, <1>3, <1>4 DEF SetPc

LEMMA GoesPcIp ==
  ASSUME NEW p \in InProcs, in \in [InProcs -> InCalls], NEW x, NEW s
  PROVE  SetPcIp(p, x, s) = [in EXCEPT ![p] = On(in[p], x, in[p].ino, s)]
<1>1. in = [in EXCEPT ![p] = in[p]] /\ in[p] \in InCalls
  OBVIOUS
<1>2. PICK a, b, c, d, e, f, g, h : /\ in[p] = Call(a, b, c, d, e, f, g, h)
                                      /\ b = in[p].op /\ c = in[p].name /\ d = in[p].ino /\ e = in[p].ip
                                      /\ f = in[p].copy /\ g = in[p].unlock /\ h = in[p].back
  <2>1. in[p] = Call(in[p].pc, in[p].op, in[p].name, in[p].ino, in[p].ip, in[p].copy,
                     in[p].unlock, in[p].back)
    BY <1>1 DEF InCalls, Call
  <2> QED BY <2>1
<1>10. CallFields(p, in, in[p])
  BY <1>1, CallField
<1>11. PICK f1, c1 : f1 = [in EXCEPT ![p].pc = x] /\ c1 = [in[p] EXCEPT !.pc = x]
  OBVIOUS
<1>12. f1 = [in EXCEPT ![p] = c1]
  BY <1>10, <1>11 DEF CallFields
<1>13. c1 = Call(x, b, c, d, e, f, g, h)
  BY <1>2, <1>11 DEF Call
<1>20. CallFields(p, f1, c1)
  BY <1>12, CallField
<1>21. PICK f2, c2 : f2 = [f1 EXCEPT ![p].ip = s] /\ c2 = [c1 EXCEPT !.ip = s]
  OBVIOUS
<1>22. f2 = [in EXCEPT ![p] = c2]
  BY <1>20, <1>21 DEF CallFields
<1>23. c2 = Call(x, b, c, d, s, f, g, h)
  BY <1>13, <1>21 DEF Call
<1>3. [in EXCEPT ![p].pc = x, ![p].ip = s] = f2
  BY <1>11, <1>21
<1>4. c2 = On(in[p], x, in[p].ino, s)
  BY <1>2, <1>23 DEF On
<1> QED BY <1>22, <1>3, <1>4 DEF SetPcIp

LEMMA GoesPcInoIp ==
  ASSUME NEW p \in InProcs, in \in [InProcs -> InCalls], NEW x, NEW i, NEW s
  PROVE  SetPcInoIp(p, x, i, s) = [in EXCEPT ![p] = On(in[p], x, i, s)]
<1>1. in = [in EXCEPT ![p] = in[p]] /\ in[p] \in InCalls
  OBVIOUS
<1>2. PICK a, b, c, d, e, f, g, h : /\ in[p] = Call(a, b, c, d, e, f, g, h)
                                      /\ b = in[p].op /\ c = in[p].name /\ d = in[p].ino /\ e = in[p].ip
                                      /\ f = in[p].copy /\ g = in[p].unlock /\ h = in[p].back
  <2>1. in[p] = Call(in[p].pc, in[p].op, in[p].name, in[p].ino, in[p].ip, in[p].copy,
                     in[p].unlock, in[p].back)
    BY <1>1 DEF InCalls, Call
  <2> QED BY <2>1
<1>10. CallFields(p, in, in[p])
  BY <1>1, CallField
<1>11. PICK f1, c1 : f1 = [in EXCEPT ![p].pc = x] /\ c1 = [in[p] EXCEPT !.pc = x]
  OBVIOUS
<1>12. f1 = [in EXCEPT ![p] = c1]
  BY <1>10, <1>11 DEF CallFields
<1>13. c1 = Call(x, b, c, d, e, f, g, h)
  BY <1>2, <1>11 DEF Call
<1>20. CallFields(p, f1, c1)
  BY <1>12, CallField
<1>21. PICK f2, c2 : f2 = [f1 EXCEPT ![p].ino = i] /\ c2 = [c1 EXCEPT !.ino = i]
  OBVIOUS
<1>22. f2 = [in EXCEPT ![p] = c2]
  BY <1>20, <1>21 DEF CallFields
<1>23. c2 = Call(x, b, c, i, e, f, g, h)
  BY <1>13, <1>21 DEF Call
<1>30. CallFields(p, f2, c2)
  BY <1>22, CallField
<1>31. PICK f3, c3 : f3 = [f2 EXCEPT ![p].ip = s] /\ c3 = [c2 EXCEPT !.ip = s]
  OBVIOUS
<1>32. f3 = [in EXCEPT ![p] = c3]
  BY <1>30, <1>31 DEF CallFields
<1>33. c3 = Call(x, b, c, i, s, f, g, h)
  BY <1>23, <1>31 DEF Call
<1>3. [in EXCEPT ![p].pc = x, ![p].ino = i, ![p].ip = s] = f3
  BY <1>11, <1>21, <1>31
<1>4. c3 = On(in[p], x, i, s)
  BY <1>2, <1>33 DEF On
<1> QED BY <1>32, <1>3, <1>4 DEF SetPcInoIp

LEMMA GoesPcIpIno ==
  ASSUME NEW p \in InProcs, in \in [InProcs -> InCalls], NEW x, NEW s, NEW i
  PROVE  SetPcIpIno(p, x, s, i) = [in EXCEPT ![p] = On(in[p], x, i, s)]
<1>1. in = [in EXCEPT ![p] = in[p]] /\ in[p] \in InCalls
  OBVIOUS
<1>2. PICK a, b, c, d, e, f, g, h : /\ in[p] = Call(a, b, c, d, e, f, g, h)
                                      /\ b = in[p].op /\ c = in[p].name /\ d = in[p].ino /\ e = in[p].ip
                                      /\ f = in[p].copy /\ g = in[p].unlock /\ h = in[p].back
  <2>1. in[p] = Call(in[p].pc, in[p].op, in[p].name, in[p].ino, in[p].ip, in[p].copy,
                     in[p].unlock, in[p].back)
    BY <1>1 DEF InCalls, Call
  <2> QED BY <2>1
<1>10. CallFields(p, in, in[p])
  BY <1>1, CallField
<1>11. PICK f1, c1 : f1 = [in EXCEPT ![p].pc = x] /\ c1 = [in[p] EXCEPT !.pc = x]
  OBVIOUS
<1>12. f1 = [in EXCEPT ![p] = c1]
  BY <1>10, <1>11 DEF CallFields
<1>13. c1 = Call(x, b, c, d, e, f, g, h)
  BY <1>2, <1>11 DEF Call
<1>20. CallFields(p, f1, c1)
  BY <1>12, CallField
<1>21. PICK f2, c2 : f2 = [f1 EXCEPT ![p].ip = s] /\ c2 = [c1 EXCEPT !.ip = s]
  OBVIOUS
<1>22. f2 = [in EXCEPT ![p] = c2]
  BY <1>20, <1>21 DEF CallFields
<1>23. c2 = Call(x, b, c, d, s, f, g, h)
  BY <1>13, <1>21 DEF Call
<1>30. CallFields(p, f2, c2)
  BY <1>22, CallField
<1>31. PICK f3, c3 : f3 = [f2 EXCEPT ![p].ino = i] /\ c3 = [c2 EXCEPT !.ino = i]
  OBVIOUS
<1>32. f3 = [in EXCEPT ![p] = c3]
  BY <1>30, <1>31 DEF CallFields
<1>33. c3 = Call(x, b, c, i, s, f, g, h)
  BY <1>23, <1>31 DEF Call
<1>3. [in EXCEPT ![p].pc = x, ![p].ip = s, ![p].ino = i] = f3
  BY <1>11, <1>21, <1>31
<1>4. c3 = On(in[p], x, i, s)
  BY <1>2, <1>33 DEF On
<1> QED BY <1>32, <1>3, <1>4 DEF SetPcIpIno

LEMMA GoesWrite ==
  ASSUME NEW p \in InProcs, in \in [InProcs -> InCalls], NEW x, NEW b0, NEW u0, NEW y
  PROVE  SetWrite(p, x, b0, u0, y) = [in EXCEPT ![p] = Call(x, in[p].op, in[p].name, in[p].ino, in[p].ip, y, u0, b0)]
<1>1. in = [in EXCEPT ![p] = in[p]] /\ in[p] \in InCalls
  OBVIOUS
<1>2. PICK a, b, c, d, e, f, g, h : /\ in[p] = Call(a, b, c, d, e, f, g, h)
                                      /\ b = in[p].op /\ c = in[p].name /\ d = in[p].ino /\ e = in[p].ip
                                      /\ f = in[p].copy /\ g = in[p].unlock /\ h = in[p].back
  <2>1. in[p] = Call(in[p].pc, in[p].op, in[p].name, in[p].ino, in[p].ip, in[p].copy,
                     in[p].unlock, in[p].back)
    BY <1>1 DEF InCalls, Call
  <2> QED BY <2>1
<1>10. CallFields(p, in, in[p])
  BY <1>1, CallField
<1>11. PICK f1, c1 : f1 = [in EXCEPT ![p].pc = x] /\ c1 = [in[p] EXCEPT !.pc = x]
  OBVIOUS
<1>12. f1 = [in EXCEPT ![p] = c1]
  BY <1>10, <1>11 DEF CallFields
<1>13. c1 = Call(x, b, c, d, e, f, g, h)
  BY <1>2, <1>11 DEF Call
<1>20. CallFields(p, f1, c1)
  BY <1>12, CallField
<1>21. PICK f2, c2 : f2 = [f1 EXCEPT ![p].back = b0] /\ c2 = [c1 EXCEPT !.back = b0]
  OBVIOUS
<1>22. f2 = [in EXCEPT ![p] = c2]
  BY <1>20, <1>21 DEF CallFields
<1>23. c2 = Call(x, b, c, d, e, f, g, b0)
  BY <1>13, <1>21 DEF Call
<1>30. CallFields(p, f2, c2)
  BY <1>22, CallField
<1>31. PICK f3, c3 : f3 = [f2 EXCEPT ![p].unlock = u0] /\ c3 = [c2 EXCEPT !.unlock = u0]
  OBVIOUS
<1>32. f3 = [in EXCEPT ![p] = c3]
  BY <1>30, <1>31 DEF CallFields
<1>33. c3 = Call(x, b, c, d, e, f, u0, b0)
  BY <1>23, <1>31 DEF Call
<1>40. CallFields(p, f3, c3)
  BY <1>32, CallField
<1>41. PICK f4, c4 : f4 = [f3 EXCEPT ![p].copy = y] /\ c4 = [c3 EXCEPT !.copy = y]
  OBVIOUS
<1>42. f4 = [in EXCEPT ![p] = c4]
  BY <1>40, <1>41 DEF CallFields
<1>43. c4 = Call(x, b, c, d, e, y, u0, b0)
  BY <1>33, <1>41 DEF Call
<1>3. [in EXCEPT ![p].pc = x, ![p].back = b0, ![p].unlock = u0, ![p].copy = y] = f4
  BY <1>11, <1>21, <1>31, <1>41
<1>4. c4 = Call(x, in[p].op, in[p].name, in[p].ino, in[p].ip, y, u0, b0)
  BY <1>2, <1>43 DEF On
<1> QED BY <1>42, <1>3, <1>4 DEF SetWrite

LEMMA GoesSync ==
  ASSUME NEW p \in InProcs, in \in [InProcs -> InCalls], NEW x, NEW b0, NEW i, NEW s, NEW u0, NEW y
  PROVE  SetSync(p, x, b0, i, s, u0, y) = [in EXCEPT ![p] = Call(x, in[p].op, in[p].name, i, s, y, u0, b0)]
<1>1. in = [in EXCEPT ![p] = in[p]] /\ in[p] \in InCalls
  OBVIOUS
<1>2. PICK a, b, c, d, e, f, g, h : /\ in[p] = Call(a, b, c, d, e, f, g, h)
                                      /\ b = in[p].op /\ c = in[p].name /\ d = in[p].ino /\ e = in[p].ip
                                      /\ f = in[p].copy /\ g = in[p].unlock /\ h = in[p].back
  <2>1. in[p] = Call(in[p].pc, in[p].op, in[p].name, in[p].ino, in[p].ip, in[p].copy,
                     in[p].unlock, in[p].back)
    BY <1>1 DEF InCalls, Call
  <2> QED BY <2>1
<1>10. CallFields(p, in, in[p])
  BY <1>1, CallField
<1>11. PICK f1, c1 : f1 = [in EXCEPT ![p].pc = x] /\ c1 = [in[p] EXCEPT !.pc = x]
  OBVIOUS
<1>12. f1 = [in EXCEPT ![p] = c1]
  BY <1>10, <1>11 DEF CallFields
<1>13. c1 = Call(x, b, c, d, e, f, g, h)
  BY <1>2, <1>11 DEF Call
<1>20. CallFields(p, f1, c1)
  BY <1>12, CallField
<1>21. PICK f2, c2 : f2 = [f1 EXCEPT ![p].back = b0] /\ c2 = [c1 EXCEPT !.back = b0]
  OBVIOUS
<1>22. f2 = [in EXCEPT ![p] = c2]
  BY <1>20, <1>21 DEF CallFields
<1>23. c2 = Call(x, b, c, d, e, f, g, b0)
  BY <1>13, <1>21 DEF Call
<1>30. CallFields(p, f2, c2)
  BY <1>22, CallField
<1>31. PICK f3, c3 : f3 = [f2 EXCEPT ![p].ino = i] /\ c3 = [c2 EXCEPT !.ino = i]
  OBVIOUS
<1>32. f3 = [in EXCEPT ![p] = c3]
  BY <1>30, <1>31 DEF CallFields
<1>33. c3 = Call(x, b, c, i, e, f, g, b0)
  BY <1>23, <1>31 DEF Call
<1>40. CallFields(p, f3, c3)
  BY <1>32, CallField
<1>41. PICK f4, c4 : f4 = [f3 EXCEPT ![p].ip = s] /\ c4 = [c3 EXCEPT !.ip = s]
  OBVIOUS
<1>42. f4 = [in EXCEPT ![p] = c4]
  BY <1>40, <1>41 DEF CallFields
<1>43. c4 = Call(x, b, c, i, s, f, g, b0)
  BY <1>33, <1>41 DEF Call
<1>50. CallFields(p, f4, c4)
  BY <1>42, CallField
<1>51. PICK f5, c5 : f5 = [f4 EXCEPT ![p].unlock = u0] /\ c5 = [c4 EXCEPT !.unlock = u0]
  OBVIOUS
<1>52. f5 = [in EXCEPT ![p] = c5]
  BY <1>50, <1>51 DEF CallFields
<1>53. c5 = Call(x, b, c, i, s, f, u0, b0)
  BY <1>43, <1>51 DEF Call
<1>60. CallFields(p, f5, c5)
  BY <1>52, CallField
<1>61. PICK f6, c6 : f6 = [f5 EXCEPT ![p].copy = y] /\ c6 = [c5 EXCEPT !.copy = y]
  OBVIOUS
<1>62. f6 = [in EXCEPT ![p] = c6]
  BY <1>60, <1>61 DEF CallFields
<1>63. c6 = Call(x, b, c, i, s, y, u0, b0)
  BY <1>53, <1>61 DEF Call
<1>3. [in EXCEPT ![p].pc = x, ![p].back = b0, ![p].ino = i, ![p].ip = s, ![p].unlock = u0, ![p].copy = y] = f6
  BY <1>11, <1>21, <1>31, <1>41, <1>51, <1>61
<1>4. c6 = Call(x, in[p].op, in[p].name, i, s, y, u0, b0)
  BY <1>2, <1>63 DEF On
<1> QED BY <1>62, <1>3, <1>4 DEF SetSync


Less(n) == IF n > 0 THEN n - 1 ELSE n

Attaches(p, s, i, r, n, m, d) ==
  \/ /\ in[p].op = "open"
     /\ Ends(p, Opens(in[p].ino, s), s, Entry(i, r, n, m, d, InNone))
  \/ /\ in[p].op = "creat"
     /\ Ends(p, On(in[p], "created", in[p].ino, s), s, Entry(i, r, n, m, d, p))
  \/ in[p].op = "unlink" /\ Detaches(p, s, i, r, Less(n), m, TRUE)

\* t is the table inode but for the entry s, which has these values.
TableIs(t, s, i, r, n, m, d, g) ==
  /\ s \in InSlots /\ i \in InInos \cup {0} /\ r \in Int /\ n \in Int /\ m \in BOOLEAN /\ d \in BOOLEAN
  /\ g \in InProcs \cup {InNone} /\ Holds(t, s, Entry(i, r, n, m, d, g))

LEMMA AttachedIs ==
  ASSUME NEW p \in InProcs, in \in [InProcs -> InCalls], NEW s, NEW t,
         NEW i, NEW r, NEW n, NEW m, NEW d, NEW g,
         TableIs(t, s, i, r, n, m, d, g), Attached(p, s, t),
         in[p].op \in {"open", "creat", "unlink"}
  PROVE  Attaches(p, s, i, r, n, m, d)
<1>T. /\ s \in InSlots /\ i \in InInos \cup {0} /\ r \in Int /\ n \in Int /\ m \in BOOLEAN /\ d \in BOOLEAN
      /\ g \in InProcs \cup {InNone} /\ Holds(t, s, Entry(i, r, n, m, d, g))
  BY DEF TableIs
<1>1. CASE in[p].op = "open"
  <2>1. /\ inode' = [t EXCEPT ![s].gate = InNone]
        /\ in' = [in EXCEPT ![p] = Opened(p, s)]
    BY <1>1 DEF Attached
  <2>2. Holds(inode', s, Entry(i, r, n, m, d, InNone))
    BY <1>T, <2>1, HoldsGate
  <2>3. Opened(p, s) = Opens(in[p].ino, s)
    BY IdleIs DEF Opened
  <2> QED BY <1>1, <2>1, <2>2, <2>3 DEF Attaches, Ends
<1>2. CASE in[p].op = "creat"
  <2>1. /\ inode' = [t EXCEPT ![s].gate = p]
        /\ in' = [in EXCEPT ![p].pc = "created", ![p].ip = s]
    BY <1>2 DEF Attached
  <2>2. Holds(inode', s, Entry(i, r, n, m, d, p))
    BY <1>T, <2>1, HoldsGate
  <2>3. in' = [in EXCEPT ![p] = On(in[p], "created", in[p].ino, s)]
    <3>1. in' = SetPcIp(p, "created", s)
      BY <2>1 DEF SetPcIp
    <3>2. PICK x : x = "created"
      OBVIOUS
    <3>3. SetPcIp(p, x, s) = [in EXCEPT ![p] = On(in[p], x, in[p].ino, s)]
      BY GoesPcIp
    <3> QED BY <3>1, <3>2, <3>3
  <2> QED BY <1>2, <2>2, <2>3 DEF Attaches, Ends
<1>3. CASE in[p].op = "unlink"
  <2> DEFINE v == [t EXCEPT ![s].nlink = IF @ > 0 THEN @ - 1 ELSE @, ![s].mod = TRUE]
  <2>1. idetach(p, s, v)
    BY <1>3 DEF Attached
  <2>2. t[s].nlink = n
    BY <1>T DEF Holds, SameEntry, Entry
  <2>3. PICK k \in Int : k = Less(n)
    BY <1>T DEF Less
  <2>4. PICK w : w = [t EXCEPT ![s].nlink = k]
    OBVIOUS
  <2>5. Holds(w, s, Entry(i, r, k, m, d, g))
    BY <1>T, <2>4, HoldsNlink
  <2>6. v = [w EXCEPT ![s].mod = TRUE]
    BY <1>T, <2>2, <2>3, <2>4 DEF Less
  <2>7. Holds(v, s, Entry(i, r, k, m, TRUE, g))
    <3>1. PICK b \in BOOLEAN : b = TRUE
      OBVIOUS
    <3> QED BY <1>T, <2>5, <2>6, <3>1, HoldsMod
  <2> HIDE DEF v
  <2>8. Detaches(p, s, i, r, k, m, TRUE)
    <3>1. PICK b \in BOOLEAN : b = TRUE
      OBVIOUS
    <3> QED BY <1>T, <2>1, <2>7, <3>1, Detached
  <2> QED BY <1>3, <2>3, <2>8 DEF Attaches
<1> QED BY <1>1, <1>2, <1>3

-----------------------------------------------------------------------------
(* The calls are well formed.                                              *)

LEMMA WellIdle == CallWell(Idle)
<1>1. PICK c : c = Idle
  OBVIOUS
<1>2. c \in InCalls /\ c.pc = "idle" /\ c.op = "none" /\ c.back = "idle"
  BY <1>1 DEF Idle, InPcs, InCalls
<1> QED BY <1>1, <1>2 DEF CallWell, Locking, Looking

LEMMA WellLooks ==
  ASSUME NEW i \in InInos, NEW op \in {"open", "unlink"}
  PROVE  CallWell(Looks(op, i))
<1>1. i \in Int
  BY InAssumption
<1>2. PICK c : c = Looks(op, i)
  OBVIOUS
<1>3. c \in InCalls /\ c.pc = "iattach" /\ c.op = op /\ c.back = "idle" /\ c.ino = i
  BY <1>1, <1>2 DEF InPcs, Looks, Call, InCalls
<1> QED BY <1>2, <1>3 DEF CallWell, Locking, Looking

LEMMA WellCalls ==
  ASSUME NEW i \in InInos, NEW s \in InSlots
  PROVE  /\ CallWell(Opens(i, s))
         /\ \A n \in Int, m \in BOOLEAN : CallWell(Writes(i, s, m, n))
<1>1. InInos \subseteq Int /\ InSlots \subseteq Int /\ 0 \in Int
  BY InAssumption
<1>2. CallWell(Opens(i, s))
  <2>1. PICK c : c = Opens(i, s)
    OBVIOUS
  <2>2. c \in InCalls /\ c.pc = "open" /\ c.op = "none" /\ c.back = "idle" /\ c.ino = i /\ c.ip = s
    BY <2>1, <1>1 DEF InPcs, Opens, Call, InCalls
  <2> QED BY <2>1, <2>2 DEF CallWell, Locking, Looking
<1>3. ASSUME NEW n \in Int, NEW m \in BOOLEAN PROVE CallWell(Writes(i, s, m, n))
  <2>1. PICK f \in InFiles : f = File(m, n)
    BY DEF InFiles, File
  <2>2. PICK c : c = Writes(i, s, m, n)
    OBVIOUS
  <2>3. /\ c \in InCalls /\ c.pc = "icopymd" /\ c.op = "none" /\ c.back = "idle"
        /\ c.ino = i /\ c.ip = s /\ c.copy = f
    BY <2>2, <1>1, <2>1 DEF InPcs, Writes, Call, InCalls
  <2> QED BY <2>2, <2>3 DEF CallWell, Locking, Looking
<1> QED BY <1>2, <1>3

LEMMA WellStart ==
  ASSUME NEW nm \in AllNames
  PROVE  CallWell(Call("ialloc", "creat", nm, 0, 0, <<>>, TRUE, "idle"))
<1>1. PICK c : c = Call("ialloc", "creat", nm, 0, 0, <<>>, TRUE, "idle")
  OBVIOUS
<1>10. c \in InCalls /\ c.pc = "ialloc" /\ c.op = "creat" /\ c.back = "idle" /\ c.name = nm
  BY <1>1 DEF InPcs, Call, InCalls
<1> QED BY <1>1, <1>10 DEF CallWell, Locking, Looking

\* The fields of On.
LEMMA OnIs ==
  ASSUME NEW c \in InCalls, NEW x \in InPcs, NEW i \in Int, NEW s \in Int
  PROVE  LET d == On(c, x, i, s)
         IN  /\ d \in InCalls /\ d.pc = x /\ d.ino = i /\ d.ip = s /\ d.op = c.op
             /\ d.name = c.name /\ d.copy = c.copy /\ d.unlock = c.unlock /\ d.back = c.back
<1>1. /\ c.op \in {"none", "open", "unlink", "creat"} /\ c.name \in AllNames \cup {InNone}
      /\ c.copy \in {<<>>} \cup InFiles /\ c.unlock \in BOOLEAN /\ c.back \in {"idle", "open", "isync"}
  BY DEF InCalls
<1>2. x \in InPcs
  OBVIOUS
<1>3. PICK d : d = On(c, x, i, s)
  OBVIOUS
<1>4. /\ d \in InCalls /\ d.pc = x /\ d.ino = i /\ d.ip = s /\ d.op = c.op
      /\ d.name = c.name /\ d.copy = c.copy /\ d.unlock = c.unlock /\ d.back = c.back
  BY <1>1, <1>2, <1>3 DEF On, Call, InCalls
<1> QED BY <1>3, <1>4

LEMMA WellOn ==
  ASSUME NEW c, CallWell(c), c.back = "idle", c.op # "none", NEW x \in InPcs \ {"idle", "open", "icopymd", "ifree"},
         NEW i \in Int, NEW s \in Int,
         x \in {"iwait", "fwait", "icopydm", "created"} => s \in InSlots,
         x \in Looking \cup {"created"} => i \in InInos,
         c.op \in {"open", "unlink"} => x \in Looking
  PROVE  CallWell(On(c, x, i, s))
<1>1. c \in InCalls /\ (c.op = "creat" => c.name \in AllNames)
      /\ c.op \in {"none", "open", "unlink", "creat"}
  BY DEF CallWell, InCalls
<1>2. PICK d \in InCalls : /\ d = On(c, x, i, s) /\ d.pc = x /\ d.ino = i /\ d.ip = s /\ d.op = c.op
                           /\ d.name = c.name /\ d.back = c.back
  BY <1>1, OnIs
<1> QED BY <1>1, <1>2 DEF CallWell, Locking, Looking, InPcs

\* icopymd of imake and of isync.
LEMMA WellWrite ==
  ASSUME NEW nm \in AllNames, NEW i \in InInos, NEW s \in InSlots, NEW y \in InFiles,
         NEW u \in BOOLEAN, NEW b \in {"open", "isync"}
  PROVE  CallWell(Call("icopymd", "creat", nm, i, s, y, u, b))
<1>1. InInos \subseteq Int /\ InSlots \subseteq Int
  BY InAssumption
<1>2. PICK c : c = Call("icopymd", "creat", nm, i, s, y, u, b)
  OBVIOUS
<1>20. c \in InCalls /\ c.pc = "icopymd" /\ c.op = "creat" /\ c.back = b /\ c.name = nm /\ c.ino = i /\ c.ip = s /\ c.copy = y
  BY <1>2, <1>1 DEF InPcs, Call, InCalls
<1> QED BY <1>2, <1>20 DEF CallWell, Locking, Looking

-----------------------------------------------------------------------------
(* Each step keeps the types and the counts.                               *)

LEMMA BaseDetached ==
  ASSUME InBase, NEW p \in InProcs, NEW s \in InSlots, NEW i \in InInos, NEW r \in Int, NEW n \in Int,
         NEW m \in BOOLEAN, NEW d \in BOOLEAN, Detaches(p, s, i, r, n, m, d), InRest',
         r = inode[s].refc + 1 - Ref(in[p], s), i = inode[s].ino,
         \A u \in InSlots : u # s => ~ RefersTo(in[p], u)
  PROVE  InBase'
<1>1. inode[s].refc \in Int /\ Ref(in[p], s) \in Int
  BY DEF InBase, InTyped, InEntries, Ref
<1>2. ASSUME NEW c, CallWell(c), \A u \in InSlots : ~ RefersTo(c, u),
             NEW e, Ends(p, c, s, e), e.refc = r - 1, e.ino = i
      PROVE  InBase'
  <2>1. Ref(c, s) = 0
    BY <1>2 DEF Ref
  <2>2. e.refc = inode[s].refc + Ref(c, s) - Ref(in[p], s)
    BY <1>1, <1>2, <2>1
  <2>3. \A u \in InSlots : u # s => ~ RefersTo(c, u) /\ ~ RefersTo(in[p], u)
    BY <1>2
  <2>4. RefersTo(c, s) => e.ino = c.ino
    BY <1>2
  <2>5. e.ino = inode[s].ino \/ inode[s].refc = 0
    BY <1>2
  <2> QED BY <1>2, <2>2, <2>3, <2>4, <2>5, BaseMoved
<1>3. CallWell(Idle) /\ \A u \in InSlots : ~ RefersTo(Idle, u)
  BY WellIdle DEF RefersTo, Idle
<1>4. ASSUME NEW k \in Int, NEW b \in BOOLEAN
      PROVE  CallWell(Writes(i, s, b, k)) /\ \A u \in InSlots : ~ RefersTo(Writes(i, s, b, k), u)
  BY WellCalls DEF RefersTo, Writes, Call
<1>6. CASE Ends(p, Idle, s, Entry(i, r - 1, n, m, d, InNone))
  <2>1. PICK e : e = Entry(i, r - 1, n, m, d, InNone)
    OBVIOUS
  <2>2. e.refc = r - 1 /\ e.ino = i
    BY <2>1 DEF Entry
  <2> QED BY <1>2, <1>3, <1>6, <2>1, <2>2
<1>7. CASE r = 1 /\ Ends(p, Writes(i, s, m, n), s, Entry(i, 0, n, m, d, p))
  <2>1. PICK e : e = Entry(i, 0, n, m, d, p)
    OBVIOUS
  <2>2. e.refc = r - 1 /\ e.ino = i
    BY <1>7, <2>1 DEF Entry
  <2> QED BY <1>2, <1>4, <1>7, <2>1, <2>2
<1>8. CASE r = 1 /\ Ends(p, Writes(i, s, FALSE, 0), s, Entry(i, 0, 0, FALSE, d, p))
  <2>1. PICK e : e = Entry(i, 0, 0, FALSE, d, p)
    OBVIOUS
  <2>2. e.refc = r - 1 /\ e.ino = i
    BY <1>8, <2>1 DEF Entry
  <2>3. PICK k \in Int : k = 0
    OBVIOUS
  <2>5. PICK b \in BOOLEAN : b = FALSE
    OBVIOUS
  <2>4. CallWell(Writes(i, s, b, k)) /\ \A u \in InSlots : ~ RefersTo(Writes(i, s, b, k), u)
    BY <1>4
  <2> QED BY <1>2, <1>8, <2>1, <2>2, <2>3, <2>4, <2>5
<1> QED BY <1>6, <1>7, <1>8 DEF Detaches

LEMMA BaseAttached ==
  ASSUME InBase, NEW p \in InProcs, NEW s \in InSlots, NEW r \in Int, NEW n \in Int,
         NEW m \in BOOLEAN, NEW d \in BOOLEAN, Attaches(p, s, in[p].ino, r, n, m, d), InRest',
         r = inode[s].refc + 1 - Ref(in[p], s), in[p].ino = inode[s].ino,
         in[p].pc \in {"iattach", "iwait", "icopydm"},
         \A u \in InSlots : u # s => ~ RefersTo(in[p], u)
  PROVE  InBase'
<1>1. inode[s].refc \in Int /\ Ref(in[p], s) \in Int /\ in[p].ino \in InInos /\ CallWell(in[p])
      /\ in[p] \in InCalls
  BY DEF InBase, InTyped, InEntries, Ref, CallWell, Looking
<1>2. ASSUME NEW c, CallWell(c), RefersTo(c, s), \A u \in InSlots : u # s => ~ RefersTo(c, u),
             NEW e, Ends(p, c, s, e), e.refc = r, e.ino = in[p].ino, c.ino = in[p].ino
      PROVE  InBase'
  <2>1. Ref(c, s) = 1
    BY <1>2 DEF Ref
  <2>2. e.refc = inode[s].refc + Ref(c, s) - Ref(in[p], s)
    BY <1>1, <1>2, <2>1
  <2>3. \A u \in InSlots : u # s => ~ RefersTo(c, u) /\ ~ RefersTo(in[p], u)
    BY <1>2
  <2>4. RefersTo(c, s) => e.ino = c.ino
    BY <1>2
  <2>5. e.ino = inode[s].ino \/ inode[s].refc = 0
    BY <1>2
  <2> QED BY <1>2, <2>2, <2>3, <2>4, <2>5, BaseMoved
<1>3. CASE Ends(p, Opens(in[p].ino, s), s, Entry(in[p].ino, r, n, m, d, InNone))
  <2>1. PICK e : e = Entry(in[p].ino, r, n, m, d, InNone)
    OBVIOUS
  <2>2. e.refc = r /\ e.ino = in[p].ino
    BY <2>1 DEF Entry
  <2>3. PICK c : c = Opens(in[p].ino, s)
    OBVIOUS
  <2>4. /\ CallWell(c) /\ RefersTo(c, s) /\ c.ino = in[p].ino
        /\ \A u \in InSlots : u # s => ~ RefersTo(c, u)
    BY <1>1, <2>3, WellCalls DEF RefersTo, Opens, Call
  <2> QED BY <1>2, <1>3, <2>1, <2>2, <2>3, <2>4
<1>4. CASE in[p].op = "creat" /\ Ends(p, On(in[p], "created", in[p].ino, s), s, Entry(in[p].ino, r, n, m, d, p))
  <2>1. PICK e : e = Entry(in[p].ino, r, n, m, d, p)
    OBVIOUS
  <2>2. e.refc = r /\ e.ino = in[p].ino
    BY <2>1 DEF Entry
  <2>3. PICK c : c = On(in[p], "created", in[p].ino, s)
    OBVIOUS
  <2>4. PICK x \in InPcs : x = "created"
    BY DEF InPcs
  <2>5. in[p].ino \in Int /\ s \in Int /\ in[p].back = "idle"
    <3>1. in[p].back = "idle"
      BY <1>1 DEF CallWell
    <3>2. InInos \subseteq Int /\ InSlots \subseteq Int
      BY InAssumption
    <3> QED BY <1>1, <3>1, <3>2
  <2>6. CallWell(On(in[p], x, in[p].ino, s))
    BY <1>1, <1>4, <2>4, <2>5, WellOn
  <2>7. c.pc = "created" /\ c.ip = s /\ c.ino = in[p].ino
    BY <2>3 DEF On, Call
  <2>8. RefersTo(c, s) /\ \A u \in InSlots : u # s => ~ RefersTo(c, u)
    BY <2>7 DEF RefersTo
  <2> QED BY <1>2, <1>4, <2>1, <2>2, <2>3, <2>4, <2>6, <2>7, <2>8
<1>5. CASE Detaches(p, s, in[p].ino, r, Less(n), m, TRUE)
  <2>1. PICK k \in Int : k = Less(n)
    BY DEF Less
  <2>2. PICK b \in BOOLEAN : b = TRUE
    OBVIOUS
  <2>3. Detaches(p, s, in[p].ino, r, k, m, b)
    BY <1>5, <2>1, <2>2
  <2> QED BY <1>1, <2>3, BaseDetached
<1> QED BY <1>3, <1>4, <1>5 DEF Attaches

Unmoved == UNCHANGED <<dinode, sb, name, dirGate, overflow>>

LEMMA BaseFacts ==
  ASSUME InBase, NEW p \in InProcs
  PROVE  /\ in \in [InProcs -> InCalls] /\ in[p] \in InCalls /\ CallWell(in[p])
         /\ inode \in [InSlots -> InEntries] /\ InRest
         /\ InInos \subseteq Int /\ InSlots \subseteq Int
         /\ Unmoved => InRest'
<1>1. InInos \subseteq Int /\ InSlots \subseteq Int
  BY InAssumption
<1> QED BY <1>1 DEF InBase, InTyped, InRest, Unmoved

LEMMA GoesSame ==
  ASSUME InBase, NEW p \in InProcs, NEW c, in' = [in EXCEPT ![p] = c],
         inode' = inode \/ \E s \in InSlots : inode' = Recent(inode, s)
  PROVE  Goes(p, c)
<1>1. inode \in [InSlots -> InEntries] /\ \A u \in InSlots : SameEntry(inode[u], inode[u])
  BY DEF InBase, InTyped, SameEntry
<1>2. CASE inode' = inode
  BY <1>1, <1>2 DEF Goes
<1>3. ASSUME NEW s \in InSlots, inode' = Recent(inode, s) PROVE Goes(p, c)
  <2>1. PICK t : t = Recent(inode, s)
    OBVIOUS
  <2>2. t \in [InSlots -> InEntries] /\ \A u \in InSlots : SameEntry(t[u], inode[u])
    BY <1>1, <2>1, RecentIs
  <2> QED BY <1>3, <2>1, <2>2 DEF Goes
<1> QED BY <1>2, <1>3

LEMMA BaseOpen ==
  ASSUME InBase, NEW p \in InProcs, NEW n \in AllNames, open(p, n)
  PROVE  /\ InBase' /\ in[p].pc = "idle" /\ ~ overflow /\ <<p, n>> \in InOpens /\ name[n] \in InInos
         /\ dirGate[InDir[n]] = InNone
         /\ Goes(p, Looks("open", name[n])) /\ Unmoved
<1>1. /\ in[p].pc = "idle" /\ ~ overflow /\ <<p, n>> \in InOpens /\ name[n] # 0 /\ Found(p, "open", n)
      /\ inode' = inode /\ Unmoved /\ dirGate[InDir[n]] = InNone
  BY DEF open, Enter, At, Unmoved
<1>2. name[n] \in InInos
  BY <1>1 DEF InBase, InTyped
<1>3. in' = [in EXCEPT ![p] = Looks("open", name[n])]
  BY <1>1, IdleIs DEF Found
<1>4. Goes(p, Looks("open", name[n]))
  BY <1>1, <1>3, GoesSame
<1>5. CallWell(Looks("open", name[n]))
  BY <1>2, WellLooks
<1>6. \A u \in InSlots : ~ RefersTo(Looks("open", name[n]), u) /\ ~ RefersTo(in[p], u)
  BY <1>1 DEF RefersTo, Looks, Call
<1>7. InBase'
  BY <1>1, <1>4, <1>5, <1>6, BaseFacts, BaseGone
<1> QED BY <1>1, <1>2, <1>4, <1>7

LEMMA BaseCreat ==
  ASSUME InBase, NEW p \in InProcs, NEW n \in AllNames, creat(p, n)
  PROVE  /\ InBase' /\ in[p].pc = "idle" /\ ~ overflow /\ name[n] = 0 /\ dirGate[InDir[n]] = InNone
         /\ Goes(p, Call("ialloc", "creat", n, 0, 0, <<>>, TRUE, "idle"))
         /\ dirGate' = [dirGate EXCEPT ![InDir[n]] = p] /\ UNCHANGED <<dinode, sb, name, overflow>>
<1>1. /\ in[p].pc = "idle" /\ ~ overflow /\ name[n] = 0 /\ dirGate[InDir[n]] = InNone
      /\ in' = [in EXCEPT ![p] = [Idle EXCEPT !.pc = "ialloc", !.op = "creat", !.name = n]]
      /\ dirGate' = [dirGate EXCEPT ![InDir[n]] = p] /\ UNCHANGED <<dinode, sb, name, overflow>>
      /\ inode' = inode
  BY DEF creat, Enter, At
<1>2. in' = [in EXCEPT ![p] = Call("ialloc", "creat", n, 0, 0, <<>>, TRUE, "idle")]
  BY <1>1, IdleIs
<1>3. PICK c : c = Call("ialloc", "creat", n, 0, 0, <<>>, TRUE, "idle")
  OBVIOUS
<1>4. Goes(p, c)
  BY <1>1, <1>2, <1>3, GoesSame
<1>5. CallWell(c) /\ c.pc = "ialloc"
  BY <1>3, WellStart DEF Call
<1>6. \A u \in InSlots : ~ RefersTo(c, u) /\ ~ RefersTo(in[p], u)
  BY <1>1, <1>5 DEF RefersTo
<1>7. dirGate' \in [Dirs -> InProcs \cup {InNone}]
  BY <1>1 DEF InBase, InTyped
<1>8. InRest'
  BY <1>1, <1>7 DEF InBase, InTyped, InRest
<1>9. InBase'
  BY <1>4, <1>5, <1>6, <1>8, BaseGone
<1> QED BY <1>1, <1>3, <1>4, <1>9

LEMMA BaseUnlink ==
  ASSUME InBase, NEW p \in InProcs, NEW n \in AllNames, do_unlink(p, n)
  PROVE  /\ InBase' /\ in[p].pc = "idle" /\ ~ overflow /\ <<p, n>> \in InUnlinks /\ name[n] \in InInos
         /\ dirGate[InDir[n]] = InNone
         /\ Goes(p, Looks("unlink", name[n])) /\ name' = [name EXCEPT ![n] = 0]
         /\ UNCHANGED <<dinode, sb, dirGate, overflow>>
<1>1. /\ in[p].pc = "idle" /\ ~ overflow /\ <<p, n>> \in InUnlinks /\ name[n] # 0 /\ Found(p, "unlink", n)
      /\ inode' = inode /\ name' = [name EXCEPT ![n] = 0] /\ UNCHANGED <<dinode, sb, dirGate, overflow>>
      /\ dirGate[InDir[n]] = InNone
  BY DEF do_unlink, Enter, At
<1>2. name[n] \in InInos
  BY <1>1 DEF InBase, InTyped
<1>3. in' = [in EXCEPT ![p] = Looks("unlink", name[n])]
  BY <1>1, IdleIs DEF Found
<1>4. Goes(p, Looks("unlink", name[n]))
  BY <1>1, <1>3, GoesSame
<1>5. CallWell(Looks("unlink", name[n]))
  BY <1>2, WellLooks
<1>6. \A u \in InSlots : ~ RefersTo(Looks("unlink", name[n]), u) /\ ~ RefersTo(in[p], u)
  BY <1>1 DEF RefersTo, Looks, Call
<1>7. name' \in [AllNames -> InInos \cup {0}]
  BY <1>1 DEF InBase, InTyped
<1>8. InRest'
  BY <1>1, <1>7 DEF InBase, InTyped, InRest
<1>9. InBase'
  BY <1>4, <1>5, <1>6, <1>8, BaseGone
<1> QED BY <1>1, <1>2, <1>4, <1>9

Reattaches(p, s) ==
  Attaches(p, s, in[p].ino, inode[s].refc + 1, inode[s].nlink, inode[s].mode, inode[s].mod)

Claims(p, s) ==
  Ends(p, On(in[p], "icopydm", in[p].ino, s), s,
       Entry(in[p].ino, 1, inode[s].nlink, inode[s].mode, inode[s].mod, p))

LEMMA ReattachIs ==
  ASSUME InBase, NEW p \in InProcs, NEW s \in InSlots, Reattach(p, s), Unmoved,
         inode[s].ino = in[p].ino, in[p].pc \in {"iattach", "iwait"}
  PROVE  InBase' /\ Reattaches(p, s)
<1>1. /\ in \in [InProcs -> InCalls] /\ CallWell(in[p]) /\ in[p] \in InCalls
      /\ inode \in [InSlots -> InEntries] /\ InRest'
  BY BaseFacts
<1>2. /\ in[p].ino \in InInos /\ in[p].op # "none"
  BY <1>1 DEF CallWell, Looking
<1>3. in[p].op \in {"open", "creat", "unlink"}
  BY <1>1, <1>2 DEF InCalls
<1>4. PICK i \in InInos \cup {0}, r \in Int, n \in Int, m \in BOOLEAN, d \in BOOLEAN, g \in InProcs \cup {InNone} :
        i = in[p].ino /\ r = inode[s].refc /\ n = inode[s].nlink /\ m = inode[s].mode
        /\ d = inode[s].mod /\ g = inode[s].gate
  BY <1>1 DEF InEntries
<1>5. Holds(inode, s, Entry(i, r, n, m, d, g))
  BY <1>1, <1>4, HoldsNow
<1>6. PICK k \in Int : k = r + 1
  OBVIOUS
<1>7. PICK t : t = [inode EXCEPT ![s].refc = k]
  OBVIOUS
<1>8. Holds(t, s, Entry(i, k, n, m, d, g))
  BY <1>5, <1>7, HoldsRefc
<1>9. PICK v : v = Recent(t, s)
  OBVIOUS
<1>10. Holds(v, s, Entry(i, k, n, m, d, g))
  BY <1>8, <1>9, HoldsRecent
<1>11. Attached(p, s, v)
  <2>1. t = [inode EXCEPT ![s].refc = @ + 1]
    BY <1>4, <1>6, <1>7
  <2> QED BY <1>9, <2>1 DEF Reattach
<1>12. Attaches(p, s, i, k, n, m, d)
  <2>1. TableIs(v, s, i, k, n, m, d, g)
    BY <1>10 DEF TableIs
  <2> QED BY <1>1, <1>3, <1>11, <2>1, AttachedIs
<1>13. Reattaches(p, s)
  BY <1>4, <1>6, <1>12 DEF Reattaches
<1>14. Ref(in[p], s) = 0 /\ \A u \in InSlots : ~ RefersTo(in[p], u)
  BY DEF Ref, RefersTo
<1>15. k = inode[s].refc + 1 - Ref(in[p], s)
  BY <1>4, <1>6, <1>14
<1>16. in[p].pc \in {"iattach", "iwait", "icopydm"} /\ in[p].ino = inode[s].ino
  OBVIOUS
<1>17. Attaches(p, s, in[p].ino, k, n, m, d)
  BY <1>4, <1>12
<1>18. InBase'
  BY <1>1, <1>14, <1>15, <1>16, <1>17, BaseAttached
<1> QED BY <1>13, <1>18

LEMMA ClaimIs ==
  ASSUME InBase, NEW p \in InProcs, NEW s \in InSlots, Claim(p, s), Unmoved,
         inode[s].refc = 0, in[p].pc \in {"iattach", "fwait"}
  PROVE  InBase' /\ Claims(p, s)
<1>1. /\ in \in [InProcs -> InCalls] /\ CallWell(in[p]) /\ in[p] \in InCalls
      /\ inode \in [InSlots -> InEntries] /\ InRest' /\ InInos \subseteq Int /\ InSlots \subseteq Int
  BY BaseFacts
<1>2. /\ in[p].ino \in InInos /\ in[p].op # "none" /\ in[p].back = "idle"
  BY <1>1 DEF CallWell, Looking
<1>4. PICK i \in InInos \cup {0}, j \in InInos \cup {0}, n \in Int, m \in BOOLEAN, d \in BOOLEAN,
           g \in InProcs \cup {InNone} :
        i = in[p].ino /\ j = inode[s].ino /\ n = inode[s].nlink /\ m = inode[s].mode
        /\ d = inode[s].mod /\ g = inode[s].gate
  BY <1>1, <1>2 DEF InEntries
<1>5. Holds(inode, s, Entry(j, 0, n, m, d, g))
  BY <1>1, <1>4, HoldsNow
<1>6. PICK k \in Int : k = 1
  OBVIOUS
<1>7. PICK t : t = [inode EXCEPT ![s].ino = i]
  OBVIOUS
<1>8. Holds(t, s, Entry(i, 0, n, m, d, g))
  BY <1>5, <1>7, HoldsIno
<1>9. PICK v : v = [t EXCEPT ![s].refc = k]
  OBVIOUS
<1>10. Holds(v, s, Entry(i, k, n, m, d, g))
  BY <1>8, <1>9, HoldsRefc
<1>11. PICK w : w = [v EXCEPT ![s].gate = p]
  OBVIOUS
<1>12. Holds(w, s, Entry(i, k, n, m, d, p))
  BY <1>10, <1>11, HoldsGate
<1>13. w = [inode EXCEPT ![s].ino = in[p].ino, ![s].refc = 1, ![s].gate = p]
  BY <1>4, <1>6, <1>7, <1>9, <1>11
<1>14. inode' = Recent(w, s) /\ in' = SetPcIp(p, "icopydm", s)
  BY <1>13 DEF Claim, SetPcIp
<1>15. Holds(inode', s, Entry(i, k, n, m, d, p))
  <2>1. PICK z : z = Recent(w, s)
    OBVIOUS
  <2>2. Holds(z, s, Entry(i, k, n, m, d, p))
    BY <1>12, <2>1, HoldsRecent
  <2> QED BY <1>14, <2>1, <2>2
<1>16. PICK x \in InPcs : x = "icopydm"
  BY DEF InPcs
<1>17. in' = [in EXCEPT ![p] = On(in[p], x, i, s)]
  BY <1>1, <1>4, <1>14, <1>16, GoesPcIp
<1>18. CallWell(On(in[p], x, i, s))
  <2>1. i \in Int /\ s \in Int /\ i \in InInos /\ x \in InPcs \ {"idle", "open", "icopymd", "ifree"}
        /\ x \in Looking
    BY <1>1, <1>2, <1>4, <1>16 DEF Looking
  <2> QED BY <1>1, <1>2, <2>1, WellOn
<1>19. PICK c : c = On(in[p], x, i, s)
  OBVIOUS
<1>20. PICK e : e = Entry(i, k, n, m, d, p)
  OBVIOUS
<1>21. Ends(p, c, s, e)
  BY <1>15, <1>17, <1>19, <1>20 DEF Ends
<1>22. c.pc = "icopydm" /\ c.ip = s /\ c.ino = i /\ e.refc = 1 /\ e.ino = i
  BY <1>6, <1>16, <1>19, <1>20 DEF On, Call, Entry
<1>23. /\ RefersTo(c, s) /\ Ref(c, s) = 1 /\ Ref(in[p], s) = 0
       /\ \A u \in InSlots : u # s => ~ RefersTo(c, u) /\ ~ RefersTo(in[p], u)
  BY <1>22 DEF Ref, RefersTo
<1>24. e.refc = inode[s].refc + Ref(c, s) - Ref(in[p], s)
  BY <1>22, <1>23
<1>25. InBase'
  BY <1>1, <1>18, <1>19, <1>21, <1>22, <1>23, <1>24, BaseMoved
<1>26. Claims(p, s)
  BY <1>4, <1>6, <1>16, <1>19, <1>20, <1>21 DEF Claims
<1> QED BY <1>25, <1>26

\* p goes on at x with what it looks for, and refers to nothing.
LEMMA BaseGoesOn ==
  ASSUME InBase, NEW p \in InProcs, NEW x \in {"iattach", "iwait", "fwait", "ialloc", "isync", "scan"},
         NEW i \in Int, NEW s \in Int, in' = [in EXCEPT ![p] = On(in[p], x, i, s)],
         inode' = inode \/ (\E u \in InSlots : inode' = Recent(inode, u)), InRest',
         in[p].pc \in {"iattach", "iwait", "fwait", "ialloc", "isync", "scan", "busy"},
         x \in {"iwait", "fwait"} => s \in InSlots, x \in {"iattach", "iwait", "fwait"} => i \in InInos,
         x \in {"ialloc", "isync", "scan"} => in[p].op = "creat"
  PROVE  InBase' /\ Goes(p, On(in[p], x, i, s))
<1>1. /\ in \in [InProcs -> InCalls] /\ CallWell(in[p]) /\ in[p] \in InCalls
  BY BaseFacts
<1>2. in[p].op # "none" /\ in[p].back = "idle"
  BY <1>1 DEF CallWell, Looking
<1>3. x \in InPcs \ {"idle", "open", "icopymd", "ifree"} /\ x \in InPcs
  BY DEF InPcs
<1>4. CallWell(On(in[p], x, i, s))
  <2>1. x \in {"iwait", "fwait", "icopydm", "created"} => s \in InSlots
    OBVIOUS
  <2>2. x \in Looking \cup {"created"} => i \in InInos
    BY DEF Looking
  <2>3. in[p].op \in {"open", "unlink"} => x \in Looking
    BY DEF Looking
  <2> QED BY <1>1, <1>2, <1>3, <2>1, <2>2, <2>3, WellOn
<1>5. PICK c : c = On(in[p], x, i, s)
  OBVIOUS
<1>6. Goes(p, c)
  BY <1>5, GoesSame
<1>7. c.pc = x
  BY <1>5 DEF On, Call
<1>8. \A u \in InSlots : ~ RefersTo(c, u) /\ ~ RefersTo(in[p], u)
  BY <1>7 DEF RefersTo
<1>9. InBase'
  BY <1>4, <1>5, <1>6, <1>8, BaseGone
<1> QED BY <1>5, <1>6, <1>9

LEMMA BaseIattach ==
  ASSUME InBase, NEW p \in InProcs, iattach(p)
  PROVE  /\ InBase' /\ in[p].pc = "iattach" /\ Unmoved
         /\ \/ \E s \in InSlots : /\ inode[s].ino = in[p].ino /\ inode[s].gate = InNone
                                  /\ Reattaches(p, s)
            \/ \E s \in InSlots, x \in {"iwait", "fwait"} : Goes(p, On(in[p], x, in[p].ino, s))
            \/ \E s \in InSlots : /\ inode[s].refc = 0 /\ inode[s].gate = InNone
                                  /\ \A u \in InSlots : inode[u].ino # in[p].ino
                                  /\ Claims(p, s)
<1>1. in[p].pc = "iattach" /\ Unmoved
  BY DEF iattach, At, Unmoved
<1>2. /\ in \in [InProcs -> InCalls] /\ CallWell(in[p]) /\ in[p] \in InCalls
      /\ inode \in [InSlots -> InEntries] /\ InRest' /\ InInos \subseteq Int /\ InSlots \subseteq Int
  BY <1>1, BaseFacts
<1>3. in[p].ino \in InInos
  BY <1>1, <1>2 DEF CallWell, Looking
<1>4. ASSUME NEW s \in Match(p), inode[s].gate = InNone, Reattach(p, s)
      PROVE  s \in InSlots /\ inode[s].ino = in[p].ino /\ Reattaches(p, s) /\ InBase'
  <2>1. s \in InSlots /\ inode[s].ino = in[p].ino
    BY DEF Match
  <2> QED BY <1>1, <1>4, <2>1, ReattachIs
<1>5. ASSUME NEW s \in InSlots, NEW x \in {"iwait", "fwait"}, in' = SetPcIp(p, x, s), inode' = inode
      PROVE  InBase' /\ Goes(p, On(in[p], x, in[p].ino, s))
  <2>1. in' = [in EXCEPT ![p] = On(in[p], x, in[p].ino, s)]
    BY <1>2, <1>5, GoesPcIp
  <2>2. in[p].ino \in Int /\ s \in Int
    BY <1>2, <1>3
  <2>3. x \in {"iattach", "iwait", "fwait", "ialloc", "isync", "scan"}
    OBVIOUS
  <2> QED BY <1>1, <1>2, <1>3, <1>5, <2>1, <2>2, <2>3, BaseGoesOn
<1>6. ASSUME NEW s \in Oldest, Match(p) = {}, inode[s].gate = InNone, Claim(p, s)
      PROVE  /\ s \in InSlots /\ inode[s].refc = 0 /\ Claims(p, s) /\ InBase'
             /\ \A u \in InSlots : inode[u].ino # in[p].ino
  <2>1. s \in InSlots /\ inode[s].refc = 0
    BY DEF Oldest
  <2>2. \A u \in InSlots : inode[u].ino # in[p].ino
    <3>1. SUFFICES ASSUME NEW u \in InSlots, inode[u].ino = in[p].ino PROVE FALSE
      OBVIOUS
    <3> DEFINE S == {v \in InSlots : inode[v].ino = in[p].ino}
    <3>2. S \subseteq Nat /\ S # {}
      BY <3>1, InAssumption
    <3>3. PICK v \in S : \A w \in S : v <= w
      <4> HIDE DEF S
      <4> QED BY <3>2, LeastNat
    <3>4. v \in Match(p)
      BY <3>3 DEF Match
    <3> QED BY <1>6, <3>4
  <2>3. InBase' /\ Claims(p, s)
    BY <1>1, <1>6, <2>1, ClaimIs
  <2> QED BY <2>1, <2>2, <2>3
<1>7. \/ \E s \in Match(p) : inode[s].gate = InNone /\ Reattach(p, s)
      \/ \E s \in Match(p) : in' = SetPcIp(p, "iwait", s) /\ inode' = inode
      \/ \E s \in Oldest : Match(p) = {} /\ inode[s].gate = InNone /\ Claim(p, s)
      \/ \E s \in Oldest : in' = SetPcIp(p, "fwait", s) /\ inode' = inode
  BY DEF iattach, SetPcIp
<1>8. Match(p) \subseteq InSlots /\ Oldest \subseteq InSlots
  BY DEF Match, Oldest
<1>9. CASE \E s \in Match(p) : inode[s].gate = InNone /\ Reattach(p, s)
  BY <1>1, <1>4, <1>9
<1>10. CASE \E s \in Match(p) : in' = SetPcIp(p, "iwait", s) /\ inode' = inode
  BY <1>1, <1>5, <1>8, <1>10
<1>11. CASE \E s \in Oldest : Match(p) = {} /\ inode[s].gate = InNone /\ Claim(p, s)
  BY <1>1, <1>6, <1>11
<1>12. CASE \E s \in Oldest : in' = SetPcIp(p, "fwait", s) /\ inode' = inode
  BY <1>1, <1>5, <1>8, <1>12
<1> QED BY <1>7, <1>9, <1>10, <1>11, <1>12

LEMMA BaseIattachFails ==
  ASSUME InBase, NEW p \in InProcs, iattachFails(p)
  PROVE  InBase' /\ overflow'
<1>1. /\ in[p].pc = "iattach" /\ overflow' = TRUE /\ in' = [in EXCEPT ![p] = Idle]
      /\ dirGate' = [d \in Dirs |-> IF dirGate[d] = p THEN InNone ELSE dirGate[d]]
      /\ UNCHANGED <<inode, dinode, sb, name>>
  BY DEF iattachFails, At
<1>2. InRest'
  <2>1. dirGate' \in [Dirs -> InProcs \cup {InNone}]
    BY <1>1 DEF InBase, InTyped
  <2> QED BY <1>1, <2>1 DEF InBase, InTyped, InRest
<1>3. Goes(p, Idle)
  BY <1>1, GoesSame
<1>4. \A u \in InSlots : ~ RefersTo(Idle, u) /\ ~ RefersTo(in[p], u)
  BY <1>1 DEF RefersTo, Idle
<1> QED BY <1>1, <1>2, <1>3, <1>4, WellIdle, BaseGone

LEMMA BaseIattachWoken ==
  ASSUME InBase, NEW p \in InProcs, iattachWoken(p)
  PROVE  /\ InBase' /\ in[p].pc = "iwait" /\ Unmoved
         /\ \/ \E s \in InSlots : /\ inode[s].ino = in[p].ino /\ inode[s].gate = InNone
                                  /\ Reattaches(p, s)
            \/ Goes(p, On(in[p], "iattach", in[p].ino, in[p].ip))
<1>1. in[p].pc = "iwait" /\ Unmoved /\ inode[in[p].ip].gate = InNone
  BY DEF iattachWoken, At, Unmoved
<1>2. /\ in \in [InProcs -> InCalls] /\ CallWell(in[p]) /\ in[p] \in InCalls
      /\ inode \in [InSlots -> InEntries] /\ InRest' /\ InInos \subseteq Int /\ InSlots \subseteq Int
  BY <1>1, BaseFacts
<1>3. in[p].ino \in InInos /\ in[p].ip \in InSlots
  BY <1>1, <1>2 DEF CallWell, Looking
<1>4. CASE SameInode(p, in[p].ip)
  <2>1. Reattach(p, in[p].ip)
    BY <1>4 DEF iattachWoken
  <2>2. inode[in[p].ip].ino = in[p].ino
    BY <1>4 DEF SameInode
  <2> QED BY <1>1, <1>3, <2>1, <2>2, ReattachIs
<1>5. CASE ~ SameInode(p, in[p].ip)
  <2>1. in' = SetPc(p, "iattach") /\ inode' = inode
    BY <1>5 DEF iattachWoken, Goto, SetPc
  <2>2. PICK x : x = "iattach"
    OBVIOUS
  <2>3. in' = [in EXCEPT ![p] = On(in[p], x, in[p].ino, in[p].ip)]
    BY <1>2, <2>1, <2>2, GoesPc
  <2>4. InBase' /\ Goes(p, On(in[p], x, in[p].ino, in[p].ip))
    BY <1>1, <1>2, <1>3, <2>1, <2>2, <2>3, BaseGoesOn
  <2> QED BY <1>1, <2>2, <2>4
<1> QED BY <1>4, <1>5

LEMMA BaseFindWoken ==
  ASSUME InBase, NEW p \in InProcs, inode_findWoken(p)
  PROVE  /\ InBase' /\ in[p].pc = "fwait" /\ Unmoved
         /\ \/ \E s \in InSlots : /\ inode[s].refc = 0 /\ inode[s].gate = InNone /\ Claims(p, s)
            \/ Goes(p, On(in[p], "iattach", in[p].ino, in[p].ip))
<1>1. in[p].pc = "fwait" /\ Unmoved /\ inode[in[p].ip].gate = InNone
  BY DEF inode_findWoken, At, Unmoved
<1>2. /\ in \in [InProcs -> InCalls] /\ CallWell(in[p]) /\ in[p] \in InCalls
      /\ inode \in [InSlots -> InEntries] /\ InRest' /\ InInos \subseteq Int /\ InSlots \subseteq Int
  BY <1>1, BaseFacts
<1>3. in[p].ino \in InInos /\ in[p].ip \in InSlots
  BY <1>1, <1>2 DEF CallWell, Looking
<1>4. CASE Reused(in[p].ip)
  <2>1. Claim(p, in[p].ip)
    BY <1>4 DEF inode_findWoken
  <2>2. inode[in[p].ip].refc = 0
    BY <1>4 DEF Reused
  <2> QED BY <1>1, <1>3, <2>1, <2>2, ClaimIs
<1>5. CASE ~ Reused(in[p].ip)
  <2>1. in' = SetPc(p, "iattach") /\ inode' = Recent(inode, in[p].ip)
    BY <1>5 DEF inode_findWoken, Goto, SetPc
  <2>2. PICK x : x = "iattach"
    OBVIOUS
  <2>3. in' = [in EXCEPT ![p] = On(in[p], x, in[p].ino, in[p].ip)]
    BY <1>2, <2>1, <2>2, GoesPc
  <2>4. InBase' /\ Goes(p, On(in[p], x, in[p].ino, in[p].ip))
    BY <1>1, <1>2, <1>3, <2>1, <2>2, <2>3, BaseGoesOn
  <2> QED BY <1>1, <2>2, <2>4
<1> QED BY <1>4, <1>5

\* The slot of a process that refers to it or has locked it.
LEMMA SlotFacts ==
  ASSUME InBase, NEW p \in InProcs, in[p].pc \in {"open"} \cup Locking
  PROVE  /\ in[p].ip \in InSlots /\ in[p].ino \in InInos
         /\ RefersTo(in[p], in[p].ip) => /\ inode[in[p].ip].ino = in[p].ino
                                         /\ inode[in[p].ip].refc # 0
                                         /\ Ref(in[p], in[p].ip) = 1
         /\ \A u \in InSlots : u # in[p].ip => ~ RefersTo(in[p], u)
<1>1. CallWell(in[p])
  BY BaseFacts
<1>2. in[p].ip \in InSlots /\ in[p].ino \in InInos
  BY <1>1 DEF CallWell, Locking, Looking
<1>3. ASSUME RefersTo(in[p], in[p].ip) PROVE inode[in[p].ip].refc # 0
  <2> DEFINE S == {q \in InProcs : RefersTo(in[q], in[p].ip)}
  <2>1. IsFiniteSet(S) /\ S # {} /\ inode[in[p].ip].refc = Cardinality(S)
    BY <1>2, <1>3, InAssumption, FS_Subset DEF InBase, Counted
  <2> HIDE DEF S
  <2> QED BY <2>1, FS_EmptySet
<1>4. RefersTo(in[p], in[p].ip) => inode[in[p].ip].ino = in[p].ino
  BY <1>2 DEF InBase, Counted
<1>5. RefersTo(in[p], in[p].ip) => Ref(in[p], in[p].ip) = 1
  BY DEF Ref
<1>6. \A u \in InSlots : u # in[p].ip => ~ RefersTo(in[p], u)
  BY DEF RefersTo
<1> QED BY <1>2, <1>3, <1>4, <1>5, <1>6

LEMMA BaseIcopydm ==
  ASSUME InBase, NEW p \in InProcs, icopydm(p)
  PROVE  /\ InBase' /\ in[p].pc = "icopydm" /\ Unmoved
         /\ in[p].ip \in InSlots /\ in[p].ino \in InInos /\ inode[in[p].ip].ino = in[p].ino
         /\ Attaches(p, in[p].ip, in[p].ino, inode[in[p].ip].refc, dinode[in[p].ino].nlink,
                     dinode[in[p].ino].mode, FALSE)
<1>0. PICK s : s = in[p].ip
  OBVIOUS
<1>1. in[p].pc = "icopydm" /\ Unmoved
  BY DEF icopydm, At, Unmoved
<1>2. /\ in \in [InProcs -> InCalls] /\ CallWell(in[p]) /\ in[p] \in InCalls
      /\ inode \in [InSlots -> InEntries] /\ InRest' /\ InRest
  BY <1>1, BaseFacts
<1>3. /\ s \in InSlots /\ in[p].ino \in InInos /\ inode[s].ino = in[p].ino /\ Ref(in[p], s) = 1
      /\ \A u \in InSlots : u # s => ~ RefersTo(in[p], u)
  BY <1>0, <1>1, SlotFacts DEF Locking, RefersTo
<1>4. PICK i \in InInos \cup {0}, r \in Int, n \in Int, m \in BOOLEAN, d \in BOOLEAN, g \in InProcs \cup {InNone} :
        i = in[p].ino /\ r = inode[s].refc /\ n = inode[s].nlink /\ m = inode[s].mode
        /\ d = inode[s].mod /\ g = inode[s].gate
  BY <1>2, <1>3 DEF InEntries
<1>5. Holds(inode, s, Entry(i, r, n, m, d, g))
  BY <1>2, <1>3, <1>4, HoldsNow
<1>6. PICK n1 \in Int, m1 \in BOOLEAN : n1 = dinode[in[p].ino].nlink /\ m1 = dinode[in[p].ino].mode
  BY <1>2, <1>3 DEF InRest, InFiles
<1>7. PICK d1 \in BOOLEAN : d1 = FALSE
  OBVIOUS
<1>8. PICK t : t = [inode EXCEPT ![s].mode = m1]
  OBVIOUS
<1>9. Holds(t, s, Entry(i, r, n, m1, d, g))
  BY <1>3, <1>5, <1>8, HoldsMode
<1>10. PICK v : v = [t EXCEPT ![s].nlink = n1]
  OBVIOUS
<1>11. Holds(v, s, Entry(i, r, n1, m1, d, g))
  BY <1>3, <1>9, <1>10, HoldsNlink
<1>12. PICK w : w = [v EXCEPT ![s].mod = d1]
  OBVIOUS
<1>13. Holds(w, s, Entry(i, r, n1, m1, d1, g))
  BY <1>3, <1>11, <1>12, HoldsMod
<1>14. Attached(p, s, w)
  <2>1. w = [inode EXCEPT ![s].mode = dinode[in[p].ino].mode, ![s].nlink = dinode[in[p].ino].nlink,
                          ![s].mod = FALSE]
    BY <1>6, <1>7, <1>8, <1>10, <1>12
  <2> QED BY <1>0, <2>1 DEF icopydm
<1>15. in[p].op \in {"open", "creat", "unlink"}
  BY <1>1, <1>2 DEF CallWell, Looking, InCalls
<1>16. Attaches(p, s, i, r, n1, m1, d1)
  <2>1. TableIs(w, s, i, r, n1, m1, d1, g)
    BY <1>3, <1>13 DEF TableIs
  <2> QED BY <1>2, <1>14, <1>15, <2>1, AttachedIs
<1>17. /\ Attaches(p, s, in[p].ino, r, n1, m1, d1) /\ r = inode[s].refc + 1 - Ref(in[p], s)
       /\ in[p].ino = inode[s].ino /\ in[p].pc \in {"iattach", "iwait", "icopydm"}
  BY <1>1, <1>3, <1>4, <1>16
<1>18. InBase'
  BY <1>2, <1>3, <1>17, BaseAttached
<1> QED BY <1>0, <1>1, <1>3, <1>4, <1>6, <1>7, <1>7, <1>16, <1>18

Takes(p, list) ==
  /\ list # <<>> /\ list[Len(list)] \in InInos
  /\ sb'.tinode = sb.tinode - 1
  /\ Goes(p, On(in[p], "iattach", list[Len(list)], 0))

LEMMA TakeIs ==
  ASSUME InBase, NEW p \in InProcs, NEW list \in Seq(InInos), list # <<>>, Take(p, list),
         in[p].pc \in {"ialloc", "scan"}, UNCHANGED <<inode, dinode, name, dirGate, overflow>>
  PROVE  InBase' /\ Takes(p, list)
<1>1. /\ in \in [InProcs -> InCalls] /\ InRest /\ InInos \subseteq Int
  BY BaseFacts
<1>2. Len(list) \in Nat /\ list[Len(list)] \in InInos /\ SubSeq(list, 1, Len(list) - 1) \in Seq(InInos)
  <2>1. PICK k \in Nat : k = Len(list)
    OBVIOUS
  <2>2. k \in 1 .. Len(list)
    BY <2>1
  <2>3. list[k] \in InInos
    BY <2>2
  <2>4. SubSeq(list, 1, k - 1) \in Seq(InInos)
    BY <2>1, <2>2
  <2> QED BY <2>1, <2>3, <2>4
<1>3. PICK i \in InInos : i = list[Len(list)]
  BY <1>2
<1>4. PICK z, x : z \in Int /\ z = 0 /\ x = "iattach"
  OBVIOUS
<1>5. in' = SetPcInoIp(p, x, i, z)
  BY <1>3, <1>4 DEF Take, SetPcInoIp
<1>6. in' = [in EXCEPT ![p] = On(in[p], x, i, z)]
  BY <1>1, <1>5, GoesPcInoIp
<1>7. PICK y \in Seq(InInos) : y = SubSeq(list, 1, Len(list) - 1)
  BY <1>2
<1>8. PICK k \in Int : k = sb.tinode - 1
  BY <1>1 DEF InRest
<1>9. sb' = [list |-> y, tinode |-> k, gate |-> InNone]
  BY <1>7, <1>8 DEF Take
<1>10. sb' \in [list : Seq(InInos), tinode : Int, gate : InProcs \cup {InNone}] /\ sb'.tinode = k
  BY <1>9
<1>11. InRest'
  BY <1>10 DEF InBase, InTyped, InRest
<1>12. InBase' /\ Goes(p, On(in[p], x, i, z))
  BY <1>1, <1>4, <1>6, <1>11, BaseGoesOn
<1> QED BY <1>2, <1>3, <1>4, <1>8, <1>10, <1>12 DEF Takes

LEMMA BaseIalloc ==
  ASSUME InBase, NEW p \in InProcs, ialloc(p)
  PROVE  /\ InBase' /\ in[p].pc = "ialloc" /\ UNCHANGED <<dinode, name, dirGate, overflow>>
         /\ \/ \E list \in Seq(InInos) : Takes(p, list)
            \/ sb'.tinode = sb.tinode /\ Goes(p, On(in[p], "isync", in[p].ino, 0))
<1>1. in[p].pc = "ialloc" /\ UNCHANGED <<inode, dinode, name, dirGate, overflow>>
  BY DEF ialloc, At
<1>2. /\ in \in [InProcs -> InCalls] /\ CallWell(in[p]) /\ in[p] \in InCalls /\ InRest
  BY BaseFacts
<1>3. sb \in [list : Seq(InInos), tinode : Int, gate : InProcs \cup {InNone}] /\ sb.list \in Seq(InInos)
  BY <1>2 DEF InRest
<1>4. CASE sb.list # <<>> /\ Take(p, sb.list)
  BY <1>1, <1>3, <1>4, TakeIs
<1>5. CASE sb' = [sb EXCEPT !.gate = p] /\ in' = [in EXCEPT ![p].pc = "isync", ![p].ip = 0]
  <2>1. PICK z, x : z \in Int /\ z = 0 /\ x = "isync"
    OBVIOUS
  <2>2. in' = SetPcIp(p, x, z)
    BY <1>5, <2>1 DEF SetPcIp
  <2>3. in' = [in EXCEPT ![p] = On(in[p], x, in[p].ino, z)]
    BY <1>2, <2>2, GoesPcIp
  <2>4. sb' \in [list : Seq(InInos), tinode : Int, gate : InProcs \cup {InNone}] /\ sb'.tinode = sb.tinode
    BY <1>3, <1>5
  <2>5. InRest'
    BY <1>1, <2>4 DEF InBase, InTyped, InRest
  <2>6. in[p].ino \in Int /\ in[p].op = "creat"
    BY <1>1, <1>2 DEF CallWell, InCalls
  <2>7. InBase' /\ Goes(p, On(in[p], x, in[p].ino, z))
    BY <1>1, <2>1, <2>3, <2>5, <2>6, BaseGoesOn
  <2> QED BY <1>1, <2>1, <2>4, <2>7
<1> QED BY <1>4, <1>5 DEF ialloc

LEMMA BaseRefill ==
  ASSUME InBase, NEW p \in InProcs, iallocRefill(p)
  PROVE  /\ InBase' /\ in[p].pc = "scan" /\ UNCHANGED <<dinode, name, overflow>>
         /\ \/ UNCHANGED dirGate /\ \E list \in Seq(InInos) : Takes(p, list)
            \/ /\ \A i \in InInos : dinode[i].mode
               /\ sb'.tinode = 0 /\ Goes(p, Idle)
               /\ dirGate' = [dirGate EXCEPT ![InDir[in[p].name]] = InNone]
<1>1. in[p].pc = "scan" /\ UNCHANGED <<inode, dinode, name, overflow>>
  BY DEF iallocRefill, At
<1>2. /\ in \in [InProcs -> InCalls] /\ CallWell(in[p]) /\ in[p] \in InCalls /\ InRest
  BY BaseFacts
<1>3. /\ FreeOnDisk \in Seq(InInos)
      /\ FreeOnDisk = <<>> => \A i \in InInos : dinode[i].mode
  BY <1>2, FreeOnDiskIs DEF InRest
<1>4. CASE FreeOnDisk # <<>> /\ Take(p, FreeOnDisk) /\ UNCHANGED dirGate
  <2>1. PICK list \in Seq(InInos) : list = FreeOnDisk
    BY <1>3
  <2>2. InBase' /\ Takes(p, list)
    BY <1>1, <1>4, <2>1, TakeIs
  <2> QED BY <1>1, <1>4, <2>2
<1>5. CASE /\ FreeOnDisk = <<>> /\ sb' = [list |-> <<>>, tinode |-> 0, gate |-> InNone]
           /\ in' = [in EXCEPT ![p] = Idle]
           /\ dirGate' = [dirGate EXCEPT ![InDir[in[p].name]] = InNone]
  <2>1. Goes(p, Idle)
    BY <1>1, <1>5, GoesSame
  <2>2. \A u \in InSlots : ~ RefersTo(Idle, u) /\ ~ RefersTo(in[p], u)
    BY <1>1 DEF RefersTo, Idle
  <2>3. dirGate' \in [Dirs -> InProcs \cup {InNone}]
    BY <1>2, <1>5 DEF InRest
  <2>4. sb' \in [list : Seq(InInos), tinode : Int, gate : InProcs \cup {InNone}] /\ sb'.tinode = 0
    BY <1>5
  <2>5. InRest'
    BY <1>1, <1>2, <2>3, <2>4 DEF InRest
  <2>6. InBase'
    BY <2>1, <2>2, <2>5, WellIdle, BaseGone
  <2> QED BY <1>1, <1>3, <1>5, <2>1, <2>4, <2>6
<1> QED BY <1>4, <1>5 DEF iallocRefill

LEMMA BaseBusy ==
  ASSUME InBase, NEW p \in InProcs, iallocBusy(p)
  PROVE  /\ InBase' /\ in[p].pc = "created" /\ Unmoved
         /\ in[p].ip \in InSlots /\ in[p].ino \in InInos /\ inode[in[p].ip].ino = in[p].ino
         /\ inode[in[p].ip].mode
         /\ Ends(p, On(in[p], "busy", 0, 0), in[p].ip,
                 Entry(in[p].ino, inode[in[p].ip].refc - 1, inode[in[p].ip].nlink,
                       inode[in[p].ip].mode, inode[in[p].ip].mod, InNone))
<1>0. PICK s : s = in[p].ip
  OBVIOUS
<1>1. in[p].pc = "created" /\ Unmoved /\ inode[s].mode
  BY <1>0 DEF iallocBusy, At, Unmoved, Busy
<1>2. /\ in \in [InProcs -> InCalls] /\ CallWell(in[p]) /\ in[p] \in InCalls
      /\ inode \in [InSlots -> InEntries] /\ InRest' /\ InRest
  BY <1>1, BaseFacts
<1>3. /\ s \in InSlots /\ in[p].ino \in InInos /\ inode[s].ino = in[p].ino /\ Ref(in[p], s) = 1
      /\ \A u \in InSlots : u # s => ~ RefersTo(in[p], u)
  BY <1>0, <1>1, SlotFacts DEF Locking, RefersTo
<1>4. PICK i \in InInos \cup {0}, r \in Int, n \in Int, m \in BOOLEAN, d \in BOOLEAN, g \in InProcs \cup {InNone} :
        i = in[p].ino /\ r = inode[s].refc /\ n = inode[s].nlink /\ m = inode[s].mode
        /\ d = inode[s].mod /\ g = inode[s].gate
  BY <1>2, <1>3 DEF InEntries
<1>5. Holds(inode, s, Entry(i, r, n, m, d, g))
  BY <1>2, <1>3, <1>4, HoldsNow
<1>6. PICK k \in Int : k = r - 1
  OBVIOUS
<1>7. PICK t : t = [inode EXCEPT ![s].refc = k]
  OBVIOUS
<1>8. Holds(t, s, Entry(i, k, n, m, d, g))
  BY <1>3, <1>5, <1>7, HoldsRefc
<1>9. PICK h \in InProcs \cup {InNone} : h = InNone
  OBVIOUS
<1>10. PICK v : v = [t EXCEPT ![s].gate = h]
  OBVIOUS
<1>11. Holds(v, s, Entry(i, k, n, m, d, h))
  BY <1>3, <1>8, <1>10, HoldsGate
<1>12. inode' = v /\ in' = SetPcIpIno(p, "busy", 0, 0)
  BY <1>0, <1>4, <1>6, <1>7, <1>9, <1>10 DEF iallocBusy, SetPcIpIno
<1>13. PICK z, x : z \in Int /\ z = 0 /\ x = "busy"
  OBVIOUS
<1>14. in' = [in EXCEPT ![p] = On(in[p], x, z, z)]
  BY <1>2, <1>12, <1>13, GoesPcIpIno
<1>15. x \in InPcs \ {"idle", "open", "icopymd", "ifree"} /\ x \in InPcs
  BY <1>13 DEF InPcs
<1>16. in[p].back = "idle" /\ in[p].op = "creat"
  BY <1>1, <1>2 DEF CallWell
<1>17. CallWell(On(in[p], x, z, z))
  <2>1. x \notin {"iwait", "fwait", "icopydm", "created"} /\ x \notin Looking \cup {"created"}
    BY <1>13 DEF Looking
  <2> QED BY <1>2, <1>13, <1>15, <1>16, <2>1, WellOn
<1>18. PICK c : c = On(in[p], x, z, z)
  OBVIOUS
<1>19. PICK e : e = Entry(i, k, n, m, d, h)
  OBVIOUS
<1>20. Ends(p, c, s, e)
  BY <1>11, <1>12, <1>14, <1>18, <1>19 DEF Ends
<1>21. c.pc = "busy" /\ e.refc = k /\ e.ino = i
  BY <1>13, <1>18, <1>19 DEF On, Call, Entry
<1>22. \A u \in InSlots : ~ RefersTo(c, u)
  BY <1>21 DEF RefersTo
<1>23. Ref(c, s) = 0
  BY <1>3, <1>22 DEF Ref
<1>24. e.refc = inode[s].refc + Ref(c, s) - Ref(in[p], s)
  BY <1>3, <1>4, <1>6, <1>21, <1>23
<1>25. e.ino = inode[s].ino
  BY <1>3, <1>4, <1>21
<1>26. InBase'
  BY <1>2, <1>3, <1>17, <1>18, <1>20, <1>22, <1>24, <1>25, BaseMoved
<1> QED BY <1>0, <1>1, <1>3, <1>4, <1>6, <1>9, <1>13, <1>18, <1>19, <1>20, <1>26

LEMMA BaseRecount ==
  ASSUME InBase, NEW p \in InProcs, iallocRecount(p)
  PROVE  /\ InBase' /\ in[p].pc = "busy" /\ UNCHANGED <<dinode, name, dirGate, overflow>>
         /\ sb'.tinode = sb.tinode + 1
         /\ Goes(p, On(in[p], "ialloc", in[p].ino, in[p].ip))
<1>1. in[p].pc = "busy" /\ UNCHANGED <<inode, dinode, name, dirGate, overflow>> /\ sb' = Recounted
      /\ in' = SetPc(p, "ialloc")
  BY DEF iallocRecount, At, Goto, SetPc
<1>2. /\ in \in [InProcs -> InCalls] /\ CallWell(in[p]) /\ in[p] \in InCalls /\ InRest
  BY BaseFacts
<1>3. in[p].ino \in Int /\ in[p].ip \in Int
  BY <1>2 DEF InCalls
<1>4. in[p].op = "creat"
  BY <1>1, <1>2 DEF CallWell
<1>5. PICK k \in Int : k = sb.tinode + 1
  BY <1>2 DEF InRest
<1>6. sb' = [sb EXCEPT !.tinode = k]
  BY <1>1, <1>5 DEF Recounted
<1>7. sb' \in [list : Seq(InInos), tinode : Int, gate : InProcs \cup {InNone}] /\ sb'.tinode = k
  BY <1>2, <1>6 DEF InRest
<1>8. InRest'
  BY <1>1, <1>2, <1>7 DEF InRest
<1>9. PICK x : x = "ialloc"
  OBVIOUS
<1>10. in' = [in EXCEPT ![p] = On(in[p], x, in[p].ino, in[p].ip)]
  BY <1>1, <1>2, <1>9, GoesPc
<1>11. InBase' /\ Goes(p, On(in[p], x, in[p].ino, in[p].ip))
  BY <1>1, <1>3, <1>4, <1>8, <1>9, <1>10, BaseGoesOn
<1> QED BY <1>1, <1>5, <1>7, <1>9, <1>11

\* Where icopymd goes back to.
Backs(c) ==
  IF c.back = "open" THEN Opens(c.ino, c.ip)
  ELSE IF c.back = "idle" THEN Idle
  ELSE Call("isync", c.op, c.name, c.ino, c.ip, <<>>, TRUE, "idle")

LEMMA BackIs ==
  ASSUME NEW p \in InProcs, in[p] \in InCalls
  PROVE  Back(p) = Backs(in[p])
<1>1. CASE in[p].back = "open"
  <2>1. Back(p) = Opened(p, in[p].ip)
    BY <1>1 DEF Back
  <2>2. Opened(p, in[p].ip) = Opens(in[p].ino, in[p].ip)
    BY IdleIs DEF Opened
  <2> QED BY <1>1, <2>1, <2>2 DEF Backs
<1>2. CASE in[p].back = "idle"
  <2>1. Back(p) = Idle
    BY <1>2 DEF Back
  <2> QED BY <1>2, <2>1 DEF Backs
<1>3. CASE in[p].back = "isync"
  <2>1. Back(p) = [in[p] EXCEPT !.pc = "isync", !.copy = <<>>, !.unlock = TRUE, !.back = "idle"]
    BY <1>3 DEF Back
  <2>2. PICK a, b, c, d, e, f, g, h : /\ in[p] = Call(a, b, c, d, e, f, g, h)
                                      /\ b = in[p].op /\ c = in[p].name /\ d = in[p].ino /\ e = in[p].ip
    <3>1. in[p] = Call(in[p].pc, in[p].op, in[p].name, in[p].ino, in[p].ip, in[p].copy,
                       in[p].unlock, in[p].back)
      BY DEF InCalls, Call
    <3> QED BY <3>1
  <2>3. PICK w, x, y, z : w = "isync" /\ x = <<>> /\ y = TRUE /\ z = "idle"
    OBVIOUS
  <2>4. PICK c1 : c1 = [in[p] EXCEPT !.pc = w]
    OBVIOUS
  <2>5. c1 = Call(w, b, c, d, e, f, g, h)
    BY <2>2, <2>4 DEF Call
  <2>6. PICK c2 : c2 = [c1 EXCEPT !.copy = x]
    OBVIOUS
  <2>7. c2 = Call(w, b, c, d, e, x, g, h)
    BY <2>5, <2>6 DEF Call
  <2>8. PICK c3 : c3 = [c2 EXCEPT !.unlock = y]
    OBVIOUS
  <2>9. c3 = Call(w, b, c, d, e, x, y, h)
    BY <2>7, <2>8 DEF Call
  <2>10. PICK c4 : c4 = [c3 EXCEPT !.back = z]
    OBVIOUS
  <2>11. c4 = Call(w, b, c, d, e, x, y, z)
    BY <2>9, <2>10 DEF Call
  <2>12. Back(p) = c4
    BY <2>1, <2>3, <2>4, <2>6, <2>8, <2>10
  <2>13. Backs(in[p]) = Call(w, b, c, d, e, x, y, z)
    BY <1>3, <2>2, <2>3 DEF Backs
  <2> QED BY <2>11, <2>12, <2>13
<1> QED BY <1>1, <1>2, <1>3 DEF InCalls

LEMMA WellBacks ==
  ASSUME NEW c, CallWell(c), c.pc \in {"icopymd", "ifree"}, c.pc = "ifree" => c.back # "open"
  PROVE  /\ CallWell(Backs(c))
         /\ \A u \in InSlots : RefersTo(Backs(c), u) <=> RefersTo(c, u)
         /\ c.back = "open" => Backs(c).ino = c.ino
<1>1. /\ c \in InCalls /\ c.ip \in InSlots /\ c.ino \in InInos /\ c.back \in {"open", "idle", "isync"}
      /\ (c.op = "creat" <=> c.back # "idle") /\ (c.op = "creat" => c.name \in AllNames)
  BY DEF CallWell, InCalls, Locking
<1>2. CASE c.back = "open"
  <2>1. PICK b : b = Opens(c.ino, c.ip)
    OBVIOUS
  <2>2. b = Backs(c)
    BY <1>2, <2>1 DEF Backs
  <2>3. CallWell(b)
    BY <1>1, <2>1, WellCalls
  <2>4. b.pc = "open" /\ b.ip = c.ip /\ b.ino = c.ino
    BY <2>1 DEF Opens, Call
  <2>5. \A u \in InSlots : RefersTo(b, u) <=> RefersTo(c, u)
    BY <1>2, <2>4 DEF RefersTo
  <2> QED BY <2>2, <2>3, <2>4, <2>5
<1>3. CASE c.back = "idle"
  <2>1. Backs(c) = Idle
    BY <1>3 DEF Backs
  <2>2. \A u \in InSlots : ~ RefersTo(Idle, u) /\ ~ RefersTo(c, u)
    BY <1>3 DEF RefersTo, Idle
  <2> QED BY <1>3, <2>1, <2>2, WellIdle
<1>4. CASE c.back = "isync"
  <2>0. InInos \subseteq Int /\ InSlots \subseteq Int
    BY InAssumption
  <2>1. PICK b : b = Call("isync", c.op, c.name, c.ino, c.ip, <<>>, TRUE, "idle")
    OBVIOUS
  <2>2. b = Backs(c)
    BY <1>4, <2>1 DEF Backs
  <2>3. b \in InCalls /\ b.pc = "isync" /\ b.op = "creat" /\ b.name \in AllNames /\ b.back = "idle"
    BY <1>1, <1>4, <2>0, <2>1 DEF InCalls, InPcs, Call
  <2>4. CallWell(b)
    BY <2>3 DEF CallWell, Locking, Looking
  <2>5. \A u \in InSlots : ~ RefersTo(b, u) /\ ~ RefersTo(c, u)
    BY <1>4, <2>3 DEF RefersTo
  <2> QED BY <1>4, <2>2, <2>4, <2>5
<1> QED BY <1>1, <1>2, <1>3, <1>4

LEMMA BaseImake ==
  ASSUME InBase, NEW p \in InProcs, imake(p)
  PROVE  /\ InBase' /\ in[p].pc = "created" /\ UNCHANGED <<dinode, sb, dirGate, overflow>>
         /\ in[p].ip \in InSlots /\ in[p].ino \in InInos /\ inode[in[p].ip].ino = in[p].ino
         /\ ~ inode[in[p].ip].mode
         /\ name' = [name EXCEPT ![in[p].name] = in[p].ino]
         /\ Ends(p, Call("icopymd", "creat", in[p].name, in[p].ino, in[p].ip, File(TRUE, 1), TRUE, "open"),
                 in[p].ip, Entry(in[p].ino, inode[in[p].ip].refc, 1, TRUE, TRUE, inode[in[p].ip].gate))
<1>0. PICK s : s = in[p].ip
  OBVIOUS
<1>1. in[p].pc = "created" /\ UNCHANGED <<dinode, sb, dirGate, overflow>> /\ ~ inode[s].mode
  BY <1>0 DEF imake, At, Busy
<1>2. /\ in \in [InProcs -> InCalls] /\ CallWell(in[p]) /\ in[p] \in InCalls
      /\ inode \in [InSlots -> InEntries] /\ InRest
  BY BaseFacts
<1>3. /\ s \in InSlots /\ in[p].ino \in InInos /\ inode[s].ino = in[p].ino /\ Ref(in[p], s) = 1
      /\ \A u \in InSlots : u # s => ~ RefersTo(in[p], u)
  BY <1>0, <1>1, SlotFacts DEF Locking, RefersTo
<1>4. PICK i \in InInos \cup {0}, r \in Int, n \in Int, m \in BOOLEAN, d \in BOOLEAN, g \in InProcs \cup {InNone} :
        i = in[p].ino /\ r = inode[s].refc /\ n = inode[s].nlink /\ m = inode[s].mode
        /\ d = inode[s].mod /\ g = inode[s].gate
  BY <1>2, <1>3 DEF InEntries
<1>5. Holds(inode, s, Entry(i, r, n, m, d, g))
  BY <1>2, <1>3, <1>4, HoldsNow
<1>6. PICK k \in Int : k = 1
  OBVIOUS
<1>7. PICK b \in BOOLEAN : b = TRUE
  OBVIOUS
<1>8. PICK t : t = [inode EXCEPT ![s].mode = b]
  OBVIOUS
<1>9. Holds(t, s, Entry(i, r, n, b, d, g))
  BY <1>3, <1>5, <1>8, HoldsMode
<1>10. PICK v : v = [t EXCEPT ![s].nlink = k]
  OBVIOUS
<1>11. Holds(v, s, Entry(i, r, k, b, d, g))
  BY <1>3, <1>9, <1>10, HoldsNlink
<1>12. PICK w : w = [v EXCEPT ![s].mod = b]
  OBVIOUS
<1>13. Holds(w, s, Entry(i, r, k, b, b, g))
  BY <1>3, <1>11, <1>12, HoldsMod
<1>14. inode' = w
  BY <1>0, <1>6, <1>7, <1>8, <1>10, <1>12 DEF imake
<1>15. in' = SetWrite(p, "icopymd", "open", TRUE, File(TRUE, 1))
  BY DEF imake, SetWrite, File
<1>16. PICK x, y, f : x = "icopymd" /\ y = "open" /\ f = File(TRUE, 1)
  OBVIOUS
<1>17. in' = [in EXCEPT ![p] = Call(x, in[p].op, in[p].name, in[p].ino, in[p].ip, f, b, y)]
  <2>1. in' = SetWrite(p, x, y, b, f)
    BY <1>7, <1>15, <1>16
  <2>2. SetWrite(p, x, y, b, f) = [in EXCEPT ![p] = Call(x, in[p].op, in[p].name, in[p].ino, in[p].ip, f, b, y)]
    BY <1>2, GoesWrite
  <2> QED BY <2>1, <2>2
<1>18. in[p].op = "creat" /\ in[p].name \in AllNames
  BY <1>1, <1>2 DEF CallWell
<1>19. PICK c : c = Call("icopymd", "creat", in[p].name, in[p].ino, s, f, b, "open")
  OBVIOUS
<1>20. in' = [in EXCEPT ![p] = c]
  BY <1>0, <1>16, <1>17, <1>18, <1>19
<1>21. CallWell(c)
  <2>1. f \in InFiles
    BY <1>16 DEF InFiles, File
  <2>2. PICK o \in {"open", "isync"} : o = "open"
    OBVIOUS
  <2>3. CallWell(Call("icopymd", "creat", in[p].name, in[p].ino, s, f, b, o))
    BY <1>3, <1>18, <2>1, WellWrite
  <2> QED BY <1>19, <2>2, <2>3
<1>22. PICK e : e = Entry(i, r, k, b, b, g)
  OBVIOUS
<1>23. Ends(p, c, s, e)
  BY <1>13, <1>14, <1>20, <1>22 DEF Ends
<1>24. c.pc = "icopymd" /\ c.ip = s /\ c.ino = in[p].ino /\ c.back = "open" /\ e.refc = r /\ e.ino = i
  BY <1>19, <1>22 DEF Call, Entry
<1>25. /\ RefersTo(c, s) /\ Ref(c, s) = 1
       /\ \A u \in InSlots : u # s => ~ RefersTo(c, u)
  BY <1>24 DEF RefersTo, Ref
<1>26. e.refc = inode[s].refc + Ref(c, s) - Ref(in[p], s)
  BY <1>3, <1>4, <1>24, <1>25
<1>27. e.ino = inode[s].ino /\ e.ino = c.ino
  BY <1>3, <1>4, <1>24
<1>28. name' = [name EXCEPT ![in[p].name] = in[p].ino]
  BY <1>0, <1>3 DEF imake
<1>29. InRest'
  <2>1. name' \in [AllNames -> InInos \cup {0}]
    BY <1>2, <1>3, <1>18, <1>28 DEF InRest
  <2> QED BY <1>1, <1>2, <2>1 DEF InRest
<1>30. InBase'
  BY <1>3, <1>21, <1>23, <1>25, <1>26, <1>27, <1>29, BaseMoved
<1> QED BY <1>0, <1>1, <1>3, <1>4, <1>6, <1>7, <1>16, <1>19, <1>22, <1>23, <1>28, <1>30

LEMMA BaseIcopymd ==
  ASSUME InBase, NEW p \in InProcs, icopymd(p)
  PROVE  /\ InBase' /\ in[p].pc = "icopymd" /\ UNCHANGED <<sb, name, overflow>>
         /\ in[p].ip \in InSlots /\ in[p].ino \in InInos
         /\ dinode' = [dinode EXCEPT ![in[p].ino] = in[p].copy]
         /\ dirGate' = [d \in Dirs |-> IF dirGate[d] = p /\ in[p].back = "open" THEN InNone ELSE dirGate[d]]
         /\ \/ /\ inode[in[p].ip].refc = 0 /\ inode[in[p].ip].nlink = 0
               /\ Ends(p, On(in[p], "ifree", in[p].ino, in[p].ip), in[p].ip,
                       Entry(inode[in[p].ip].ino, inode[in[p].ip].refc, inode[in[p].ip].nlink,
                             inode[in[p].ip].mode, FALSE, inode[in[p].ip].gate))
            \/ /\ ~ (inode[in[p].ip].refc = 0 /\ inode[in[p].ip].nlink = 0)
               /\ Ends(p, Backs(in[p]), in[p].ip,
                       Entry(inode[in[p].ip].ino, inode[in[p].ip].refc, inode[in[p].ip].nlink,
                             inode[in[p].ip].mode, FALSE,
                             IF in[p].unlock THEN InNone ELSE inode[in[p].ip].gate))
<1>0. PICK s : s = in[p].ip
  OBVIOUS
<1>1. in[p].pc = "icopymd" /\ UNCHANGED <<sb, name, overflow>>
  BY DEF icopymd, At
<1>2. /\ in \in [InProcs -> InCalls] /\ CallWell(in[p]) /\ in[p] \in InCalls
      /\ inode \in [InSlots -> InEntries] /\ InRest /\ InInos \subseteq Int /\ InSlots \subseteq Int
  BY BaseFacts
<1>3. /\ s \in InSlots /\ in[p].ino \in InInos
      /\ RefersTo(in[p], s) => inode[s].ino = in[p].ino /\ inode[s].refc # 0 /\ Ref(in[p], s) = 1
      /\ \A u \in InSlots : u # s => ~ RefersTo(in[p], u)
  BY <1>0, <1>1, SlotFacts DEF Locking
<1>4. PICK i \in InInos \cup {0}, r \in Int, n \in Int, m \in BOOLEAN, d \in BOOLEAN, g \in InProcs \cup {InNone} :
        i = inode[s].ino /\ r = inode[s].refc /\ n = inode[s].nlink /\ m = inode[s].mode
        /\ d = inode[s].mod /\ g = inode[s].gate
  BY <1>2, <1>3 DEF InEntries
<1>5. Holds(inode, s, Entry(i, r, n, m, d, g))
  BY <1>2, <1>3, <1>4, HoldsNow
<1>6. PICK b \in BOOLEAN : b = FALSE
  OBVIOUS
<1>7. PICK frees \in BOOLEAN : frees <=> (r = 0 /\ n = 0)
  OBVIOUS
<1>8. PICK h \in InProcs \cup {InNone} : h = IF ~ frees /\ in[p].unlock THEN InNone ELSE g
  OBVIOUS
<1>9. PICK t : t = [inode EXCEPT ![s].mod = b]
  OBVIOUS
<1>10. Holds(t, s, Entry(i, r, n, m, b, g))
  BY <1>3, <1>5, <1>9, HoldsMod
<1>11. PICK v : v = [t EXCEPT ![s].gate = h]
  OBVIOUS
<1>12. Holds(v, s, Entry(i, r, n, m, b, h))
  BY <1>3, <1>10, <1>11, HoldsGate
<1>13. /\ inode' = [inode EXCEPT ![s].mod = FALSE,
                                 ![s].gate = IF ~ (inode[s].refc = 0 /\ inode[s].nlink = 0) /\ in[p].unlock
                                             THEN InNone ELSE @]
       /\ in' = [in EXCEPT ![p] = IF inode[s].refc = 0 /\ inode[s].nlink = 0
                                  THEN [@ EXCEPT !.pc = "ifree"] ELSE Back(p)]
       /\ dinode' = [dinode EXCEPT ![in[p].ino] = in[p].copy]
       /\ dirGate' = [d0 \in Dirs |-> IF dirGate[d0] = p /\ in[p].back = "open" THEN InNone ELSE dirGate[d0]]
  BY <1>0 DEF icopymd
<1>14. inode' = v
  <2>1. v = [t EXCEPT ![s].gate = IF ~ (r = 0 /\ n = 0) /\ in[p].unlock THEN InNone ELSE g]
    BY <1>7, <1>8, <1>11
  <2>2. t[s].gate = g
    BY <1>10 DEF Holds, SameEntry, Entry
  <2> QED BY <1>4, <1>6, <1>9, <1>13, <2>1, <2>2
<1>15. in' = [in EXCEPT ![p] = IF frees THEN On(in[p], "ifree", in[p].ino, in[p].ip) ELSE Backs(in[p])]
  <2>1. PICK x : x = "ifree"
    OBVIOUS
  <2>2. SetPc(p, x) = [in EXCEPT ![p] = On(in[p], x, in[p].ino, in[p].ip)]
    BY <1>2, GoesPc
  <2>3. frees => in' = SetPc(p, x)
    BY <1>4, <1>7, <1>13, <2>1 DEF SetPc
  <2>4. ~ frees => in' = [in EXCEPT ![p] = Backs(in[p])]
    BY <1>2, <1>4, <1>7, <1>13, BackIs
  <2> QED BY <2>1, <2>2, <2>3, <2>4
<1>16. PICK c : c = IF frees THEN On(in[p], "ifree", in[p].ino, in[p].ip) ELSE Backs(in[p])
  OBVIOUS
<1>17. PICK e : e = Entry(i, r, n, m, b, h)
  OBVIOUS
<1>18. Ends(p, c, s, e)
  BY <1>12, <1>14, <1>15, <1>16, <1>17 DEF Ends
<1>19. e.refc = r /\ e.ino = i
  BY <1>17 DEF Entry
<1>20. /\ CallWell(c) /\ (RefersTo(c, s) => c.ino = i)
       /\ \A u \in InSlots : RefersTo(c, u) <=> RefersTo(in[p], u)
  <2>1. CASE frees
    <3>1. ~ RefersTo(in[p], s)
      BY <1>3, <1>4, <1>7, <2>1
    <3>2. in[p].back # "open"
      BY <1>0, <1>1, <3>1 DEF RefersTo
    <3>3. PICK x \in InPcs : x = "ifree"
      BY DEF InPcs
    <3>4. in[p].ino \in Int /\ in[p].ip \in Int
      BY <1>2 DEF InCalls
    <3>5. PICK d1 : d1 = On(in[p], x, in[p].ino, in[p].ip)
      OBVIOUS
    <3>6. /\ d1 \in InCalls /\ d1.pc = x /\ d1.ino = in[p].ino /\ d1.ip = in[p].ip /\ d1.op = in[p].op
          /\ d1.name = in[p].name /\ d1.copy = in[p].copy /\ d1.back = in[p].back
      BY <1>2, <3>4, <3>5, OnIs
    <3>7. CallWell(d1)
      BY <1>0, <1>1, <1>2, <1>3, <3>2, <3>3, <3>6 DEF CallWell, Locking, Looking
    <3>8. \A u \in InSlots : ~ RefersTo(d1, u) /\ ~ RefersTo(in[p], u)
      BY <1>1, <3>2, <3>3, <3>6 DEF RefersTo
    <3> QED BY <1>3, <1>16, <2>1, <3>3, <3>5, <3>7, <3>8
  <2>2. CASE ~ frees
    <3>1. /\ CallWell(c) /\ \A u \in InSlots : RefersTo(c, u) <=> RefersTo(in[p], u)
          /\ in[p].back = "open" => c.ino = in[p].ino
      BY <1>1, <1>2, <1>16, <2>2, WellBacks
    <3>2. RefersTo(in[p], s) => in[p].back = "open"
      BY <1>1 DEF RefersTo
    <3> QED BY <1>3, <1>4, <3>1, <3>2
  <2> QED BY <2>1, <2>2
<1>21. Ref(c, s) = Ref(in[p], s) /\ Ref(c, s) \in Int
  BY <1>3, <1>20 DEF Ref
<1>22. e.refc = inode[s].refc + Ref(c, s) - Ref(in[p], s)
  BY <1>4, <1>19, <1>21
<1>23. InRest'
  <2>1. dirGate' \in [Dirs -> InProcs \cup {InNone}]
    BY <1>2, <1>13 DEF InRest
  <2>2. in[p].copy \in InFiles
    BY <1>1, <1>2 DEF CallWell
  <2>3. dinode' \in [InInos -> InFiles]
    BY <1>2, <1>3, <1>13, <2>2 DEF InRest
  <2> QED BY <1>1, <1>2, <2>1, <2>3 DEF InRest
<1>24. \A u \in InSlots : u # s => ~ RefersTo(c, u) /\ ~ RefersTo(in[p], u)
  BY <1>3, <1>20
<1>25. InBase'
  BY <1>3, <1>4, <1>18, <1>19, <1>20, <1>22, <1>23, <1>24, BaseMoved
<1>26. CASE frees
  <2>1. c = On(in[p], "ifree", in[p].ino, in[p].ip) /\ h = g
    BY <1>8, <1>16, <1>26
  <2> QED BY <1>0, <1>1, <1>3, <1>4, <1>6, <1>7, <1>13, <1>17, <1>18, <1>25, <1>26, <2>1
<1>27. CASE ~ frees
  <2>1. c = Backs(in[p]) /\ h = IF in[p].unlock THEN InNone ELSE g
    BY <1>8, <1>16, <1>27
  <2> QED BY <1>0, <1>1, <1>3, <1>4, <1>6, <1>7, <1>13, <1>17, <1>18, <1>25, <1>27, <2>1
<1> QED BY <1>26, <1>27

LEMMA BaseIfree ==
  ASSUME InBase, NEW p \in InProcs, ifree(p)
  PROVE  /\ InBase' /\ in[p].pc = "ifree" /\ UNCHANGED <<dinode, name, dirGate, overflow>>
         /\ in[p].ip \in InSlots /\ in[p].ino \in InInos
         /\ sb'.tinode = sb.tinode + 1
         /\ Ends(p, Backs(in[p]), in[p].ip,
                 Entry(inode[in[p].ip].ino, inode[in[p].ip].refc, inode[in[p].ip].nlink,
                       inode[in[p].ip].mode, inode[in[p].ip].mod,
                       IF in[p].unlock THEN InNone ELSE inode[in[p].ip].gate))
<1>0. PICK s : s = in[p].ip
  OBVIOUS
<1>1. in[p].pc = "ifree" /\ UNCHANGED <<dinode, name, dirGate, overflow>>
  BY DEF ifree, At
<1>2. /\ in \in [InProcs -> InCalls] /\ CallWell(in[p]) /\ in[p] \in InCalls
      /\ inode \in [InSlots -> InEntries] /\ InRest /\ InInos \subseteq Int /\ InSlots \subseteq Int
  BY BaseFacts
<1>3. s \in InSlots /\ in[p].ino \in InInos
  BY <1>0, <1>1, SlotFacts DEF Locking
<1>4. PICK i \in InInos \cup {0}, r \in Int, n \in Int, m \in BOOLEAN, d \in BOOLEAN, g \in InProcs \cup {InNone} :
        i = inode[s].ino /\ r = inode[s].refc /\ n = inode[s].nlink /\ m = inode[s].mode
        /\ d = inode[s].mod /\ g = inode[s].gate
  BY <1>2, <1>3 DEF InEntries
<1>5. Holds(inode, s, Entry(i, r, n, m, d, g))
  BY <1>2, <1>3, <1>4, HoldsNow
<1>6. PICK h \in InProcs \cup {InNone} : h = IF in[p].unlock THEN InNone ELSE g
  OBVIOUS
<1>7. PICK v : v = [inode EXCEPT ![s].gate = h]
  OBVIOUS
<1>8. Holds(v, s, Entry(i, r, n, m, d, h))
  BY <1>3, <1>5, <1>7, HoldsGate
<1>9. inode' = v /\ in' = [in EXCEPT ![p] = Back(p)] /\ sb' = Freed(in[p].ino)
  BY <1>0, <1>4, <1>6, <1>7 DEF ifree
<1>10. PICK c : c = Backs(in[p])
  OBVIOUS
<1>11. in' = [in EXCEPT ![p] = c]
  BY <1>2, <1>9, <1>10, BackIs
<1>12. in[p].back # "open"
  BY <1>1, <1>2 DEF CallWell
<1>13. /\ CallWell(c) /\ \A u \in InSlots : RefersTo(c, u) <=> RefersTo(in[p], u)
  BY <1>1, <1>2, <1>10, <1>12, WellBacks
<1>14. \A u \in InSlots : ~ RefersTo(c, u) /\ ~ RefersTo(in[p], u)
  BY <1>1, <1>13 DEF RefersTo
<1>15. PICK e : e = Entry(i, r, n, m, d, h)
  OBVIOUS
<1>16. Ends(p, c, s, e)
  BY <1>8, <1>9, <1>11, <1>15 DEF Ends
<1>17. e.refc = r /\ e.ino = i
  BY <1>15 DEF Entry
<1>18. Ref(c, s) = 0 /\ Ref(in[p], s) = 0
  BY <1>3, <1>14 DEF Ref
<1>19. e.refc = inode[s].refc + Ref(c, s) - Ref(in[p], s)
  BY <1>4, <1>17, <1>18
<1>20. PICK k \in Int : k = sb.tinode + 1
  BY <1>2 DEF InRest
<1>25. PICK l : l = IF Len(sb.list) < NICINOD THEN Append(sb.list, in[p].ino) ELSE sb.list
  OBVIOUS
<1>26. l \in Seq(InInos)
  <2>1. sb.list \in Seq(InInos)
    BY <1>2 DEF InRest
  <2>2. Append(sb.list, in[p].ino) \in Seq(InInos)
    BY <1>3, <2>1
  <2> QED BY <1>25, <2>1, <2>2
<1>21. sb' = [sb EXCEPT !.tinode = k, !.list = l]
  BY <1>9, <1>20, <1>25 DEF Freed
<1>22. sb' \in [list : Seq(InInos), tinode : Int, gate : InProcs \cup {InNone}] /\ sb'.tinode = k
  BY <1>2, <1>21, <1>26 DEF InRest
<1>23. InRest'
  BY <1>1, <1>2, <1>22 DEF InRest
<1>24. InBase'
  BY <1>3, <1>4, <1>13, <1>14, <1>16, <1>17, <1>19, <1>23, BaseMoved
<1> QED BY <1>0, <1>1, <1>3, <1>4, <1>6, <1>10, <1>15, <1>16, <1>20, <1>22, <1>24

LEMMA BaseIclose ==
  ASSUME InBase, NEW p \in InProcs, iclose(p)
  PROVE  /\ InBase' /\ in[p].pc = "open" /\ Unmoved
         /\ in[p].ip \in InSlots /\ in[p].ino \in InInos /\ inode[in[p].ip].ino = in[p].ino
         /\ inode[in[p].ip].gate = InNone
         /\ Detaches(p, in[p].ip, in[p].ino, inode[in[p].ip].refc, inode[in[p].ip].nlink,
                     inode[in[p].ip].mode, inode[in[p].ip].mod)
<1>0. PICK s : s = in[p].ip
  OBVIOUS
<1>1. in[p].pc = "open" /\ Unmoved /\ inode[s].gate = InNone /\ idetach(p, s, inode)
  BY <1>0 DEF iclose, At, Unmoved
<1>2. inode \in [InSlots -> InEntries] /\ InRest'
  BY <1>1, BaseFacts
<1>3. /\ s \in InSlots /\ in[p].ino \in InInos /\ inode[s].ino = in[p].ino /\ Ref(in[p], s) = 1
      /\ \A u \in InSlots : u # s => ~ RefersTo(in[p], u)
  BY <1>0, <1>1, SlotFacts DEF Locking, RefersTo
<1>4. PICK i \in InInos, r \in Int, n \in Int, m \in BOOLEAN, d \in BOOLEAN, g \in InProcs \cup {InNone} :
        i = in[p].ino /\ r = inode[s].refc /\ n = inode[s].nlink /\ m = inode[s].mode
        /\ d = inode[s].mod /\ g = inode[s].gate
  BY <1>2, <1>3 DEF InEntries
<1>5. Holds(inode, s, Entry(i, r, n, m, d, g))
  BY <1>2, <1>3, <1>4, HoldsNow
<1>6. Detaches(p, s, i, r, n, m, d)
  <2>1. i \in InInos \cup {0}
    OBVIOUS
  <2> QED BY <1>1, <1>3, <1>5, <2>1, Detached
<1>7. r = inode[s].refc + 1 - Ref(in[p], s) /\ i = inode[s].ino
  BY <1>3, <1>4
<1>8. InBase'
  BY <1>2, <1>3, <1>6, <1>7, BaseDetached
<1> QED BY <1>0, <1>1, <1>3, <1>4, <1>6, <1>8

LEMMA BaseIsync ==
  ASSUME InBase, NEW p \in InProcs, isync(p)
  PROVE  /\ InBase' /\ in[p].pc = "isync" /\ Unmoved
         /\ \/ \E s \in InSlots :
                 /\ inode[s].refc # 0 /\ inode[s].mod /\ inode[s].ino \in InInos
                 /\ Ends(p, Call("icopymd", "creat", in[p].name, inode[s].ino, s,
                                 File(inode[s].mode, inode[s].nlink), inode[s].gate = InNone, "isync"),
                         s, Entry(inode[s].ino, inode[s].refc, inode[s].nlink, inode[s].mode, inode[s].mod,
                                  IF inode[s].gate = InNone THEN p ELSE inode[s].gate))
            \/ Goes(p, On(in[p], "scan", in[p].ino, in[p].ip))
<1>1. in[p].pc = "isync" /\ Unmoved
  BY DEF isync, At, Unmoved
<1>2. /\ in \in [InProcs -> InCalls] /\ CallWell(in[p]) /\ in[p] \in InCalls
      /\ inode \in [InSlots -> InEntries] /\ InRest /\ InRest' /\ InInos \subseteq Int /\ InSlots \subseteq Int
  BY <1>1, BaseFacts
<1>3. in[p].op = "creat" /\ in[p].name \in AllNames /\ in[p].ino \in Int /\ in[p].ip \in Int
  BY <1>1, <1>2 DEF CallWell, InCalls
<1>4. CASE in' = SetPc(p, "scan") /\ inode' = inode
  <2>1. PICK x : x = "scan"
    OBVIOUS
  <2>2. in' = [in EXCEPT ![p] = On(in[p], x, in[p].ino, in[p].ip)]
    BY <1>2, <1>4, <2>1, GoesPc
  <2>3. InBase' /\ Goes(p, On(in[p], x, in[p].ino, in[p].ip))
    BY <1>1, <1>2, <1>3, <1>4, <2>1, <2>2, BaseGoesOn
  <2> QED BY <1>1, <2>1, <2>3
<1>5. ASSUME NEW s \in InSlots, inode[s].refc # 0, inode[s].mod,
             inode' = [inode EXCEPT ![s].gate = IF @ = InNone THEN p ELSE @],
             in' = SetSync(p, "icopymd", "isync", inode[s].ino, s, inode[s].gate = InNone,
                           File(inode[s].mode, inode[s].nlink))
      PROVE  /\ InBase' /\ inode[s].ino \in InInos
             /\ Ends(p, Call("icopymd", "creat", in[p].name, inode[s].ino, s,
                                 File(inode[s].mode, inode[s].nlink), inode[s].gate = InNone, "isync"),
                         s, Entry(inode[s].ino, inode[s].refc, inode[s].nlink, inode[s].mode, inode[s].mod,
                                  IF inode[s].gate = InNone THEN p ELSE inode[s].gate))
  <2>1. inode[s].ino \in InInos
    <3> DEFINE S == {q \in InProcs : RefersTo(in[q], s)}
    <3>1. inode[s].refc = Cardinality(S)
      BY DEF InBase, Counted
    <3>2. S # {}
      BY <1>5, <3>1, FS_EmptySet
    <3>3. PICK q \in InProcs : RefersTo(in[q], s)
      BY <3>2
    <3>4. inode[s].ino = in[q].ino
      BY <3>3 DEF InBase, Counted
    <3>5. CallWell(in[q])
      BY BaseFacts
    <3>6. in[q].ino \in InInos
      BY <3>3, <3>5 DEF CallWell, RefersTo, Looking
    <3> QED BY <3>4, <3>6
  <2>2. PICK i \in InInos, r \in Int, n \in Int, m \in BOOLEAN, d \in BOOLEAN, g \in InProcs \cup {InNone} :
          i = inode[s].ino /\ r = inode[s].refc /\ n = inode[s].nlink /\ m = inode[s].mode
          /\ d = inode[s].mod /\ g = inode[s].gate
    BY <1>2, <2>1 DEF InEntries
  <2>3. Holds(inode, s, Entry(i, r, n, m, d, g))
    BY <1>2, <2>2, HoldsNow
  <2>4. PICK h \in InProcs \cup {InNone} : h = IF g = InNone THEN p ELSE g
    OBVIOUS
  <2>5. PICK v : v = [inode EXCEPT ![s].gate = h]
    OBVIOUS
  <2>6. Holds(v, s, Entry(i, r, n, m, d, h))
    BY <2>3, <2>5, HoldsGate
  <2>7. inode' = v
    BY <1>5, <2>2, <2>4, <2>5
  <2>8. PICK w, y, f : w = "icopymd" /\ y = "isync" /\ f = File(m, n)
    OBVIOUS
  <2>9. PICK b \in BOOLEAN : b = (inode[s].gate = InNone)
    OBVIOUS
  <2>10. in' = SetSync(p, w, y, i, s, b, f)
    BY <1>5, <2>2, <2>8, <2>9
  <2>11. SetSync(p, w, y, i, s, b, f) = [in EXCEPT ![p] = Call(w, in[p].op, in[p].name, i, s, f, b, y)]
    BY <1>2, GoesSync
  <2>12. PICK c : c = Call(w, "creat", in[p].name, i, s, f, b, y)
    OBVIOUS
  <2>13. in' = [in EXCEPT ![p] = c]
    BY <1>3, <2>10, <2>11, <2>12
  <2>14. f \in InFiles
    BY <2>8 DEF InFiles, File
  <2>15. CallWell(c)
    <3>1. PICK o \in {"open", "isync"} : o = "isync"
      OBVIOUS
    <3>2. CallWell(Call("icopymd", "creat", in[p].name, i, s, f, b, o))
      BY <1>3, <2>14, WellWrite
    <3> QED BY <2>8, <2>12, <3>1, <3>2
  <2>16. PICK e : e = Entry(i, r, n, m, d, h)
    OBVIOUS
  <2>17. Ends(p, c, s, e)
    BY <2>6, <2>7, <2>13, <2>16 DEF Ends
  <2>18. c.pc = "icopymd" /\ c.back = "isync" /\ e.refc = r /\ e.ino = i
    BY <2>8, <2>12, <2>16 DEF Call, Entry
  <2>19. \A u \in InSlots : ~ RefersTo(c, u) /\ ~ RefersTo(in[p], u)
    BY <1>1, <2>18 DEF RefersTo
  <2>20. Ref(c, s) = 0 /\ Ref(in[p], s) = 0
    BY <2>19 DEF Ref
  <2>21. e.refc = inode[s].refc + Ref(c, s) - Ref(in[p], s)
    BY <2>2, <2>18, <2>20
  <2>22. InBase'
    BY <1>2, <2>2, <2>15, <2>17, <2>18, <2>19, <2>21, BaseMoved
  <2>23. Ends(p, Call("icopymd", "creat", in[p].name, i, s, f, b, "isync"), s, e)
    BY <2>8, <2>12, <2>17
  <2> QED BY <2>1, <2>2, <2>4, <2>8, <2>9, <2>16, <2>22, <2>23
<1>6. \/ in' = SetPc(p, "scan") /\ inode' = inode
      \/ \E s \in InSlots : 
           /\ inode[s].refc # 0 /\ inode[s].mod
           /\ inode' = [inode EXCEPT ![s].gate = IF @ = InNone THEN p ELSE @]
           /\ in' = SetSync(p, "icopymd", "isync", inode[s].ino, s, inode[s].gate = InNone,
                           File(inode[s].mode, inode[s].nlink))
  BY DEF isync, SetPc, SetSync, Goto, File
<1> QED BY <1>1, <1>4, <1>5, <1>6

LEMMA BaseInit == InInit => InBase
<1> SUFFICES ASSUME InInit PROVE InBase
  OBVIOUS
<1>1. CallWell(Idle) /\ Idle \in InCalls
  BY WellIdle DEF CallWell
<1>2. in \in [InProcs -> InCalls] /\ \A p \in InProcs : in[p] = Idle /\ CallWell(in[p])
  BY <1>1 DEF InInit
<1>3. PICK o : o = [ino |-> 0, refc |-> 0, nlink |-> 0, mode |-> FALSE, mod |-> FALSE, lrt |-> 0,
                    gate |-> InNone]
  OBVIOUS
<1>4. o \in InEntries /\ o.refc = 0
  BY <1>3 DEF InEntries
<1>5. inode = [s \in InSlots |-> o]
  BY <1>3 DEF InInit
<1>6. inode \in [InSlots -> InEntries] /\ \A s \in InSlots : inode[s].refc = 0
  BY <1>4, <1>5
<1>7. \A s \in InSlots, p \in InProcs : ~ RefersTo(in[p], s)
  BY <1>2 DEF RefersTo, Idle
<1>8. Counted(inode, in)
  <2> SUFFICES ASSUME NEW s \in InSlots
               PROVE  inode[s].refc = Cardinality({p \in InProcs : RefersTo(in[p], s)})
    BY <1>7 DEF Counted
  <2>1. {p \in InProcs : RefersTo(in[p], s)} = {}
    BY <1>7
  <2> QED BY <1>6, <2>1, FS_EmptySet
<1>9. dinode \in [InInos -> InFiles]
  BY DEF InInit, InFiles
<1>10. sb \in [list : Seq(InInos), tinode : Int, gate : InProcs \cup {InNone}]
  <2>1. Cardinality(InInos) \in Int /\ InListed \in Seq(InInos)
    BY InAssumption, FS_CardinalityType
  <2> QED BY <2>1 DEF InInit
<1>11. /\ name \in [AllNames -> InInos \cup {0}] /\ dirGate \in [Dirs -> InProcs \cup {InNone}]
       /\ overflow \in BOOLEAN
  BY DEF InInit
<1> QED BY <1>2, <1>6, <1>8, <1>9, <1>10, <1>11 DEF InBase, InTyped

LEMMA BaseStep == InBase /\ [InNext]_inVars => InBase'
<1> SUFFICES ASSUME InBase, [InNext]_inVars PROVE InBase'
  OBVIOUS
<1>1. CASE UNCHANGED inVars
  BY <1>1 DEF InBase, InTyped, Counted, inVars
<1>2. ASSUME NEW p \in InProcs,
             \/ \E n \in AllNames : open(p, n) \/ creat(p, n) \/ do_unlink(p, n)
             \/ iattach(p) \/ iattachFails(p) \/ iattachWoken(p) \/ inode_findWoken(p)
             \/ icopydm(p) \/ ialloc(p) \/ iallocRefill(p)
             \/ iallocBusy(p) \/ iallocRecount(p) \/ imake(p)
             \/ icopymd(p) \/ ifree(p) \/ iclose(p)
             \/ isync(p)
      PROVE  InBase'
  <2>1. ASSUME NEW n \in AllNames, open(p, n) \/ creat(p, n) \/ do_unlink(p, n) PROVE InBase'
    BY <2>1, BaseOpen, BaseCreat, BaseUnlink
  <2> QED BY <1>2, <2>1, BaseIattach, BaseIattachFails, BaseIattachWoken, BaseFindWoken, BaseIcopydm,
             BaseIalloc, BaseRefill, BaseBusy, BaseRecount, BaseImake, BaseIcopymd, BaseIfree,
             BaseIclose, BaseIsync
<1> QED BY <1>1, <1>2 DEF InNext

(***************************************************************************)
(* Whatever happens while an inode's lock is waited for: i_refc counts the *)
(* references, and a slot that is referenced holds the inode asked for.    *)
(* inode_find, iattach, idetach and ialloc, which change i_refc.           *)
(***************************************************************************)
THEOREM InodeReferences == InSpec => []InRefs
<1>1. InBase => InRefs
  BY DEF InBase, InRefs, Counted, RefersTo, Refers
<1> QED BY BaseInit, BaseStep, <1>1, PTL DEF InSpec

-----------------------------------------------------------------------------
(* Link counts and modes.                                                  *)

\* No inode is in memory twice.
InSingle ==
  \A s, t \in InSlots : inode[s].ino = inode[t].ino /\ inode[s].ino # 0 => s = t

\* All names are in one directory, so one process at a time creates a file.
InOneDirectory == \A n, m \in AllNames : InDir[n] = InDir[m]

\* What a process opens, nobody else unlinks.
InOwnUnlinks == \A o \in InOpens, u \in InUnlinks : o[2] = u[2] => o[1] = u[1]

\* The entry e has the mode and the links of v.
Is(e, v) == e.mode = v.mode /\ e.nlink = v.nlink

\* The disk need not have what the entry e has.
Dirty(e, f) == e.mod \/ (e.gate # InNone /\ f[e.gate].pc = "icopymd")

(***************************************************************************)
(* T[i] is what inode i is by now, wherever that is kept.  An entry that   *)
(* does not wait for icopydm has it, and the disk has it unless the entry  *)
(* is dirty.                                                               *)
(***************************************************************************)
EntryHolds(T, e, s, f) ==
  /\ e.gate # InNone => f[e.gate].ip = s /\ f[e.gate].pc \in Locking
  /\ e.gate = InNone /\ e.refc = 0 => ~ e.mod
  /\ e.ino # 0 /\ ~ (e.gate # InNone /\ f[e.gate].pc = "icopydm") => Is(e, T[e.ino])

OnDisk(T, d, t, f) ==
  \A i \in InInos : d[i] = T[i] \/ \E s \in InSlots : t[s].ino = i /\ Dirty(t[s], f)

\* What p, at c, knows of the entry e that it has locked.
LockHolds(p, c, e) ==
  /\ e.gate = p /\ e.ino = c.ino
  /\ c.pc = "icopydm" => ~ e.mod
  /\ c.pc = "created" => ~ e.mod \/ e.refc # 1
  /\ c.pc = "icopymd" => /\ Is(e, c.copy) /\ c.unlock
                         /\ c.back = "idle" => e.refc = 0 /\ (e.nlink = 0 => ~ e.mode)
                         /\ c.back # "idle" => e.refc # 0
                         /\ c.back = "open" => e.mode
  /\ c.pc = "ifree" => /\ e.refc = 0 /\ ~ e.mod /\ ~ e.mode /\ e.nlink = 0
                       /\ c.unlock /\ c.copy.nlink = 0 /\ c.back = "idle"

\* What p, at c, has open; what it opens has a name; what it creates has none
\* before imake, and p holds the directory.
CallHolds(T, p, c, nm, dg) ==
  /\ c.pc = "open" => T[c.ino].mode
  /\ c.op = "open" => \E n \in AllNames : <<p, n>> \in InOpens /\ nm[n] = c.ino
  /\ c.op = "creat" => /\ dg[InDir[c.name]] = p
                       /\ ~ (c.pc = "icopymd" /\ c.back = "open") => nm[c.name] = 0

Unlinking(c, i) == c.op = "unlink" /\ c.ino = i

\* A link is a name, or one that do_unlink has cleared and not yet counted.
LinkedAt(v, nm, f, i) ==
  /\ v.nlink \in {0, 1} /\ (~ v.mode => v.nlink = 0)
  /\ (v.nlink = 1) <=> ((\E n \in AllNames : nm[n] = i) \/ (\E p \in InProcs : Unlinking(f[p], i)))
  /\ \A n, m \in AllNames : nm[n] = i /\ nm[m] = i => n = m
  /\ \A p, q \in InProcs : Unlinking(f[p], i) /\ Unlinking(f[q], i) => p = q
  /\ \A n \in AllNames, p \in InProcs : nm[n] = i => ~ Unlinking(f[p], i)
Linked(T, nm, f) == \A i \in InInos : LinkedAt(T[i], nm, f, i)

\* An inode that has left s_tinode and is not in use yet, or the other way round.
Owes(c) ==
  \/ c.op = "creat" /\ c.pc \in {"created", "busy"} \cup Looking
  \/ c.pc \in {"icopymd", "ifree"} /\ c.back = "idle" /\ c.copy.nlink = 0

Totalled(T, n, f) ==
  n = Cardinality({i \in InInos : ~ T[i].mode}) - Cardinality({p \in InProcs : Owes(f[p])})

ExactlyAt(T, t, d, f, nm, dg, n) ==
  /\ T \in [InInos -> InFiles]
  /\ \A s \in InSlots : EntryHolds(T, t[s], s, f)
  /\ OnDisk(T, d, t, f)
  /\ \A p \in InProcs : f[p].pc \in Locking => LockHolds(p, f[p], t[f[p].ip])
  /\ \A p \in InProcs : CallHolds(T, p, f[p], nm, dg)
  /\ Linked(T, nm, f)
  /\ Totalled(T, n, f)
Exactly(T) == ExactlyAt(T, inode, dinode, in, name, dirGate, sb.tinode)

\* p goes on at c with f and t in place of in and inode; only entries of S, which
\* nobody else has locked, change.
Moves(p, c, S, t, f) ==
  /\ f = [in EXCEPT ![p] = c]
  /\ t \in [InSlots -> InEntries]
  /\ S \subseteq InSlots
  /\ \A u \in InSlots \ S : SameEntry(t[u], inode[u])
  /\ \A s \in S : inode[s].gate \in {p, InNone}
  /\ in[p].pc \in Locking => in[p].ip \in S

\* W differs from V only at inodes that an entry of S holds.
Changes(V, W, S) == \A i \in InInos : W[i] = V[i] \/ \E s \in S : inode[s].ino = i

LEMMA EntriesKept ==
  ASSUME InBase, InSingle, NEW T, Exactly(T), NEW p \in InProcs, NEW c, NEW S, NEW t, NEW f,
         Moves(p, c, S, t, f), NEW U, Changes(T, U, S), NEW u \in InSlots \ S
  PROVE  EntryHolds(U, t[u], u, f)
<1>1. EntryHolds(T, inode[u], u, in)
  BY DEF Exactly, ExactlyAt
<1>2. SameEntry(t[u], inode[u])
  BY DEF Moves
<1>3. inode[u] \in InEntries /\ in \in [InProcs -> InCalls]
  BY DEF InBase, InTyped
<1>4. ASSUME inode[u].gate # InNone PROVE f[inode[u].gate] = in[inode[u].gate]
  <2>1. inode[u].gate \in InProcs
    BY <1>3, <1>4 DEF InEntries
  <2>2. inode[u].gate # p
    BY <1>1, <1>4 DEF EntryHolds, Moves
  <2> QED BY <1>3, <2>1, <2>2 DEF Moves
<1>5. ASSUME inode[u].ino # 0 PROVE U[inode[u].ino] = T[inode[u].ino]
  <2>1. inode[u].ino \in InInos
    BY <1>3, <1>5 DEF InEntries
  <2>2. \A s \in S : s \in InSlots /\ s # u
    BY DEF Moves
  <2>3. ~ \E s \in S : inode[s].ino = inode[u].ino
    BY <1>5, <2>2 DEF InSingle
  <2> QED BY <2>1, <2>3 DEF Changes
<1> QED BY <1>1, <1>2, <1>4, <1>5 DEF EntryHolds, SameEntry, Is

LEMMA DiskKept ==
  ASSUME InBase, InSingle, NEW T, Exactly(T), NEW p \in InProcs, NEW c, NEW S, NEW t, NEW f,
         Moves(p, c, S, t, f), NEW U, Changes(T, U, S), NEW d, Changes(dinode, d, S),
         \A s \in S : inode[s].ino \in InInos =>
           \/ d[inode[s].ino] = U[inode[s].ino]
           \/ t[s].ino = inode[s].ino /\ Dirty(t[s], f)
  PROVE  OnDisk(U, d, t, f)
<1> SUFFICES ASSUME NEW i \in InInos
             PROVE  d[i] = U[i] \/ \E s \in InSlots : t[s].ino = i /\ Dirty(t[s], f)
  BY DEF OnDisk
<1>0. S \subseteq InSlots
  BY DEF Moves
<1>1. CASE \E s \in S : inode[s].ino = i
  BY <1>0, <1>1
<1>2. CASE ~ \E s \in S : inode[s].ino = i
  <2>1. d[i] = dinode[i] /\ U[i] = T[i]
    BY <1>2 DEF Changes
  <2>2. dinode[i] = T[i] \/ \E s \in InSlots : inode[s].ino = i /\ Dirty(inode[s], in)
    BY DEF Exactly, ExactlyAt, OnDisk
  <2>3. ASSUME NEW u \in InSlots, inode[u].ino = i, Dirty(inode[u], in)
        PROVE  t[u].ino = i /\ Dirty(t[u], f)
    <3>1. u \notin S
      BY <1>2, <2>3
    <3>2. SameEntry(t[u], inode[u])
      BY <3>1 DEF Moves
    <3>3. inode[u] \in InEntries /\ in \in [InProcs -> InCalls]
      BY DEF InBase, InTyped
    <3>4. EntryHolds(T, inode[u], u, in)
      BY DEF Exactly, ExactlyAt
    <3>5. ASSUME inode[u].gate # InNone PROVE f[inode[u].gate] = in[inode[u].gate]
      <4>1. inode[u].gate \in InProcs
        BY <3>3, <3>5 DEF InEntries
      <4>2. inode[u].gate # p
        BY <3>1, <3>4, <3>5 DEF EntryHolds, Moves
      <4> QED BY <3>3, <4>1, <4>2 DEF Moves
    <3> QED BY <2>3, <3>2, <3>5 DEF Dirty, SameEntry
  <2> QED BY <2>1, <2>2, <2>3
<1> QED BY <1>1, <1>2

LEMMA LocksKept ==
  ASSUME InBase, NEW T, Exactly(T), NEW p \in InProcs, NEW c, NEW S, NEW t, NEW f,
         Moves(p, c, S, t, f), NEW q \in InProcs, q # p, f[q].pc \in Locking
  PROVE  LockHolds(q, f[q], t[f[q].ip])
<1>1. f[q] = in[q]
  BY DEF Moves, InBase, InTyped
<1>2. LockHolds(q, in[q], inode[in[q].ip])
  BY <1>1 DEF Exactly, ExactlyAt
<1>3. in[q].ip \in InSlots
  BY <1>1 DEF InBase, InTyped, CallWell
<1>4. in[q].ip \notin S
  <2>1. q # InNone
    BY InAssumption
  <2> QED BY <1>2, <2>1 DEF LockHolds, Moves
<1>5. SameEntry(t[in[q].ip], inode[in[q].ip])
  BY <1>3, <1>4 DEF Moves
<1> QED BY <1>1, <1>2, <1>5 DEF LockHolds, SameEntry, Is

\* What the others know stays true.
OthersHold(T, p, nm, dg) == \A q \in InProcs \ {p} : CallHolds(T, q, in[q], nm, dg)

LEMMA ExactMoves ==
  ASSUME InBase, InSingle, NEW T, Exactly(T), NEW p \in InProcs, NEW c, NEW S, NEW t, NEW f,
         Moves(p, c, S, t, f), NEW U \in [InInos -> InFiles], Changes(T, U, S),
         NEW d, Changes(dinode, d, S), NEW nm, NEW dg, NEW n,
         \A s \in S : EntryHolds(U, t[s], s, f),
         \A s \in S : inode[s].ino \in InInos =>
           \/ d[inode[s].ino] = U[inode[s].ino]
           \/ t[s].ino = inode[s].ino /\ Dirty(t[s], f),
         c.pc \in Locking => LockHolds(p, c, t[c.ip]),
         CallHolds(U, p, c, nm, dg), OthersHold(U, p, nm, dg),
         Linked(U, nm, f), Totalled(U, n, f)
  PROVE  ExactlyAt(U, t, d, f, nm, dg, n)
<1>1. f[p] = c /\ \A q \in InProcs \ {p} : f[q] = in[q]
  BY DEF Moves, InBase, InTyped
<1>2. \A s \in InSlots : EntryHolds(U, t[s], s, f)
  BY EntriesKept
<1>3. OnDisk(U, d, t, f)
  BY DiskKept
<1>4. \A q \in InProcs : f[q].pc \in Locking => LockHolds(q, f[q], t[f[q].ip])
  BY <1>1, LocksKept
<1>5. \A q \in InProcs : CallHolds(U, q, f[q], nm, dg)
  BY <1>1 DEF OthersHold
<1> QED BY <1>2, <1>3, <1>4, <1>5 DEF ExactlyAt

\* p goes on, and no entry changes.
LEMMA ExactGoes ==
  ASSUME InBase, InSingle, NEW T, Exactly(T), NEW p \in InProcs, NEW c, Goes(p, c),
         in[p].pc \notin Locking, c.pc \notin Locking, dinode' = dinode,
         CallHolds(T, p, c, name', dirGate'), OthersHold(T, p, name', dirGate'),
         Linked(T, name', in'), Totalled(T, sb'.tinode, in')
  PROVE  Exactly(T)'
<1>1. PICK t : t = inode'
  OBVIOUS
<1>2. PICK f : f = in'
  OBVIOUS
<1>3. PICK nm : nm = name'
  OBVIOUS
<1>4. PICK dg : dg = dirGate'
  OBVIOUS
<1>5. PICK n : n = sb'.tinode
  OBVIOUS
<1>6. PICK S : S = {}
  OBVIOUS
<1>7. Moves(p, c, S, t, f)
  BY <1>1, <1>2, <1>6 DEF Moves, Goes
<1>8. T \in [InInos -> InFiles] /\ Changes(T, T, S) /\ Changes(dinode, dinode, S)
  BY DEF Exactly, ExactlyAt, Changes
<1>9. ExactlyAt(T, t, dinode, f, nm, dg, n)
  BY <1>2, <1>3, <1>4, <1>5, <1>6, <1>7, <1>8, ExactMoves
<1> QED BY <1>1, <1>2, <1>3, <1>4, <1>5, <1>9 DEF Exactly

\* p goes on, and the entry s becomes e.
LEMMA ExactEnds ==
  ASSUME InBase, InSingle, NEW T, Exactly(T), NEW p \in InProcs, NEW c, NEW s \in InSlots, NEW e,
         Ends(p, c, s, e), inode[s].gate \in {p, InNone}, in[p].pc \in Locking => in[p].ip = s,
         NEW U \in [InInos -> InFiles],
         \A k \in InInos : k # inode[s].ino => U[k] = T[k] /\ dinode'[k] = dinode[k],
         e.gate \in {p, InNone}, e.gate = InNone /\ e.refc = 0 => ~ e.mod,
         e.gate = p => c.pc \in Locking,
         e.ino # 0 /\ ~ (e.gate = p /\ c.pc = "icopydm") => Is(e, U[e.ino]),
         inode[s].ino \in InInos =>
           \/ dinode'[inode[s].ino] = U[inode[s].ino]
           \/ e.ino = inode[s].ino /\ (e.mod \/ (e.gate = p /\ c.pc = "icopymd")),
         c.pc \in Locking => c.ip = s /\ LockHolds(p, c, e),
         CallHolds(U, p, c, name', dirGate'), OthersHold(U, p, name', dirGate'),
         Linked(U, name', in'), Totalled(U, sb'.tinode, in')
  PROVE  Exactly(U)'
<1>1. PICK t : t = inode'
  OBVIOUS
<1>2. PICK f : f = in'
  OBVIOUS
<1>3. PICK nm : nm = name'
  OBVIOUS
<1>4. PICK dg : dg = dirGate'
  OBVIOUS
<1>5. PICK n : n = sb'.tinode
  OBVIOUS
<1>6. PICK S : S = {s}
  OBVIOUS
<1>7. PICK d : d = dinode'
  OBVIOUS
<1>8. f = [in EXCEPT ![p] = c] /\ t \in [InSlots -> InEntries] /\ SameEntry(t[s], e)
      /\ \A u \in InSlots : u # s => SameEntry(t[u], inode[u])
  BY <1>1, <1>2 DEF Ends, Holds
<1>9. Moves(p, c, S, t, f)
  BY <1>6, <1>8 DEF Moves
<1>10. Changes(T, U, S) /\ Changes(dinode, d, S)
  BY <1>6, <1>7 DEF Changes
<1>11. f[p] = c /\ p # InNone
  BY <1>8, InAssumption DEF InBase, InTyped
<1>12. EntryHolds(U, t[s], s, f)
  BY <1>8, <1>11 DEF EntryHolds, SameEntry, Is
<1>13. inode[s].ino \in InInos => \/ d[inode[s].ino] = U[inode[s].ino]
                                  \/ t[s].ino = inode[s].ino /\ Dirty(t[s], f)
  BY <1>7, <1>8, <1>11 DEF Dirty, SameEntry
<1>14. c.pc \in Locking => LockHolds(p, c, t[c.ip])
  BY <1>8 DEF LockHolds, SameEntry, Is
<1>15. ExactlyAt(U, t, d, f, nm, dg, n)
  <2>1. \A u \in S : u = s
    BY <1>6
  <2>2. /\ \A u \in S : EntryHolds(U, t[u], u, f)
        /\ \A u \in S : inode[u].ino \in InInos =>
             \/ d[inode[u].ino] = U[inode[u].ino]
             \/ t[u].ino = inode[u].ino /\ Dirty(t[u], f)
    BY <1>12, <1>13, <2>1
  <2>3. CallHolds(U, p, c, nm, dg) /\ OthersHold(U, p, nm, dg) /\ Linked(U, nm, f) /\ Totalled(U, n, f)
    BY <1>2, <1>3, <1>4, <1>5
  <2> QED BY <1>9, <1>10, <1>14, <2>2, <2>3, ExactMoves
<1> QED BY <1>1, <1>2, <1>3, <1>4, <1>5, <1>7, <1>15 DEF Exactly

LEMMA FileIs ==
  ASSUME NEW n \in Int
  PROVE  /\ \A m \in BOOLEAN : \E v \in InFiles : v = File(m, n) /\ v.mode = m /\ v.nlink = n
         /\ \E v \in InFiles : v = File(TRUE, n) /\ v.mode = TRUE /\ v.nlink = n
         /\ \E v \in InFiles : v = File(FALSE, n) /\ v.mode = FALSE /\ v.nlink = n
<1>1. ASSUME NEW m \in BOOLEAN PROVE \E v \in InFiles : v = File(m, n) /\ v.mode = m /\ v.nlink = n
  <2>1. PICK v : v = File(m, n)
    OBVIOUS
  <2>2. v \in InFiles /\ v.mode = m /\ v.nlink = n
    BY <2>1 DEF File, InFiles
  <2> QED BY <2>1, <2>2
<1>2. PICK x \in BOOLEAN : x = TRUE
  OBVIOUS
<1>3. \E v \in InFiles : v = File(x, n) /\ v.mode = x /\ v.nlink = n
  BY <1>1
<1>4. PICK y \in BOOLEAN : y = FALSE
  OBVIOUS
<1>5. \E v \in InFiles : v = File(y, n) /\ v.mode = y /\ v.nlink = n
  BY <1>1
<1>6. \E v \in InFiles : v = File(TRUE, n) /\ v.mode = TRUE /\ v.nlink = n
  BY <1>2, <1>3, Zenon
<1>7. \E v \in InFiles : v = File(FALSE, n) /\ v.mode = FALSE /\ v.nlink = n
  BY <1>4, <1>5, Zenon
<1> QED BY <1>1, <1>6, <1>7

LEMMA FilesSame ==
  ASSUME NEW v \in InFiles, NEW w \in InFiles, v.mode = w.mode, v.nlink = w.nlink
  PROVE  v = w
<1>1. v = [mode |-> v.mode, nlink |-> v.nlink]
  BY DEF InFiles
<1>2. w = [mode |-> w.mode, nlink |-> w.nlink]
  BY DEF InFiles
<1> QED BY <1>1, <1>2, Zenon

LEMMA RefcIs ==
  ASSUME InBase, NEW s \in InSlots
  PROVE  inode[s] \in InEntries /\ inode[s].refc \in Nat
<1>1. Cardinality({p \in InProcs : RefersTo(in[p], s)}) \in Nat
  BY InAssumption, FS_Subset, FS_CardinalityType
<1> QED BY <1>1 DEF InBase, InTyped, Counted

-----------------------------------------------------------------------------
(* The total.                                                              *)

Owed(c) == IF Owes(c) THEN 1 ELSE 0
FreeAs(v) == IF v.mode THEN 0 ELSE 1

\* n is m after an inode w has become v and a call d has become c.
Becomes(n, m, v, w, c, d) == n = m + FreeAs(v) - FreeAs(w) - Owed(c) + Owed(d)

LEMMA OwesOn ==
  ASSUME InBase, NEW p \in InProcs, NEW c, NEW f, f = [in EXCEPT ![p] = c]
  PROVE  /\ Cardinality({q \in InProcs : Owes(in[q])}) \in Nat
         /\ Cardinality({q \in InProcs : Owes(f[q])})
              = Cardinality({q \in InProcs : Owes(in[q])}) + Owed(c) - Owed(in[p])
<1> DEFINE S == {q \in InProcs : Owes(in[q])}
           R == {q \in InProcs : Owes(f[q])}
<1>1. f[p] = c /\ \A q \in InProcs : q # p => f[q] = in[q]
  BY DEF InBase, InTyped
<1>2. IsFiniteSet(S) /\ Cardinality(S) \in Nat
  BY InAssumption, FS_Subset, FS_CardinalityType
<1>3. (p \in S <=> Owes(in[p])) /\ (p \in R <=> Owes(c))
  BY <1>1
<1>4. R = IF p \in R THEN S \cup {p} ELSE S \ {p}
  BY <1>1
<1> HIDE DEF S, R
<1>5. CASE p \in R
  <2>1. Cardinality(R) = IF p \in S THEN Cardinality(S) ELSE Cardinality(S) + 1
    BY <1>2, <1>4, <1>5, FS_AddElement
  <2> QED BY <1>2, <1>3, <1>5, <2>1 DEF Owed, S, R
<1>6. CASE p \notin R
  <2>1. Cardinality(R) = IF p \in S THEN Cardinality(S) - 1 ELSE Cardinality(S)
    BY <1>2, <1>4, <1>6, FS_RemoveElement
  <2> QED BY <1>2, <1>3, <1>6, <2>1 DEF Owed, S, R
<1> QED BY <1>5, <1>6

LEMMA FreeOn ==
  ASSUME NEW T \in [InInos -> InFiles], NEW i \in InInos, NEW v \in InFiles, NEW U, U = [T EXCEPT ![i] = v]
  PROVE  /\ Cardinality({k \in InInos : ~ T[k].mode}) \in Nat
         /\ Cardinality({k \in InInos : ~ U[k].mode})
              = Cardinality({k \in InInos : ~ T[k].mode}) + FreeAs(v) - FreeAs(T[i])
<1> DEFINE S == {k \in InInos : ~ T[k].mode}
           R == {k \in InInos : ~ U[k].mode}
<1>1. U[i] = v /\ \A k \in InInos : k # i => U[k] = T[k]
  OBVIOUS
<1>2. IsFiniteSet(S) /\ Cardinality(S) \in Nat
  BY InAssumption, FS_Subset, FS_CardinalityType
<1>3. (i \in S <=> ~ T[i].mode) /\ (i \in R <=> ~ v.mode)
  BY <1>1
<1>4. R = IF i \in R THEN S \cup {i} ELSE S \ {i}
  BY <1>1
<1> HIDE DEF S, R
<1>5. CASE i \in R
  <2>1. Cardinality(R) = IF i \in S THEN Cardinality(S) ELSE Cardinality(S) + 1
    BY <1>2, <1>4, <1>5, FS_AddElement
  <2> QED BY <1>2, <1>3, <1>5, <2>1 DEF FreeAs, S, R
<1>6. CASE i \notin R
  <2>1. Cardinality(R) = IF i \in S THEN Cardinality(S) - 1 ELSE Cardinality(S)
    BY <1>2, <1>4, <1>6, FS_RemoveElement
  <2> QED BY <1>2, <1>3, <1>6, <2>1 DEF FreeAs, S, R
<1> QED BY <1>5, <1>6

LEMMA TotalStays ==
  ASSUME InBase, NEW T, Totalled(T, sb.tinode, in), T \in [InInos -> InFiles],
         NEW p \in InProcs, NEW c, NEW f, f = [in EXCEPT ![p] = c],
         NEW n, n = sb.tinode - Owed(c) + Owed(in[p])
  PROVE  Totalled(T, n, f)
<1>1. PICK a \in Nat : a = Cardinality({q \in InProcs : Owes(in[q])})
  BY OwesOn
<1>2. PICK b : b = Cardinality({q \in InProcs : Owes(f[q])})
  OBVIOUS
<1>3. PICK k \in Nat : k = Cardinality({i \in InInos : ~ T[i].mode})
  BY InAssumption, FS_Subset, FS_CardinalityType
<1>4. PICK x \in {0, 1}, y \in {0, 1} : x = Owed(c) /\ y = Owed(in[p])
  BY DEF Owed
<1>5. b = a + x - y
  BY <1>1, <1>2, <1>4, OwesOn
<1>6. sb.tinode = k - a
  BY <1>1, <1>3 DEF Totalled
<1>7. n = k - b
  BY <1>4, <1>5, <1>6
<1> QED BY <1>2, <1>3, <1>7 DEF Totalled

LEMMA TotalOn ==
  ASSUME InBase, NEW T \in [InInos -> InFiles], Totalled(T, sb.tinode, in),
         NEW p \in InProcs, NEW c, NEW f, f = [in EXCEPT ![p] = c],
         NEW i \in InInos, NEW v \in InFiles, NEW U, U = [T EXCEPT ![i] = v],
         NEW n, Becomes(n, sb.tinode, v, T[i], c, in[p])
  PROVE  Totalled(U, n, f)
<1>1. PICK a \in Nat : a = Cardinality({q \in InProcs : Owes(in[q])})
  BY OwesOn
<1>2. PICK b : b = Cardinality({q \in InProcs : Owes(f[q])})
  OBVIOUS
<1>3. PICK k \in Nat : k = Cardinality({j \in InInos : ~ T[j].mode})
  BY InAssumption, FS_Subset, FS_CardinalityType
<1>4. PICK x \in {0, 1}, y \in {0, 1} : x = Owed(c) /\ y = Owed(in[p])
  BY DEF Owed
<1>5. b = a + x - y
  BY <1>1, <1>2, <1>4, OwesOn
<1>6. sb.tinode = k - a
  BY <1>1, <1>3 DEF Totalled
<1>7. PICK h : h = Cardinality({j \in InInos : ~ U[j].mode})
  OBVIOUS
<1>8. PICK w \in {0, 1}, z \in {0, 1} : w = FreeAs(v) /\ z = FreeAs(T[i])
  BY DEF FreeAs
<1>9. h = k + w - z
  BY <1>3, <1>7, <1>8, FreeOn
<1>10. n = h - b
  <2>1. n = sb.tinode + w - z - x + y
    BY <1>4, <1>8 DEF Becomes
  <2> QED BY <1>4, <1>5, <1>6, <1>8, <1>9, <2>1
<1> QED BY <1>2, <1>7, <1>10 DEF Totalled

-----------------------------------------------------------------------------
(* The links.                                                              *)

LEMMA LinkedStays ==
  ASSUME InBase, NEW T, NEW nm, Linked(T, nm, in), NEW p \in InProcs, NEW c, NEW f,
         f = [in EXCEPT ![p] = c], \A i \in InInos : Unlinking(c, i) <=> Unlinking(in[p], i)
  PROVE  Linked(T, nm, f)
<1> SUFFICES ASSUME NEW i \in InInos PROVE LinkedAt(T[i], nm, f, i)
  BY DEF Linked
<1>1. LinkedAt(T[i], nm, in, i)
  BY DEF Linked
<1>2. f[p] = c /\ \A q \in InProcs : q # p => f[q] = in[q]
  BY DEF InBase, InTyped
<1>3. \A q \in InProcs : Unlinking(f[q], i) <=> Unlinking(in[q], i)
  BY <1>2
<1> QED BY <1>1, <1>3 DEF LinkedAt

\* The inode i has no link any more, or had none.
LEMMA LinkedGone ==
  ASSUME InBase, NEW T \in [InInos -> InFiles], NEW nm, Linked(T, nm, in), NEW p \in InProcs, NEW c, NEW f,
         f = [in EXCEPT ![p] = c], \A k \in InInos : ~ Unlinking(c, k),
         NEW i \in InInos, NEW v, v.nlink = 0, NEW U, U = [T EXCEPT ![i] = v],
         Unlinking(in[p], i) \/ (T[i].nlink = 0 /\ in[p].op # "unlink")
  PROVE  Linked(U, nm, f)
<1> SUFFICES ASSUME NEW k \in InInos PROVE LinkedAt(U[k], nm, f, k)
  BY DEF Linked
<1>1. LinkedAt(T[k], nm, in, k)
  BY DEF Linked
<1>2. f[p] = c /\ \A q \in InProcs : q # p => f[q] = in[q]
  BY DEF InBase, InTyped
<1>3. CASE k # i
  <2>1. U[k] = T[k]
    BY <1>3
  <2>2. ~ Unlinking(in[p], k) /\ ~ Unlinking(c, k)
    BY <1>3 DEF Unlinking
  <2>3. \A q \in InProcs : Unlinking(f[q], k) <=> Unlinking(in[q], k)
    BY <1>2, <2>2
  <2> QED BY <1>1, <2>1, <2>3 DEF LinkedAt
<1>4. CASE k = i
  <2>1. U[k] = v
    BY <1>4
  <2>2. \A n \in AllNames : nm[n] # k
    BY <1>1, <1>4 DEF LinkedAt
  <2>3. \A q \in InProcs : q # p => ~ Unlinking(in[q], k)
    BY <1>1, <1>4 DEF LinkedAt
  <2>4. \A q \in InProcs : ~ Unlinking(f[q], k)
    BY <1>2, <2>3
  <2> QED BY <2>1, <2>2, <2>4 DEF LinkedAt
<1> QED BY <1>3, <1>4

\* do_unlink clears the name n.
LEMMA LinkedUnlinks ==
  ASSUME InBase, NEW T, Linked(T, name, in), NEW p \in InProcs, NEW c, NEW f,
         f = [in EXCEPT ![p] = c], in[p].op # "unlink", NEW n \in AllNames, name[n] \in InInos,
         c.op = "unlink", c.ino = name[n], NEW nm, nm = [name EXCEPT ![n] = 0]
  PROVE  Linked(T, nm, f)
<1> SUFFICES ASSUME NEW i \in InInos PROVE LinkedAt(T[i], nm, f, i)
  BY DEF Linked
<1>1. LinkedAt(T[i], name, in, i)
  BY DEF Linked
<1>2. f[p] = c /\ \A q \in InProcs : q # p => f[q] = in[q]
  BY DEF InBase, InTyped
<1>3. nm[n] = 0 /\ \A m \in AllNames : m # n => nm[m] = name[m]
  BY DEF InBase, InTyped
<1>4. i # 0
  BY InAssumption
<1>5. ~ Unlinking(in[p], i) /\ (Unlinking(c, i) <=> name[n] = i)
  BY DEF Unlinking
<1>6. CASE name[n] = i
  <2>1. \A q \in InProcs : ~ Unlinking(in[q], i)
    BY <1>1, <1>6 DEF LinkedAt
  <2>2. \A m \in AllNames : nm[m] # i
    BY <1>1, <1>3, <1>4, <1>6 DEF LinkedAt
  <2>3. \A q \in InProcs : Unlinking(f[q], i) <=> q = p
    BY <1>2, <1>5, <1>6, <2>1
  <2>4. T[i].nlink = 1
    BY <1>1, <1>6 DEF LinkedAt
  <2> QED BY <1>1, <2>2, <2>3, <2>4 DEF LinkedAt
<1>7. CASE name[n] # i
  <2>1. \A m \in AllNames : nm[m] = i <=> name[m] = i
    BY <1>3, <1>4, <1>7
  <2>2. \A q \in InProcs : Unlinking(f[q], i) <=> Unlinking(in[q], i)
    BY <1>2, <1>5, <1>7
  <2> QED BY <1>1, <2>1, <2>2 DEF LinkedAt
<1> QED BY <1>6, <1>7

\* imake gives the inode i the name n.
LEMMA LinkedMakes ==
  ASSUME InBase, NEW T \in [InInos -> InFiles], Linked(T, name, in), NEW p \in InProcs, NEW c, NEW f,
         f = [in EXCEPT ![p] = c], in[p].op # "unlink", c.op # "unlink",
         NEW n \in AllNames, name[n] = 0, NEW i \in InInos, T[i].nlink = 0,
         NEW v, v.mode = TRUE, v.nlink = 1, NEW U, U = [T EXCEPT ![i] = v],
         NEW nm, nm = [name EXCEPT ![n] = i]
  PROVE  Linked(U, nm, f)
<1> SUFFICES ASSUME NEW k \in InInos PROVE LinkedAt(U[k], nm, f, k)
  BY DEF Linked
<1>1. LinkedAt(T[k], name, in, k)
  BY DEF Linked
<1>2. f[p] = c /\ \A q \in InProcs : q # p => f[q] = in[q]
  BY DEF InBase, InTyped
<1>3. nm[n] = i /\ \A m \in AllNames : m # n => nm[m] = name[m]
  BY DEF InBase, InTyped
<1>4. k # 0
  BY InAssumption
<1>5. \A q \in InProcs : Unlinking(f[q], k) <=> Unlinking(in[q], k)
  BY <1>2 DEF Unlinking
<1>6. CASE k = i
  <2>1. U[k] = v
    BY <1>6
  <2>2. /\ \A m \in AllNames : name[m] # k
        /\ \A q \in InProcs : ~ Unlinking(in[q], k)
    BY <1>1, <1>6 DEF LinkedAt
  <2>3. \A m \in AllNames : nm[m] = k <=> m = n
    BY <1>3, <1>6, <2>2
  <2> QED BY <1>5, <2>1, <2>2, <2>3 DEF LinkedAt
<1>7. CASE k # i
  <2>1. U[k] = T[k]
    BY <1>7
  <2>2. \A m \in AllNames : nm[m] = k <=> name[m] = k
    BY <1>3, <1>4, <1>7
  <2> QED BY <1>1, <1>5, <2>1, <2>2 DEF LinkedAt
<1> QED BY <1>6, <1>7

-----------------------------------------------------------------------------
(* What the others know.                                                   *)

LEMMA OthersStay ==
  ASSUME NEW T, Exactly(T), NEW p \in InProcs
  PROVE  OthersHold(T, p, name, dirGate)
BY DEF Exactly, ExactlyAt, OthersHold

LEMMA OthersKept ==
  ASSUME NEW T, Exactly(T), NEW p \in InProcs, NEW U, NEW nm, NEW dg,
         \A q \in InProcs \ {p} :
           /\ in[q].pc = "open" => U[in[q].ino].mode
           /\ \A n \in AllNames : in[q].op = "open" /\ <<q, n>> \in InOpens /\ name[n] = in[q].ino
                                  => nm[n] = name[n]
           /\ in[q].op = "creat" => /\ dg[InDir[in[q].name]] = dirGate[InDir[in[q].name]]
                                    /\ name[in[q].name] = 0 => nm[in[q].name] = 0
  PROVE  OthersHold(U, p, nm, dg)
<1> SUFFICES ASSUME NEW q \in InProcs \ {p} PROVE CallHolds(U, q, in[q], nm, dg)
  BY DEF OthersHold
<1>1. CallHolds(T, q, in[q], name, dirGate)
  BY DEF Exactly, ExactlyAt
<1>2. in[q].op = "open" => \E n \in AllNames : <<q, n>> \in InOpens /\ nm[n] = in[q].ino
  BY <1>1 DEF CallHolds
<1> QED BY <1>1, <1>2 DEF CallHolds

-----------------------------------------------------------------------------
(* The steps that change no entry.                                         *)

\* The entry s is the only one with its inode, so it is what the disk waits for.
LEMMA DiskAt ==
  ASSUME InSingle, NEW T, Exactly(T), NEW s \in InSlots, inode[s].ino \in InInos
  PROVE  dinode[inode[s].ino] = T[inode[s].ino] \/ Dirty(inode[s], in)
<1>1. \/ dinode[inode[s].ino] = T[inode[s].ino]
      \/ \E u \in InSlots : inode[u].ino = inode[s].ino /\ Dirty(inode[u], in)
  BY DEF Exactly, ExactlyAt, OnDisk
<1>2. inode[s].ino # 0
  BY InAssumption
<1>3. \A u \in InSlots : inode[u].ino = inode[s].ino => u = s
  BY <1>2 DEF InSingle
<1> QED BY <1>1, <1>3

LEMMA CreatsAlone ==
  ASSUME InOneDirectory, InBase, NEW T, Exactly(T), NEW p \in InProcs, NEW q \in InProcs,
         in[p].op = "creat", in[q].op = "creat"
  PROVE  p = q
<1>1. in[p].name \in AllNames /\ in[q].name \in AllNames
  BY DEF InBase, InTyped, CallWell
<1>2. InDir[in[p].name] = InDir[in[q].name]
  BY <1>1 DEF InOneDirectory
<1>3. dirGate[InDir[in[p].name]] = p /\ dirGate[InDir[in[q].name]] = q
  BY DEF Exactly, ExactlyAt, CallHolds
<1> QED BY <1>2, <1>3

LEMMA CallNow ==
  ASSUME InBase, NEW T, Exactly(T), NEW p \in InProcs
  PROVE  /\ T \in [InInos -> InFiles] /\ CallHolds(T, p, in[p], name, dirGate)
         /\ Linked(T, name, in) /\ Totalled(T, sb.tinode, in)
         /\ \A s \in InSlots : EntryHolds(T, inode[s], s, in)
         /\ in[p].pc \in Locking => LockHolds(p, in[p], inode[in[p].ip])
BY DEF Exactly, ExactlyAt

LEMMA CallStays ==
  ASSUME NEW T, NEW U, NEW p, NEW c, NEW d, NEW nm, NEW dg, CallHolds(T, p, d, nm, dg),
         c.op = d.op, c.name = d.name, c.op = "open" => c.ino = d.ino,
         c.pc # "open", ~ (d.pc = "icopymd" /\ d.back = "open")
  PROVE  CallHolds(U, p, c, nm, dg)
BY DEF CallHolds

\* p goes on with its call.
LEMMA ExactSame ==
  ASSUME InBase, InSingle, NEW T, Exactly(T), NEW p \in InProcs, NEW c, Goes(p, c),
         in[p].pc \notin Locking, c.pc \notin Locking \cup {"open"}, c.op = in[p].op, c.name = in[p].name,
         c.op \in {"open", "unlink"} => c.ino = in[p].ino,
         UNCHANGED <<dinode, name, dirGate>>, sb'.tinode = sb.tinode - Owed(c) + Owed(in[p])
  PROVE  Exactly(T)'
<1>1. PICK f : f = in'
  OBVIOUS
<1>2. f = [in EXCEPT ![p] = c]
  BY <1>1 DEF Goes
<1>3. PICK n : n = sb'.tinode
  OBVIOUS
<1>4. CallHolds(T, p, c, name, dirGate)
  <2>1. CallHolds(T, p, in[p], name, dirGate)
    BY CallNow
  <2>2. in[p].pc # "icopymd"
    BY DEF Locking
  <2> QED BY <2>1, <2>2, CallStays
<1>5. OthersHold(T, p, name, dirGate)
  BY OthersStay
<1>6. Linked(T, name, f)
  <2>1. \A i \in InInos : Unlinking(c, i) <=> Unlinking(in[p], i)
    BY DEF Unlinking
  <2> QED BY <1>2, <2>1, CallNow, LinkedStays
<1>7. Totalled(T, n, f)
  BY <1>2, <1>3, CallNow, TotalStays
<1> QED BY <1>1, <1>3, <1>4, <1>5, <1>6, <1>7, ExactGoes

\* p enters the kernel.
LEMMA ExactEnters ==
  ASSUME InBase, InSingle, NEW T, Exactly(T), NEW p \in InProcs, NEW c, Goes(p, c),
         in[p].pc = "idle", c.pc \in {"iattach", "ialloc"}, c.op = "creat" => c.pc = "ialloc",
         UNCHANGED <<dinode, sb>>,
         CallHolds(T, p, c, name', dirGate'), OthersHold(T, p, name', dirGate'), Linked(T, name', in')
  PROVE  Exactly(T)'
<1>1. PICK f : f = in'
  OBVIOUS
<1>2. f = [in EXCEPT ![p] = c]
  BY <1>1 DEF Goes
<1>3. Owed(in[p]) = 0 /\ Owed(c) = 0
  <2>1. in[p].op # "creat"
    BY DEF InBase, InTyped, CallWell
  <2> QED BY <2>1 DEF Owed, Owes, Looking
<1>4. sb.tinode \in Int
  BY DEF InBase, InTyped
<1>5. Totalled(T, sb.tinode, f)
  <2>1. PICK n : n = sb.tinode
    OBVIOUS
  <2>2. n = sb.tinode - Owed(c) + Owed(in[p])
    BY <1>3, <1>4, <2>1
  <2>3. Totalled(T, n, f)
    BY <1>2, <2>2, CallNow, TotalStays
  <2> QED BY <2>1, <2>3
<1>6. in[p].pc \notin Locking /\ c.pc \notin Locking
  BY DEF Locking
<1>7. dinode' = dinode /\ Totalled(T, sb'.tinode, in')
  BY <1>1, <1>5
<1> QED BY <1>6, <1>7, ExactGoes

LEMMA IdleHas ==
  ASSUME InBase, NEW p \in InProcs, in[p].pc = "idle"
  PROVE  in[p].op = "none"
BY DEF InBase, InTyped, CallWell, InCalls, Looking

LEMMA ExactOpen ==
  ASSUME InBase, InSingle, NEW T, Exactly(T), NEW p \in InProcs, NEW n \in AllNames, open(p, n)
  PROVE  Exactly(T)'
<1>1. /\ in[p].pc = "idle" /\ <<p, n>> \in InOpens /\ name[n] \in InInos
      /\ Goes(p, Looks("open", name[n])) /\ Unmoved
  BY BaseOpen
<1>2. PICK c : c = Looks("open", name[n])
  OBVIOUS
<1>3. c.pc = "iattach" /\ c.op = "open" /\ c.ino = name[n]
  BY <1>2 DEF Looks, Call
<1>4. CallHolds(T, p, c, name, dirGate)
  BY <1>1, <1>3 DEF CallHolds
<1>5. PICK f : f = in'
  OBVIOUS
<1>6. Linked(T, name, f)
  <2>1. \A i \in InInos : Unlinking(c, i) <=> Unlinking(in[p], i)
    BY <1>1, <1>3, IdleHas DEF Unlinking
  <2>2. f = [in EXCEPT ![p] = c]
    BY <1>1, <1>2, <1>5 DEF Goes
  <2> QED BY <2>1, <2>2, CallNow, LinkedStays
<1>7. OthersHold(T, p, name, dirGate)
  BY OthersStay
<1>8. UNCHANGED <<dinode, sb, name, dirGate>>
  BY <1>1 DEF Unmoved
<1> QED BY <1>1, <1>2, <1>3, <1>4, <1>5, <1>6, <1>7, <1>8, ExactEnters

LEMMA ExactCreat ==
  ASSUME InBase, InSingle, NEW T, Exactly(T), NEW p \in InProcs, NEW n \in AllNames, creat(p, n)
  PROVE  Exactly(T)'
<1>1. /\ in[p].pc = "idle" /\ name[n] = 0 /\ dirGate[InDir[n]] = InNone
      /\ Goes(p, Call("ialloc", "creat", n, 0, 0, <<>>, TRUE, "idle"))
      /\ dirGate' = [dirGate EXCEPT ![InDir[n]] = p] /\ UNCHANGED <<dinode, sb, name, overflow>>
  BY BaseCreat
<1>2. PICK c : c = Call("ialloc", "creat", n, 0, 0, <<>>, TRUE, "idle")
  OBVIOUS
<1>3. c.pc = "ialloc" /\ c.op = "creat" /\ c.name = n
  BY <1>2 DEF Call
<1>4. PICK dg : dg = dirGate'
  OBVIOUS
<1>5. dg[InDir[n]] = p /\ \A d \in Dirs : d # InDir[n] => dg[d] = dirGate[d]
  <2>1. InDir[n] \in Dirs
    BY DEF AllNames, Dirs, Range
  <2> QED BY <1>1, <1>4, <2>1 DEF InBase, InTyped
<1>6. CallHolds(T, p, c, name, dg)
  BY <1>1, <1>3, <1>5 DEF CallHolds
<1>7. PICK f : f = in'
  OBVIOUS
<1>8. Linked(T, name, f)
  <2>1. \A i \in InInos : Unlinking(c, i) <=> Unlinking(in[p], i)
    BY <1>1, <1>3, IdleHas DEF Unlinking
  <2>2. f = [in EXCEPT ![p] = c]
    BY <1>1, <1>2, <1>7 DEF Goes
  <2> QED BY <2>1, <2>2, CallNow, LinkedStays
<1>9. OthersHold(T, p, name, dg)
  <2>1. ASSUME NEW q \in InProcs \ {p}
        PROVE  /\ in[q].pc = "open" => T[in[q].ino].mode
               /\ in[q].op = "creat" => dg[InDir[in[q].name]] = dirGate[InDir[in[q].name]]
    <3>1. CallHolds(T, q, in[q], name, dirGate)
      BY CallNow
    <3>2. CASE in[q].op = "creat"
      <4>1. in[q].name \in AllNames
        BY <3>2 DEF InBase, InTyped, CallWell
      <4>2. dirGate[InDir[in[q].name]] = q /\ q # InNone
        BY <3>1, <3>2, InAssumption DEF CallHolds
      <4>3. InDir[in[q].name] \in Dirs /\ InDir[in[q].name] # InDir[n]
        BY <1>1, <4>1, <4>2 DEF AllNames, Dirs, Range
      <4> QED BY <1>5, <3>1, <4>3 DEF CallHolds
    <3> QED BY <3>1, <3>2 DEF CallHolds
  <2> QED BY <2>1, OthersKept
<1> QED BY <1>1, <1>2, <1>3, <1>4, <1>6, <1>7, <1>8, <1>9, ExactEnters

LEMMA ExactUnlink ==
  ASSUME InBase, InSingle, InOwnUnlinks, NEW T, Exactly(T), NEW p \in InProcs, NEW n \in AllNames, do_unlink(p, n)
  PROVE  Exactly(T)'
<1>1. /\ in[p].pc = "idle" /\ <<p, n>> \in InUnlinks /\ name[n] \in InInos
      /\ Goes(p, Looks("unlink", name[n])) /\ name' = [name EXCEPT ![n] = 0]
      /\ UNCHANGED <<dinode, sb, dirGate, overflow>>
  BY BaseUnlink
<1>2. PICK c : c = Looks("unlink", name[n])
  OBVIOUS
<1>3. c.pc = "iattach" /\ c.op = "unlink" /\ c.ino = name[n]
  BY <1>2 DEF Looks, Call
<1>4. PICK nm : nm = name'
  OBVIOUS
<1>5. nm[n] = 0 /\ \A m \in AllNames : m # n => nm[m] = name[m]
  BY <1>1, <1>4 DEF InBase, InTyped
<1>6. CallHolds(T, p, c, nm, dirGate)
  BY <1>3 DEF CallHolds
<1>7. PICK f : f = in'
  OBVIOUS
<1>8. Linked(T, nm, f)
  <2>1. in[p].op # "unlink"
    BY <1>1, IdleHas
  <2>2. f = [in EXCEPT ![p] = c]
    BY <1>1, <1>2, <1>7 DEF Goes
  <2>3. Linked(T, name, in)
    BY CallNow
  <2> QED BY <1>1, <1>3, <1>4, <2>1, <2>2, <2>3, LinkedUnlinks
<1>9. OthersHold(T, p, nm, dirGate)
  <2>1. ASSUME NEW q \in InProcs \ {p}
        PROVE  /\ in[q].pc = "open" => T[in[q].ino].mode
               /\ \A m \in AllNames : in[q].op = "open" /\ <<q, m>> \in InOpens /\ name[m] = in[q].ino
                                      => nm[m] = name[m]
               /\ in[q].op = "creat" => (name[in[q].name] = 0 => nm[in[q].name] = 0)
    <3>1. CallHolds(T, q, in[q], name, dirGate)
      BY CallNow
    <3>2. \A m \in AllNames : <<q, m>> \in InOpens => m # n
      BY <1>1 DEF InOwnUnlinks
    <3>3. in[q].op = "creat" => in[q].name \in AllNames
      BY DEF InBase, InTyped, CallWell
    <3> QED BY <1>5, <3>1, <3>2, <3>3 DEF CallHolds
  <2> QED BY <2>1, OthersKept
<1> QED BY <1>1, <1>2, <1>3, <1>4, <1>6, <1>7, <1>8, <1>9, ExactEnters

\* Claim, of inode_find.
LEMMA ExactClaims ==
  ASSUME InBase, InSingle, NEW T, Exactly(T), NEW p \in InProcs, in[p].pc \in {"iattach", "fwait"}, Unmoved,
         NEW s \in InSlots, inode[s].refc = 0, inode[s].gate = InNone, Claims(p, s)
  PROVE  Exactly(T)'
<1>1. PICK c : c = On(in[p], "icopydm", in[p].ino, s)
  OBVIOUS
<1>2. c.pc = "icopydm" /\ c.op = in[p].op /\ c.name = in[p].name /\ c.ino = in[p].ino /\ c.ip = s
  BY <1>1 DEF On, Call
<1>3. PICK e : e = Entry(in[p].ino, 1, inode[s].nlink, inode[s].mode, inode[s].mod, p)
  OBVIOUS
<1>4. e.ino = in[p].ino /\ e.refc = 1 /\ e.mod = inode[s].mod /\ e.gate = p
  BY <1>3 DEF Entry
<1>5. Ends(p, c, s, e)
  BY <1>1, <1>3 DEF Claims
<1>6. EntryHolds(T, inode[s], s, in) /\ CallHolds(T, p, in[p], name, dirGate) /\ T \in [InInos -> InFiles]
  BY CallNow
<1>7. ~ inode[s].mod /\ p # InNone
  BY <1>6, InAssumption DEF EntryHolds
<1>8. inode[s].ino \in InInos => dinode[inode[s].ino] = T[inode[s].ino]
  BY <1>7, DiskAt DEF Dirty
<1>9. LockHolds(p, c, e)
  BY <1>2, <1>4, <1>7 DEF LockHolds
<1>10. CallHolds(T, p, c, name, dirGate)
  <2>1. in[p].pc # "icopymd" /\ c.pc # "open"
    BY <1>2
  <2> QED BY <1>2, <1>6, <2>1, CallStays
<1>11. PICK f : f = in'
  OBVIOUS
<1>12. f = [in EXCEPT ![p] = c]
  BY <1>5, <1>11 DEF Ends
<1>13. Linked(T, name, f)
  <2>1. \A i \in InInos : Unlinking(c, i) <=> Unlinking(in[p], i)
    BY <1>2 DEF Unlinking
  <2> QED BY <1>12, <2>1, CallNow, LinkedStays
<1>14. Totalled(T, sb.tinode, f)
  <2>1. PICK n : n = sb.tinode
    OBVIOUS
  <2>2. Owes(c) <=> Owes(in[p])
    BY <1>2 DEF Owes, Looking
  <2>3. n = sb.tinode - Owed(c) + Owed(in[p])
    BY <2>1, <2>2 DEF Owed, InBase, InTyped
  <2>4. Totalled(T, n, f)
    BY <1>6, <1>12, <2>3, CallNow, TotalStays
  <2> QED BY <2>1, <2>4
<1>15. OthersHold(T, p, name, dirGate)
  BY OthersStay
<1>16. in[p].pc \notin Locking /\ c.pc \in Locking
  BY <1>2 DEF Locking
<1>17. UNCHANGED <<dinode, sb, name, dirGate>>
  BY DEF Unmoved
<1>18. /\ CallHolds(T, p, c, name', dirGate') /\ OthersHold(T, p, name', dirGate')
       /\ Linked(T, name', in') /\ Totalled(T, sb'.tinode, in')
  BY <1>10, <1>11, <1>13, <1>14, <1>15, <1>17
<1>19. /\ \A k \in InInos : k # inode[s].ino => T[k] = T[k] /\ dinode'[k] = dinode[k]
       /\ inode[s].ino \in InInos => dinode'[inode[s].ino] = T[inode[s].ino]
  BY <1>8, <1>17
<1> QED BY <1>2, <1>4, <1>5, <1>6, <1>7, <1>9, <1>16, <1>18, <1>19, ExactEnds

-----------------------------------------------------------------------------
(* The steps that change an entry.                                         *)

\* p goes on, and the entry s becomes e; the files and names stay.
LEMMA ExactEndsOn ==
  ASSUME InBase, InSingle, NEW T, Exactly(T), NEW p \in InProcs, NEW c, NEW s \in InSlots, NEW e,
         Ends(p, c, s, e), inode[s].gate \in {p, InNone}, in[p].pc \in Locking => in[p].ip = s,
         \A k \in InInos : k # inode[s].ino => dinode'[k] = dinode[k],
         name' = name, e.ino = inode[s].ino,
         e.gate \in {p, InNone}, e.gate = InNone /\ e.refc = 0 => ~ e.mod,
         e.gate = p <=> c.pc \in Locking, c.pc # "icopydm",
         e.ino \in InInos => Is(e, T[e.ino]),
         inode[s].ino \in InInos =>
           \/ dinode'[inode[s].ino] = T[inode[s].ino]
           \/ e.mod \/ (e.gate = p /\ c.pc = "icopymd"),
         c.pc \in Locking => c.ip = s /\ LockHolds(p, c, e),
         CallHolds(T, p, c, name, dirGate'), OthersHold(T, p, name, dirGate'), c.op # "unlink", in[p].op # "unlink",
         sb'.tinode = sb.tinode - Owed(c) + Owed(in[p])
  PROVE  Exactly(T)'
<1>1. PICK f : f = in'
  OBVIOUS
<1>2. f = [in EXCEPT ![p] = c]
  BY <1>1 DEF Ends
<1>3. T \in [InInos -> InFiles]
  BY CallNow
<1>4. Linked(T, name, f)
  <2>1. \A i \in InInos : Unlinking(c, i) <=> Unlinking(in[p], i)
    BY DEF Unlinking
  <2> QED BY <1>2, <2>1, CallNow, LinkedStays
<1>5. PICK n : n = sb'.tinode
  OBVIOUS
<1>6. Totalled(T, n, f)
  BY <1>2, <1>3, <1>5, CallNow, TotalStays
<1>8. /\ CallHolds(T, p, c, name', dirGate') /\ OthersHold(T, p, name', dirGate')
      /\ Linked(T, name', in') /\ Totalled(T, sb'.tinode, in')
  BY <1>1, <1>4, <1>5, <1>6
<1>9. e.ino # 0 => e.ino \in InInos
  <2>1. inode[s] \in InEntries
    BY DEF InBase, InTyped
  <2> QED BY <2>1 DEF InEntries
<1>10. /\ \A k \in InInos : k # inode[s].ino => T[k] = T[k] /\ dinode'[k] = dinode[k]
       /\ e.ino # 0 /\ ~ (e.gate = p /\ c.pc = "icopydm") => Is(e, T[e.ino])
       /\ inode[s].ino \in InInos =>
            \/ dinode'[inode[s].ino] = T[inode[s].ino]
            \/ e.ino = inode[s].ino /\ (e.mod \/ (e.gate = p /\ c.pc = "icopymd"))
  BY <1>9
<1> QED BY <1>3, <1>8, <1>10, ExactEnds

\* The same, with the directories as they are.
LEMMA ExactEndsSame ==
  ASSUME InBase, InSingle, NEW T, Exactly(T), NEW p \in InProcs, NEW c, NEW s \in InSlots, NEW e,
         Ends(p, c, s, e), inode[s].gate \in {p, InNone}, in[p].pc \in Locking => in[p].ip = s,
         \A k \in InInos : k # inode[s].ino => dinode'[k] = dinode[k],
         UNCHANGED <<name, dirGate>>, e.ino = inode[s].ino,
         e.gate \in {p, InNone}, e.gate = InNone /\ e.refc = 0 => ~ e.mod,
         e.gate = p <=> c.pc \in Locking, c.pc # "icopydm",
         e.ino \in InInos => Is(e, T[e.ino]),
         inode[s].ino \in InInos =>
           \/ dinode'[inode[s].ino] = T[inode[s].ino]
           \/ e.mod \/ (e.gate = p /\ c.pc = "icopymd"),
         c.pc \in Locking => c.ip = s /\ LockHolds(p, c, e),
         CallHolds(T, p, c, name, dirGate), c.op # "unlink", in[p].op # "unlink",
         sb'.tinode = sb.tinode - Owed(c) + Owed(in[p])
  PROVE  Exactly(T)'
<1>1. OthersHold(T, p, name, dirGate)
  BY OthersStay
<1>2. CallHolds(T, p, c, name, dirGate') /\ OthersHold(T, p, name, dirGate')
  BY <1>1
<1> QED BY <1>2, ExactEndsOn

\* The entry s of the inode i of p, when it lets go of it or gets hold of it.
Reaches(T, p, s, i, r, n, m, d) ==
  /\ s \in InSlots /\ i \in InInos /\ inode[s].ino = i /\ in[p].ino = i
  /\ inode[s].gate \in {p, InNone} /\ (in[p].pc \in Locking => in[p].ip = s)
  /\ r \in Nat \ {0} /\ n \in Int /\ m \in BOOLEAN /\ d \in BOOLEAN
  /\ r = 1 => \A q \in InProcs \ {p} : ~ RefersTo(in[q], s)

\* Who has the inode i open refers to the entry s.
LEMMA OpensRefer ==
  ASSUME InBase, InSingle, NEW s \in InSlots, NEW q \in InProcs, in[q].pc = "open",
         inode[s].ino = in[q].ino, inode[s].ino \in InInos
  PROVE  RefersTo(in[q], s)
<1>1. in[q].ip \in InSlots
  BY DEF InBase, InTyped, CallWell
<1>2. RefersTo(in[q], in[q].ip)
  BY DEF RefersTo
<1>3. inode[in[q].ip].ino = in[q].ino
  BY <1>1, <1>2 DEF InBase, Counted
<1>4. inode[s].ino # 0
  BY InAssumption
<1> QED BY <1>1, <1>2, <1>3, <1>4 DEF InSingle

\* idetach: of an open file, or of one whose link do_unlink has taken away.
LEMMA ExactDetaches ==
  ASSUME InBase, InSingle, NEW T, Exactly(T), NEW p \in InProcs, Unmoved,
         NEW s, NEW i, NEW r, NEW n, NEW m, NEW d, Reaches(T, p, s, i, r, n, m, d),
         Detaches(p, s, i, r, n, m, d), m, T[i].mode,
         \/ in[p].pc = "open" /\ n = T[i].nlink
         \/ in[p].op = "unlink" /\ in[p].pc \in Looking /\ n = 0 /\ d,
         d \/ dinode[i] = T[i]
  PROVE  \E U : Exactly(U)'
<1>1. /\ s \in InSlots /\ i \in InInos /\ inode[s].ino = i /\ in[p].ino = i
      /\ inode[s].gate \in {p, InNone} /\ (in[p].pc \in Locking => in[p].ip = s)
      /\ r \in Nat \ {0} /\ n \in Int /\ m = TRUE /\ d \in BOOLEAN
      /\ r = 1 => \A q \in InProcs \ {p} : ~ RefersTo(in[q], s)
  BY DEF Reaches
<1>2. T \in [InInos -> InFiles] /\ p # InNone /\ Linked(T, name, in) /\ Totalled(T, sb.tinode, in)
      /\ i # 0 /\ sb.tinode \in Int /\ T[i] \in InFiles
  BY <1>1, CallNow, InAssumption DEF InBase, InTyped
<1>3. LinkedAt(T[i], name, in, i)
  BY <1>1, <1>2 DEF Linked
<1>4. ~ Owes(in[p]) /\ Owed(in[p]) = 0
  BY DEF Owes, Owed, Looking
<1>5. in[p].op = "unlink" => Unlinking(in[p], i)
  BY <1>1 DEF Unlinking
<1>6. in[p].pc = "open" => in[p].op # "unlink"
  BY DEF InBase, InTyped, CallWell, Looking
<1>7. UNCHANGED <<dinode, sb, name, dirGate>>
  BY DEF Unmoved
<1>8. PICK f : f = in'
  OBVIOUS
\* The inode stays, with the links it has.
<1>9. ASSUME NEW c, NEW e, Ends(p, c, s, e), c.op = "none", c.pc \in {"idle", "icopymd"}, ~ Owes(c),
             e.ino = i, e.mode = TRUE, e.nlink = n, e.mod = d, e.gate \in {p, InNone},
             e.gate = InNone /\ e.refc = 0 => ~ d, e.gate = p <=> c.pc \in Locking,
             c.pc \in Locking => c.ip = s /\ LockHolds(p, c, e)
      PROVE  \E U : Exactly(U)'
  <2>1. PICK v \in InFiles : v = File(TRUE, n) /\ v.mode = TRUE /\ v.nlink = n
    BY <1>1, FileIs
  <2>2. PICK U \in [InInos -> InFiles] : U = [T EXCEPT ![i] = v]
    BY <1>1, <1>2
  <2>3. U[i] = v /\ \A k \in InInos : k # i => U[k] = T[k]
    BY <1>1, <1>2, <2>2
  <2>4. f = [in EXCEPT ![p] = c]
    BY <1>8, <1>9 DEF Ends
  <2>5. \A k \in InInos : ~ Unlinking(c, k)
    BY <1>9 DEF Unlinking
  <2>6. Linked(U, name, f)
    <3>1. CASE in[p].op = "unlink"
      <4>1. v.nlink = 0
        BY <1>6, <2>1, <3>1
      <4> QED BY <1>1, <1>2, <1>5, <2>2, <2>4, <2>5, <3>1, <4>1, LinkedGone
    <3>2. CASE in[p].op # "unlink"
      <4>1. n = T[i].nlink
        BY <3>2
      <4>2. v = T[i]
        <5>1. T[i].mode = TRUE
          BY <1>2 DEF InFiles
        <5> QED BY <1>2, <2>1, <4>1, <5>1, FilesSame
      <4>3. U = T
        BY <1>2, <2>2, <4>2
      <4>4. \A k \in InInos : Unlinking(c, k) <=> Unlinking(in[p], k)
        BY <2>5, <3>2 DEF Unlinking
      <4> QED BY <1>2, <2>4, <4>3, <4>4, LinkedStays
    <3> QED BY <3>1, <3>2
  <2>7. Totalled(U, sb.tinode, f)
    <3>1. PICK k : k = sb.tinode
      OBVIOUS
    <3>2. FreeAs(v) = 0 /\ FreeAs(T[i]) = 0 /\ Owed(c) = 0
      BY <1>9, <2>1 DEF FreeAs, Owed
    <3>3. Becomes(k, sb.tinode, v, T[i], c, in[p])
      BY <1>2, <1>4, <3>1, <3>2 DEF Becomes
    <3>4. Totalled(U, k, f)
      BY <1>1, <1>2, <2>2, <2>4, <3>3, TotalOn
    <3> QED BY <3>1, <3>4
  <2>8. CallHolds(U, p, c, name, dirGate)
    BY <1>9 DEF CallHolds
  <2>9. OthersHold(U, p, name, dirGate)
    <3>1. ASSUME NEW q \in InProcs \ {p} PROVE in[q].pc = "open" => U[in[q].ino].mode
      <4>1. CallHolds(T, q, in[q], name, dirGate)
        BY CallNow
      <4>2. in[q].pc = "open" => in[q].ino \in InInos
        BY DEF InBase, InTyped, CallWell
      <4> QED BY <2>1, <2>3, <4>1, <4>2 DEF CallHolds
    <3> QED BY <3>1, OthersKept
  <2>10. Is(e, U[i])
    BY <1>9, <2>1, <2>3 DEF Is
  <2>11. dinode[i] = U[i] \/ e.mod
    <3>1. CASE d
      BY <1>9, <3>1
    <3>2. CASE ~ d
      <4>1. dinode[i] = T[i] /\ n = T[i].nlink
        BY <3>2
      <4>2. v = T[i]
        <5>1. T[i].mode = TRUE
          BY <1>2 DEF InFiles
        <5> QED BY <1>2, <2>1, <4>1, <5>1, FilesSame
      <4> QED BY <2>3, <4>1, <4>2
    <3> QED BY <3>1, <3>2
  <2>12. /\ CallHolds(U, p, c, name', dirGate') /\ OthersHold(U, p, name', dirGate')
         /\ Linked(U, name', in') /\ Totalled(U, sb'.tinode, in')
    BY <1>7, <1>8, <2>6, <2>7, <2>8, <2>9
  <2>13. /\ \A k \in InInos : k # inode[s].ino => U[k] = T[k] /\ dinode'[k] = dinode[k]
         /\ e.ino # 0 /\ ~ (e.gate = p /\ c.pc = "icopydm") => Is(e, U[e.ino])
         /\ inode[s].ino \in InInos =>
              \/ dinode'[inode[s].ino] = U[inode[s].ino]
              \/ e.ino = inode[s].ino /\ (e.mod \/ (e.gate = p /\ c.pc = "icopymd"))
    BY <1>1, <1>7, <1>9, <2>3, <2>10, <2>11
  <2>14. Exactly(U)'
    BY <1>1, <1>9, <2>12, <2>13, ExactEnds
  <2> QED BY <2>14
<1>10. CASE ~ (r = 1 /\ (d \/ n = 0)) /\ Ends(p, Idle, s, Entry(i, r - 1, n, m, d, InNone))
  <2>1. PICK c : c = Idle
    OBVIOUS
  <2>2. c.op = "none" /\ c.pc = "idle" /\ ~ Owes(c) /\ c.pc \notin Locking
    BY <2>1 DEF Idle, Owes, Locking
  <2>3. PICK e : e = Entry(i, r - 1, n, m, d, InNone)
    OBVIOUS
  <2>4. e.ino = i /\ e.refc = r - 1 /\ e.mode = TRUE /\ e.nlink = n /\ e.mod = d /\ e.gate = InNone
    BY <1>1, <2>3 DEF Entry
  <2>5. e.refc = 0 => r = 1
    BY <1>1, <2>4
  <2> QED BY <1>1, <1>2, <1>9, <1>10, <2>1, <2>2, <2>3, <2>4, <2>5
<1>11. CASE r = 1 /\ d /\ n # 0 /\ Ends(p, Writes(i, s, m, n), s, Entry(i, 0, n, m, d, p))
  <2>1. PICK c : c = Writes(i, s, m, n)
    OBVIOUS
  <2>2. c.op = "none" /\ c.pc = "icopymd" /\ c.pc \in Locking /\ c.ip = s /\ c.ino = i /\ c.unlock = TRUE
        /\ c.back = "idle" /\ c.copy.mode = TRUE /\ c.copy.nlink = n
    BY <1>1, <2>1 DEF Writes, Call, File, Locking
  <2>3. PICK e : e = Entry(i, 0, n, m, d, p)
    OBVIOUS
  <2>4. e.ino = i /\ e.refc = 0 /\ e.mode = TRUE /\ e.nlink = n /\ e.mod = d /\ e.gate = p
    BY <1>1, <2>3 DEF Entry
  <2>5. ~ Owes(c)
    BY <1>11, <2>2 DEF Owes
  <2>6. LockHolds(p, c, e)
    BY <1>11, <2>2, <2>4 DEF LockHolds, Is
  <2> QED BY <1>1, <1>2, <1>9, <1>11, <2>1, <2>2, <2>3, <2>4, <2>5, <2>6
\* The inode is freed.
<1>12. CASE r = 1 /\ n = 0 /\ Ends(p, Writes(i, s, FALSE, 0), s, Entry(i, 0, 0, FALSE, d, p))
  <2>1. PICK c : c = Writes(i, s, FALSE, 0)
    OBVIOUS
  <2>2. c.op = "none" /\ c.pc = "icopymd" /\ c.pc \in Locking /\ c.ip = s /\ c.ino = i /\ c.unlock = TRUE
        /\ c.back = "idle" /\ c.copy.mode = FALSE /\ c.copy.nlink = 0
    BY <1>1, <2>1 DEF Writes, Call, File, Locking
  <2>3. PICK e : e = Entry(i, 0, 0, FALSE, d, p)
    OBVIOUS
  <2>4. e.ino = i /\ e.refc = 0 /\ e.mode = FALSE /\ e.nlink = 0 /\ e.mod = d /\ e.gate = p
    BY <1>1, <2>3 DEF Entry
  <2>5. Owes(c) /\ Owed(c) = 1
    BY <2>2 DEF Owes, Owed
  <2>6. LockHolds(p, c, e)
    BY <2>2, <2>4 DEF LockHolds, Is
  <2>7. PICK v \in InFiles : v = File(FALSE, 0) /\ v.mode = FALSE /\ v.nlink = 0
    <3>1. 0 \in Int
      OBVIOUS
    <3> QED BY <3>1, FileIs, Zenon
  <2>8. PICK U \in [InInos -> InFiles] : U = [T EXCEPT ![i] = v]
    BY <1>1, <1>2
  <2>9. U[i] = v /\ \A k \in InInos : k # i => U[k] = T[k]
    BY <1>1, <1>2, <2>8
  <2>10. Ends(p, c, s, e)
    BY <1>12, <2>1, <2>3
  <2>11. f = [in EXCEPT ![p] = c]
    BY <1>8, <2>10 DEF Ends
  <2>12. \A k \in InInos : ~ Unlinking(c, k)
    BY <2>2 DEF Unlinking
  <2>13. Linked(U, name, f)
    <3>1. Unlinking(in[p], i) \/ (T[i].nlink = 0 /\ in[p].op # "unlink")
      BY <1>5, <1>6, <1>12
    <3> QED BY <1>1, <1>2, <2>7, <2>8, <2>11, <2>12, <3>1, LinkedGone
  <2>14. Totalled(U, sb.tinode, f)
    <3>1. PICK k : k = sb.tinode
      OBVIOUS
    <3>2. FreeAs(v) = 1 /\ FreeAs(T[i]) = 0
      BY <2>7 DEF FreeAs
    <3>3. Becomes(k, sb.tinode, v, T[i], c, in[p])
      BY <1>2, <1>4, <2>5, <3>1, <3>2 DEF Becomes
    <3>4. Totalled(U, k, f)
      BY <1>1, <1>2, <2>8, <2>11, <3>3, TotalOn
    <3> QED BY <3>1, <3>4
  <2>15. CallHolds(U, p, c, name, dirGate)
    BY <2>2 DEF CallHolds
  <2>16. OthersHold(U, p, name, dirGate)
    <3>1. ASSUME NEW q \in InProcs \ {p} PROVE in[q].pc = "open" => U[in[q].ino].mode
      <4>1. CallHolds(T, q, in[q], name, dirGate)
        BY CallNow
      <4>2. in[q].pc = "open" => in[q].ino \in InInos
        BY DEF InBase, InTyped, CallWell
      <4>3. in[q].pc = "open" => in[q].ino # i
        BY <1>1, <1>12, OpensRefer
      <4> QED BY <2>9, <4>1, <4>2, <4>3 DEF CallHolds
    <3> QED BY <3>1, OthersKept
  <2>17. Is(e, U[i])
    BY <2>4, <2>7, <2>9 DEF Is
  <2>18. /\ CallHolds(U, p, c, name', dirGate') /\ OthersHold(U, p, name', dirGate')
         /\ Linked(U, name', in') /\ Totalled(U, sb'.tinode, in')
    BY <1>7, <1>8, <2>13, <2>14, <2>15, <2>16
  <2>19. /\ \A k \in InInos : k # inode[s].ino => U[k] = T[k] /\ dinode'[k] = dinode[k]
         /\ e.ino # 0 /\ ~ (e.gate = p /\ c.pc = "icopydm") => Is(e, U[e.ino])
         /\ inode[s].ino \in InInos =>
              \/ dinode'[inode[s].ino] = U[inode[s].ino]
              \/ e.ino = inode[s].ino /\ (e.mod \/ (e.gate = p /\ c.pc = "icopymd"))
    BY <1>1, <1>7, <2>2, <2>4, <2>9, <2>17
  <2>20. e.gate \in {p, InNone} /\ (e.gate = InNone /\ e.refc = 0 => ~ e.mod) /\ (e.gate = p => c.pc \in Locking)
         /\ (c.pc \in Locking => c.ip = s /\ LockHolds(p, c, e))
    BY <1>2, <2>2, <2>4, <2>6
  <2>21. Exactly(U)'
    BY <1>1, <2>10, <2>18, <2>19, <2>20, ExactEnds
  <2> QED BY <2>21
<1> QED BY <1>10, <1>11, <1>12 DEF Detaches

\* What follows iattach: of open, of imake, of do_unlink.
LEMMA ExactAttaches ==
  ASSUME InBase, InSingle, NEW T, Exactly(T), NEW p \in InProcs, Unmoved, in[p].pc \in Looking,
         NEW s, NEW i, NEW r, NEW n, NEW m, NEW d, Reaches(T, p, s, i, r, n, m, d),
         Attaches(p, s, i, r, n, m, d), m = T[i].mode, n = T[i].nlink,
         d \/ dinode[i] = T[i], d => r # 1
  PROVE  \E U : Exactly(U)'
<1>1. /\ s \in InSlots /\ i \in InInos /\ inode[s].ino = i /\ in[p].ino = i
      /\ inode[s].gate \in {p, InNone} /\ (in[p].pc \in Locking => in[p].ip = s)
      /\ r \in Nat \ {0} /\ n \in Int /\ m \in BOOLEAN /\ d \in BOOLEAN
      /\ r = 1 => \A q \in InProcs \ {p} : ~ RefersTo(in[q], s)
  BY DEF Reaches
<1>2. T \in [InInos -> InFiles] /\ p # InNone /\ Linked(T, name, in)
      /\ i # 0 /\ sb.tinode \in Int /\ CallHolds(T, p, in[p], name, dirGate)
  BY <1>1, CallNow, InAssumption DEF InBase, InTyped
<1>3. LinkedAt(T[i], name, in, i)
  BY <1>1, <1>2 DEF Linked
<1>4. UNCHANGED <<dinode, sb, name, dirGate>>
  BY DEF Unmoved
<1>5. CASE in[p].op = "open" /\ Ends(p, Opens(in[p].ino, s), s, Entry(i, r, n, m, d, InNone))
  <2>1. PICK c : c = Opens(i, s)
    OBVIOUS
  <2>2. c.op = "none" /\ c.pc = "open" /\ c.ino = i /\ c.pc \notin Locking /\ ~ Owes(c) /\ Owed(c) = 0
    BY <2>1 DEF Opens, Call, Locking, Owes, Owed
  <2>3. PICK e : e = Entry(i, r, n, m, d, InNone)
    OBVIOUS
  <2>4. e.ino = i /\ e.refc = r /\ e.mode = m /\ e.nlink = n /\ e.mod = d /\ e.gate = InNone
    BY <2>3 DEF Entry
  <2>5. T[i].mode
    <3>1. \E k \in AllNames : name[k] = i
      BY <1>1, <1>2, <1>5 DEF CallHolds
    <3>2. T[i].nlink = 1
      BY <1>3, <3>1 DEF LinkedAt
    <3> QED BY <1>3, <3>2 DEF LinkedAt
  <2>6. CallHolds(T, p, c, name, dirGate)
    BY <2>2, <2>5 DEF CallHolds
  <2>7. Owed(in[p]) = 0
    BY <1>5 DEF Owed, Owes, Looking
  <2>8. Is(e, T[i])
    BY <2>4 DEF Is
  <2>9. sb'.tinode = sb.tinode - Owed(c) + Owed(in[p])
    BY <1>2, <1>4, <2>2, <2>7
  <2>10. Exactly(T)'
    BY <1>1, <1>2, <1>4, <1>5, <2>1, <2>2, <2>3, <2>4, <2>6, <2>8, <2>9, ExactEndsSame
  <2> QED BY <2>10
<1>6. CASE in[p].op = "creat" /\ Ends(p, On(in[p], "created", in[p].ino, s), s, Entry(i, r, n, m, d, p))
  <2>1. PICK c : c = On(in[p], "created", i, s)
    OBVIOUS
  <2>2. c.op = "creat" /\ c.name = in[p].name /\ c.pc = "created" /\ c.ino = i /\ c.ip = s /\ c.pc \in Locking
        /\ Owed(c) = 1
    BY <1>6, <2>1 DEF On, Call, Locking, Owes, Owed
  <2>3. PICK e : e = Entry(i, r, n, m, d, p)
    OBVIOUS
  <2>4. e.ino = i /\ e.refc = r /\ e.mode = m /\ e.nlink = n /\ e.mod = d /\ e.gate = p
    BY <2>3 DEF Entry
  <2>5. CallHolds(T, p, c, name, dirGate)
    <3>1. in[p].pc # "icopymd" /\ c.pc # "open" /\ c.op # "open" /\ c.op = in[p].op
      BY <1>6, <2>2 DEF Looking
    <3> QED BY <1>2, <2>2, <3>1, CallStays
  <2>6. Owed(in[p]) = 1
    BY <1>6 DEF Owed, Owes
  <2>7. Is(e, T[i])
    BY <2>4 DEF Is
  <2>8. LockHolds(p, c, e)
    BY <2>2, <2>4 DEF LockHolds
  <2>9. sb'.tinode = sb.tinode - Owed(c) + Owed(in[p])
    BY <1>2, <1>4, <2>2, <2>6
  <2>10. Exactly(T)'
    BY <1>1, <1>2, <1>4, <1>6, <2>1, <2>2, <2>3, <2>4, <2>5, <2>7, <2>8, <2>9, ExactEndsSame
  <2> QED BY <2>10
<1>7. CASE in[p].op = "unlink" /\ Detaches(p, s, i, r, Less(n), m, TRUE)
  <2>1. T[i].nlink = 1 /\ T[i].mode
    <3>1. Unlinking(in[p], i)
      BY <1>1, <1>7 DEF Unlinking
    <3> QED BY <1>3, <3>1 DEF LinkedAt
  <2>2. PICK k : k = 0
    OBVIOUS
  <2>3. Less(n) = k /\ m
    BY <2>1, <2>2 DEF Less
  <2>4. PICK b : b = TRUE
    OBVIOUS
  <2>5. Detaches(p, s, i, r, k, m, b)
    BY <1>7, <2>3, <2>4
  <2>6. Reaches(T, p, s, i, r, k, m, b)
    BY <1>1, <2>2, <2>4 DEF Reaches
  <2> QED BY <1>1, <1>7, <2>1, <2>2, <2>3, <2>4, <2>5, <2>6, ExactDetaches
<1> QED BY <1>5, <1>6, <1>7 DEF Attaches

-----------------------------------------------------------------------------
(* The operations.                                                         *)

\* A slot has no reference of others when its count says so.
LEMMA NobodyElse ==
  ASSUME InBase, NEW p \in InProcs, NEW s \in InSlots,
         inode[s].refc = 0 \/ (inode[s].refc = 1 /\ RefersTo(in[p], s))
  PROVE  \A q \in InProcs \ {p} : ~ RefersTo(in[q], s)
<1> DEFINE S == {q \in InProcs : RefersTo(in[q], s)}
<1>1. IsFiniteSet(S) /\ Cardinality(S) \in Nat /\ inode[s].refc = Cardinality(S)
  BY InAssumption, FS_Subset, FS_CardinalityType DEF InBase, Counted
<1>2. CASE inode[s].refc = 0
  <2>1. S = {}
    BY <1>1, <1>2, FS_EmptySet
  <2> QED BY <2>1
<1>3. CASE inode[s].refc = 1 /\ RefersTo(in[p], s)
  <2>1. p \in S
    BY <1>3
  <2> HIDE DEF S
  <2>2. PICK x : S = {x}
    BY <1>1, <1>3, FS_Singleton
  <2>3. \A q \in S : q = p
    BY <2>1, <2>2
  <2> QED BY <2>3 DEF S
<1> QED BY <1>2, <1>3

LEMMA ExactReattaches ==
  ASSUME InBase, InSingle, NEW T, Exactly(T), NEW p \in InProcs, in[p].pc \in {"iattach", "iwait"}, Unmoved,
         NEW s \in InSlots, inode[s].ino = in[p].ino, inode[s].gate = InNone, Reattaches(p, s)
  PROVE  \E U : Exactly(U)'
<1>1. in[p].ino \in InInos /\ in[p].pc \in Looking /\ in[p].pc \notin Locking
  BY DEF InBase, InTyped, CallWell, Looking, Locking
<1>2. PICK i \in InInos : i = in[p].ino
  BY <1>1
<1>3. inode[s] \in InEntries /\ inode[s].refc \in Nat /\ i # 0
  BY <1>1, <1>2, InAssumption, RefcIs
<1>4. PICK r : r = inode[s].refc + 1
  OBVIOUS
<1>5. PICK n, m, d : n = inode[s].nlink /\ m = inode[s].mode /\ d = inode[s].mod
  OBVIOUS
<1>6. EntryHolds(T, inode[s], s, in)
  BY CallNow
<1>7. m = T[i].mode /\ n = T[i].nlink
  BY <1>2, <1>3, <1>5, <1>6 DEF EntryHolds, Is
<1>8. d \/ dinode[i] = T[i]
  BY <1>2, <1>5, DiskAt DEF Dirty
<1>9. d => r # 1
  BY <1>3, <1>4, <1>5, <1>6 DEF EntryHolds
<1>10. r = 1 => \A q \in InProcs \ {p} : ~ RefersTo(in[q], s)
  <2>1. r = 1 => inode[s].refc = 0
    BY <1>3, <1>4
  <2> QED BY <2>1, NobodyElse
<1>11. Reaches(T, p, s, i, r, n, m, d)
  BY <1>1, <1>2, <1>3, <1>4, <1>5, <1>10 DEF Reaches, InEntries
<1>12. Attaches(p, s, i, r, n, m, d)
  BY <1>2, <1>4, <1>5 DEF Reattaches
<1> QED BY <1>1, <1>7, <1>8, <1>9, <1>11, <1>12, ExactAttaches

LEMMA ExactGoesOn ==
  ASSUME InBase, InSingle, NEW T, Exactly(T), NEW p \in InProcs, in[p].pc \in {"iattach", "iwait", "fwait"},
         NEW x \in {"iattach", "iwait", "fwait"}, NEW s, Goes(p, On(in[p], x, in[p].ino, s)), Unmoved
  PROVE  Exactly(T)'
<1>1. PICK c : c = On(in[p], x, in[p].ino, s)
  OBVIOUS
<1>2. c.pc = x /\ c.op = in[p].op /\ c.name = in[p].name /\ c.ino = in[p].ino
  BY <1>1 DEF On, Call
<1>3. Owed(c) = Owed(in[p]) /\ Owed(c) \in Int
  BY <1>2 DEF Owed, Owes, Looking
<1>4. sb.tinode \in Int /\ sb'.tinode = sb.tinode /\ UNCHANGED <<dinode, name, dirGate>>
  BY DEF InBase, InTyped, Unmoved
<1>5. in[p].pc \notin Locking /\ c.pc \notin Locking \cup {"open"}
  BY <1>2 DEF Locking
<1>6. sb'.tinode = sb.tinode - Owed(c) + Owed(in[p])
  BY <1>3, <1>4
<1> QED BY <1>1, <1>2, <1>4, <1>5, <1>6, ExactSame

LEMMA ExactIattach ==
  ASSUME InBase, InSingle, NEW T, Exactly(T), NEW p \in InProcs,
         iattach(p) \/ iattachWoken(p) \/ inode_findWoken(p)
  PROVE  \E U : Exactly(U)'
<1>1. CASE iattach(p)
  BY <1>1, BaseIattach, ExactReattaches, ExactGoesOn, ExactClaims
<1>2. CASE iattachWoken(p)
  BY <1>2, BaseIattachWoken, ExactReattaches, ExactGoesOn
<1>3. CASE inode_findWoken(p)
  BY <1>3, BaseFindWoken, ExactGoesOn, ExactClaims
<1> QED BY <1>1, <1>2, <1>3

LEMMA ExactIcopydm ==
  ASSUME InBase, InSingle, NEW T, Exactly(T), NEW p \in InProcs, icopydm(p)
  PROVE  \E U : Exactly(U)'
<1>1. /\ in[p].pc = "icopydm" /\ Unmoved
      /\ in[p].ip \in InSlots /\ in[p].ino \in InInos /\ inode[in[p].ip].ino = in[p].ino
      /\ Attaches(p, in[p].ip, in[p].ino, inode[in[p].ip].refc, dinode[in[p].ino].nlink,
                  dinode[in[p].ino].mode, FALSE)
  BY BaseIcopydm
<1>2. PICK i \in InInos : i = in[p].ino
  BY <1>1
<1>3. PICK s \in InSlots : s = in[p].ip
  BY <1>1
<1>4. PICK r, n, m : r = inode[s].refc /\ n = dinode[i].nlink /\ m = dinode[i].mode
  OBVIOUS
<1>5. PICK d : d = FALSE
  OBVIOUS
<1>6. LockHolds(p, in[p], inode[s]) /\ p # InNone
  BY <1>1, <1>3, CallNow, InAssumption DEF Locking
<1>7. inode[s].gate = p /\ ~ inode[s].mod
  BY <1>1, <1>6 DEF LockHolds
<1>8. dinode[i] = T[i]
  BY <1>1, <1>2, <1>3, <1>7, DiskAt DEF Dirty
<1>9. RefersTo(in[p], s) /\ inode[s].refc \in Nat /\ inode[s].refc # 0
  <2>1. RefersTo(in[p], s)
    BY <1>1, <1>3 DEF RefersTo
  <2>2. inode[s].refc \in Nat
    BY RefcIs
  <2>3. inode[s].refc # 0
    BY <1>1, <1>3, <2>1, SlotFacts DEF Locking
  <2> QED BY <2>1, <2>2, <2>3
<1>10. r = 1 => \A q \in InProcs \ {p} : ~ RefersTo(in[q], s)
  BY <1>4, <1>9, NobodyElse
<1>11. n \in Int /\ m \in BOOLEAN
  BY <1>4 DEF InBase, InTyped, InFiles
<1>12. Reaches(T, p, s, i, r, n, m, d)
  BY <1>1, <1>2, <1>3, <1>4, <1>5, <1>7, <1>9, <1>10, <1>11 DEF Reaches
<1>13. Attaches(p, s, i, r, n, m, d)
  BY <1>1, <1>2, <1>3, <1>4, <1>5
<1>14. m = T[i].mode /\ n = T[i].nlink
  BY <1>4, <1>8
<1>15. in[p].pc \in Looking
  BY <1>1 DEF Looking
<1> QED BY <1>1, <1>5, <1>8, <1>12, <1>13, <1>14, <1>15, ExactAttaches

LEMMA ExactIclose ==
  ASSUME InBase, InSingle, NEW T, Exactly(T), NEW p \in InProcs, iclose(p)
  PROVE  \E U : Exactly(U)'
<1>1. /\ in[p].pc = "open" /\ Unmoved
      /\ in[p].ip \in InSlots /\ in[p].ino \in InInos /\ inode[in[p].ip].ino = in[p].ino
      /\ inode[in[p].ip].gate = InNone
      /\ Detaches(p, in[p].ip, in[p].ino, inode[in[p].ip].refc, inode[in[p].ip].nlink,
                  inode[in[p].ip].mode, inode[in[p].ip].mod)
  BY BaseIclose
<1>2. PICK i \in InInos : i = in[p].ino
  BY <1>1
<1>3. PICK s \in InSlots : s = in[p].ip
  BY <1>1
<1>4. PICK r, n, m, d : r = inode[s].refc /\ n = inode[s].nlink /\ m = inode[s].mode /\ d = inode[s].mod
  OBVIOUS
<1>5. inode[s] \in InEntries /\ i # 0
  BY InAssumption DEF InBase, InTyped
<1>6. EntryHolds(T, inode[s], s, in) /\ CallHolds(T, p, in[p], name, dirGate)
  BY CallNow
<1>7. m = T[i].mode /\ n = T[i].nlink /\ T[i].mode
  BY <1>1, <1>2, <1>3, <1>4, <1>5, <1>6 DEF EntryHolds, CallHolds, Is
<1>8. d \/ dinode[i] = T[i]
  BY <1>1, <1>2, <1>3, <1>4, DiskAt DEF Dirty
<1>9. RefersTo(in[p], s) /\ inode[s].refc \in Nat /\ inode[s].refc # 0
  <2>1. RefersTo(in[p], s)
    BY <1>1, <1>3 DEF RefersTo
  <2>2. inode[s].refc \in Nat
    BY RefcIs
  <2>3. inode[s].refc # 0
    BY <1>1, <1>3, <2>1, SlotFacts
  <2> QED BY <2>1, <2>2, <2>3
<1>10. r = 1 => \A q \in InProcs \ {p} : ~ RefersTo(in[q], s)
  BY <1>4, <1>9, NobodyElse
<1>11. in[p].pc \notin Locking
  BY <1>1 DEF Locking
<1>12. Reaches(T, p, s, i, r, n, m, d)
  BY <1>1, <1>2, <1>3, <1>4, <1>5, <1>9, <1>10, <1>11 DEF Reaches, InEntries
<1>13. Detaches(p, s, i, r, n, m, d)
  BY <1>1, <1>2, <1>3, <1>4
<1> QED BY <1>1, <1>7, <1>8, <1>12, <1>13, ExactDetaches

\* The pc's of a creation hold no file.
LEMMA ExactTakes ==
  ASSUME InBase, InSingle, NEW T, Exactly(T), NEW p \in InProcs, in[p].pc \in {"ialloc", "scan"},
         NEW list, Takes(p, list), UNCHANGED <<dinode, name, dirGate>>
  PROVE  Exactly(T)'
<1>1. PICK i : i = list[Len(list)]
  OBVIOUS
<1>2. PICK c : c = On(in[p], "iattach", i, 0)
  OBVIOUS
<1>3. in[p].op = "creat"
  BY DEF InBase, InTyped, CallWell
<1>4. c.pc = "iattach" /\ c.op = "creat" /\ c.name = in[p].name
  BY <1>2, <1>3 DEF On, Call
<1>5. Owed(c) = 1 /\ Owed(in[p]) = 0
  BY <1>4 DEF Owed, Owes, Looking
<1>6. sb.tinode \in Int /\ sb'.tinode = sb.tinode - 1 /\ Goes(p, c)
  BY <1>1, <1>2 DEF InBase, InTyped, Takes
<1>7. in[p].pc \notin Locking /\ c.pc \notin Locking \cup {"open"}
  BY <1>4 DEF Locking
<1>8. sb'.tinode = sb.tinode - Owed(c) + Owed(in[p])
  BY <1>5, <1>6
<1>9. c.op = in[p].op /\ c.op \notin {"open", "unlink"}
  BY <1>3, <1>4
<1> QED BY <1>4, <1>6, <1>7, <1>8, <1>9, ExactSame

LEMMA ExactCreates ==
  ASSUME InBase, InSingle, NEW T, Exactly(T), NEW p \in InProcs,
         NEW x \in {"ialloc", "isync", "scan"}, NEW i, NEW s, Goes(p, On(in[p], x, i, s)),
         in[p].pc \in {"ialloc", "isync", "busy"}, UNCHANGED <<dinode, name, dirGate>>,
         sb'.tinode = IF in[p].pc = "busy" THEN sb.tinode + 1 ELSE sb.tinode
  PROVE  Exactly(T)'
<1>1. PICK c : c = On(in[p], x, i, s)
  OBVIOUS
<1>2. in[p].op = "creat"
  BY DEF InBase, InTyped, CallWell
<1>3. c.pc = x /\ c.op = "creat" /\ c.name = in[p].name
  BY <1>1, <1>2 DEF On, Call
<1>4. Owed(c) = 0 /\ Owed(in[p]) = IF in[p].pc = "busy" THEN 1 ELSE 0
  BY <1>2, <1>3 DEF Owed, Owes, Looking
<1>5. sb.tinode \in Int
  BY DEF InBase, InTyped
<1>6. in[p].pc \notin Locking /\ c.pc \notin Locking \cup {"open"}
  BY <1>3 DEF Locking
<1>7. sb'.tinode = sb.tinode - Owed(c) + Owed(in[p])
  BY <1>4, <1>5
<1>8. c.op = in[p].op /\ c.op \notin {"open", "unlink"}
  BY <1>2, <1>3
<1> QED BY <1>1, <1>3, <1>6, <1>7, <1>8, ExactSame

LEMMA ExactIalloc ==
  ASSUME InBase, InSingle, NEW T, Exactly(T), NEW p \in InProcs, ialloc(p)
  PROVE  Exactly(T)'
<1>1. /\ in[p].pc = "ialloc" /\ UNCHANGED <<dinode, name, dirGate, overflow>>
      /\ \/ \E list \in Seq(InInos) : Takes(p, list)
         \/ sb'.tinode = sb.tinode /\ Goes(p, On(in[p], "isync", in[p].ino, 0))
  BY BaseIalloc
<1>2. CASE \E list \in Seq(InInos) : Takes(p, list)
  BY <1>1, <1>2, ExactTakes
<1>3. CASE sb'.tinode = sb.tinode /\ Goes(p, On(in[p], "isync", in[p].ino, 0))
  <2>1. PICK x, z : x = "isync" /\ z = 0
    OBVIOUS
  <2>2. Goes(p, On(in[p], x, in[p].ino, z)) /\ x \in {"ialloc", "isync", "scan"}
    BY <1>3, <2>1
  <2> QED BY <1>1, <1>3, <2>2, ExactCreates
<1> QED BY <1>1, <1>2, <1>3

LEMMA ExactRecount ==
  ASSUME InBase, InSingle, NEW T, Exactly(T), NEW p \in InProcs, iallocRecount(p)
  PROVE  Exactly(T)'
<1>1. /\ in[p].pc = "busy" /\ UNCHANGED <<dinode, name, dirGate, overflow>>
      /\ sb'.tinode = sb.tinode + 1
      /\ Goes(p, On(in[p], "ialloc", in[p].ino, in[p].ip))
  BY BaseRecount
<1>2. PICK x : x = "ialloc"
  OBVIOUS
<1>3. Goes(p, On(in[p], x, in[p].ino, in[p].ip)) /\ x \in {"ialloc", "isync", "scan"}
  BY <1>1, <1>2
<1> QED BY <1>1, <1>3, ExactCreates

LEMMA ExactBusy ==
  ASSUME InBase, InSingle, NEW T, Exactly(T), NEW p \in InProcs, iallocBusy(p)
  PROVE  Exactly(T)'
<1>1. /\ in[p].pc = "created" /\ Unmoved
      /\ in[p].ip \in InSlots /\ in[p].ino \in InInos /\ inode[in[p].ip].ino = in[p].ino
      /\ Ends(p, On(in[p], "busy", 0, 0), in[p].ip,
              Entry(in[p].ino, inode[in[p].ip].refc - 1, inode[in[p].ip].nlink,
                    inode[in[p].ip].mode, inode[in[p].ip].mod, InNone))
  BY BaseBusy
<1>2. PICK s \in InSlots : s = in[p].ip
  BY <1>1
<1>3. PICK i \in InInos : i = in[p].ino
  BY <1>1
<1>4. PICK c : c = On(in[p], "busy", 0, 0)
  OBVIOUS
<1>5. in[p].op = "creat"
  BY <1>1 DEF InBase, InTyped, CallWell
<1>6. c.pc = "busy" /\ c.op = "creat" /\ c.name = in[p].name /\ c.pc \notin Locking
  BY <1>4, <1>5 DEF On, Call, Locking
<1>7. PICK e : e = Entry(i, inode[s].refc - 1, inode[s].nlink, inode[s].mode, inode[s].mod, InNone)
  OBVIOUS
<1>8. e.ino = i /\ e.refc = inode[s].refc - 1 /\ e.nlink = inode[s].nlink /\ e.mode = inode[s].mode
      /\ e.mod = inode[s].mod /\ e.gate = InNone
  BY <1>7 DEF Entry
<1>9. Ends(p, c, s, e)
  BY <1>1, <1>2, <1>3, <1>4, <1>7
<1>10. /\ LockHolds(p, in[p], inode[s]) /\ p # InNone /\ EntryHolds(T, inode[s], s, in)
       /\ CallHolds(T, p, in[p], name, dirGate)
  BY <1>1, <1>2, CallNow, InAssumption DEF Locking
<1>11. inode[s].gate = p /\ (~ inode[s].mod \/ inode[s].refc # 1)
  BY <1>1, <1>10 DEF LockHolds
<1>12. inode[s].refc \in Int
  BY DEF InBase, InTyped, InEntries
<1>13. e.refc = 0 => ~ e.mod
  BY <1>8, <1>11, <1>12
<1>14. Is(e, T[i]) /\ inode[s].ino = i
  <2>1. i # 0
    BY InAssumption
  <2> QED BY <1>1, <1>2, <1>3, <1>8, <1>10, <1>11, <2>1 DEF EntryHolds, Is
<1>15. dinode[i] = T[i] \/ e.mod
  BY <1>1, <1>8, <1>11, <1>14, DiskAt DEF Dirty
<1>16. CallHolds(T, p, c, name, dirGate)
  <2>1. in[p].pc # "icopymd" /\ c.pc # "open" /\ c.op = in[p].op /\ c.op # "open"
    BY <1>1, <1>5, <1>6
  <2> QED BY <1>6, <1>10, <2>1, CallStays
<1>17. Owed(c) = 1 /\ Owed(in[p]) = 1
  BY <1>1, <1>5, <1>6 DEF Owed, Owes
<1>18. sb'.tinode = sb.tinode - Owed(c) + Owed(in[p])
  <2>1. sb.tinode \in Int /\ sb' = sb
    BY <1>1 DEF InBase, InTyped, Unmoved
  <2> QED BY <1>17, <2>1
<1>19. UNCHANGED <<dinode, name, dirGate>>
  BY <1>1 DEF Unmoved
<1>20. /\ inode[s].gate \in {p, InNone} /\ (in[p].pc \in Locking => in[p].ip = s)
       /\ e.gate \in {p, InNone} /\ (e.gate = InNone /\ e.refc = 0 => ~ e.mod)
       /\ (e.gate = p <=> c.pc \in Locking) /\ c.pc # "icopydm" /\ e.ino = inode[s].ino
       /\ (e.ino \in InInos => Is(e, T[e.ino])) /\ c.op # "unlink" /\ in[p].op # "unlink"
       /\ (inode[s].ino \in InInos => dinode'[inode[s].ino] = T[inode[s].ino] \/ e.mod)
  BY <1>2, <1>5, <1>6, <1>8, <1>10, <1>11, <1>13, <1>14, <1>15, <1>19
<1> QED BY <1>6, <1>9, <1>16, <1>18, <1>19, <1>20, ExactEndsSame

\* With the disk full, every free inode is one that somebody is about to free.
LEMMA NothingFree ==
  ASSUME InBase, InSingle, InOneDirectory, NEW T, Exactly(T), NEW p \in InProcs, in[p].pc = "scan",
         \A i \in InInos : dinode[i].mode
  PROVE  Cardinality({i \in InInos : ~ T[i].mode}) = Cardinality({q \in InProcs : Owes(in[q])})
<1> DEFINE F == {i \in InInos : ~ T[i].mode}
           O == {q \in InProcs : Owes(in[q])}
<1>1. in[p].op = "creat" /\ ~ Owes(in[p])
  BY DEF InBase, InTyped, CallWell, Owes, Looking
<1>2. \A q \in InProcs : in[q].op = "creat" => q = p
  BY <1>1, CreatsAlone
<1>3. ASSUME NEW q \in O
      PROVE  /\ q \in InProcs /\ in[q].ip \in InSlots /\ in[q].ino \in F
             /\ inode[in[q].ip].gate = q /\ inode[in[q].ip].ino = in[q].ino
  <2>1. q \in InProcs /\ Owes(in[q]) /\ q # p
    BY <1>1
  <2>2. in[q].pc \in {"icopymd", "ifree"} /\ in[q].back = "idle" /\ in[q].copy.nlink = 0
    BY <1>2, <2>1 DEF Owes
  <2>3. in[q].ip \in InSlots /\ in[q].ino \in InInos
    BY <2>1, <2>2 DEF InBase, InTyped, CallWell, Locking
  <2>4. PICK s \in InSlots : s = in[q].ip
    BY <2>3
  <2>5. LockHolds(q, in[q], inode[s]) /\ EntryHolds(T, inode[s], s, in) /\ q # InNone /\ in[q].ino # 0
    BY <2>1, <2>2, <2>3, <2>4, CallNow, InAssumption DEF Locking
  <2>6. inode[s].gate = q /\ inode[s].ino = in[q].ino /\ ~ inode[s].mode
    BY <2>2, <2>5 DEF LockHolds, Is
  <2>7. ~ T[in[q].ino].mode
    BY <2>2, <2>5, <2>6 DEF EntryHolds, Is
  <2> QED BY <2>1, <2>3, <2>4, <2>6, <2>7
<1>4. ASSUME NEW i \in F PROVE \E q \in O : in[q].ino = i
  <2>1. i \in InInos /\ ~ T[i].mode /\ dinode[i] # T[i] /\ i # 0
    BY InAssumption
  <2>2. PICK s \in InSlots : inode[s].ino = i /\ Dirty(inode[s], in)
    BY <2>1 DEF Exactly, ExactlyAt, OnDisk
  <2>3. EntryHolds(T, inode[s], s, in) /\ inode[s] \in InEntries
    BY CallNow DEF InBase, InTyped
  <2>4. CASE inode[s].gate = InNone
    <3>1. inode[s].refc # 0
      BY <2>2, <2>3, <2>4 DEF Dirty, EntryHolds
    <3>2. PICK q \in InProcs : RefersTo(in[q], s)
      <4>1. Cardinality({q \in InProcs : RefersTo(in[q], s)}) # 0
        BY <3>1 DEF InBase, Counted
      <4>2. {q \in InProcs : RefersTo(in[q], s)} # {}
        BY <4>1, FS_EmptySet
      <4> QED BY <4>2
    <3>3. in[q].pc \in Locking \cup {"open"} /\ in[q].ip = s /\ inode[s].ino = in[q].ino
      BY <3>2 DEF RefersTo, Locking, InBase, Counted
    <3>4. CASE in[q].pc = "open"
      <4>1. T[in[q].ino].mode
        BY <3>4, CallNow DEF CallHolds
      <4> QED BY <2>1, <2>2, <3>3, <4>1
    <3>5. CASE in[q].pc \in Locking
      <4>1. LockHolds(q, in[q], inode[s]) /\ q # InNone
        BY <3>3, <3>5, CallNow, InAssumption
      <4> QED BY <2>4, <4>1 DEF LockHolds
    <3> QED BY <3>3, <3>4, <3>5
  <2>5. CASE inode[s].gate # InNone
    <3>1. PICK q \in InProcs : q = inode[s].gate
      BY <2>3, <2>5 DEF InEntries
    <3>2. in[q].ip = s /\ in[q].pc \in Locking
      BY <2>3, <2>5, <3>1 DEF EntryHolds
    <3>3. LockHolds(q, in[q], inode[s])
      BY <3>2, CallNow
    <3>4. in[q].pc = "icopymd"
      <4>1. CASE in[q].pc = "created"
        <5>1. in[q].op = "creat"
          BY <4>1 DEF InBase, InTyped, CallWell
        <5> QED BY <1>2, <4>1, <5>1
      <4>2. in[q].pc = "icopydm" \/ in[q].pc = "ifree" => ~ inode[s].mod
        BY <3>3 DEF LockHolds
      <4>3. inode[s].mod \/ in[q].pc = "icopymd"
        BY <2>2, <3>1 DEF Dirty
      <4> QED BY <3>2, <4>1, <4>2, <4>3 DEF Locking
    <3>5. in[q].back = "idle"
      <4>1. in[q].op # "creat"
        BY <1>2, <3>4
      <4> QED BY <3>4, <4>1 DEF InBase, InTyped, CallWell
    <3>6. T[i].nlink = 0
      <4>1. LinkedAt(T[i], name, in, i)
        BY <2>1, CallNow DEF Linked
      <4> QED BY <2>1, <4>1 DEF LinkedAt
    <3>7. in[q].copy.nlink = 0
      <4>1. Is(inode[s], T[i])
        BY <2>1, <2>2, <2>3, <3>1, <3>4 DEF EntryHolds
      <4> QED BY <3>3, <3>4, <3>6, <4>1 DEF LockHolds, Is
    <3>8. in[q].ino = i
      BY <2>2, <3>3 DEF LockHolds
    <3> QED BY <3>4, <3>5, <3>7, <3>8 DEF Owes
  <2> QED BY <2>4, <2>5
<1>5. \A q \in O, r \in O : in[q].ino = in[r].ino => q = r
  <2> SUFFICES ASSUME NEW q \in O, NEW r \in O, in[q].ino = in[r].ino PROVE q = r
    OBVIOUS
  <2>1. inode[in[q].ip].ino = inode[in[r].ip].ino /\ inode[in[q].ip].ino \in InInos
    BY <1>3
  <2>2. inode[in[q].ip].ino # 0
    BY <2>1, InAssumption
  <2>3. in[q].ip = in[r].ip
    BY <1>3, <2>1, <2>2 DEF InSingle
  <2> QED BY <1>3, <2>3
<1>6. IsFiniteSet(O)
  BY InAssumption, FS_Subset
<1>7. PICK g : g = [q \in O |-> in[q].ino]
  OBVIOUS
<1> HIDE DEF F, O
<1>8. g \in [O -> F]
  BY <1>3, <1>7
<1>9. g \in Surjection(O, F)
  BY <1>4, <1>7, <1>8 DEF Surjection
<1>10. g \in Injection(O, F)
  <2>1. \A q \in O, r \in O : g[q] = g[r] => q = r
    BY <1>5, <1>7
  <2> QED BY <1>8, <2>1 DEF Injection, IsInjective
<1>11. Cardinality(F) = Cardinality(O)
  BY <1>6, <1>9, <1>10, FS_Surjection
<1> QED BY <1>11 DEF F, O

LEMMA ExactRefill ==
  ASSUME InBase, InSingle, InOneDirectory, NEW T, Exactly(T), NEW p \in InProcs, iallocRefill(p)
  PROVE  Exactly(T)'
<1>1. /\ in[p].pc = "scan" /\ UNCHANGED <<dinode, name, overflow>>
      /\ \/ UNCHANGED dirGate /\ \E list \in Seq(InInos) : Takes(p, list)
         \/ /\ \A i \in InInos : dinode[i].mode
            /\ sb'.tinode = 0 /\ Goes(p, Idle)
            /\ dirGate' = [dirGate EXCEPT ![InDir[in[p].name]] = InNone]
  BY BaseRefill
<1>2. CASE UNCHANGED dirGate /\ \E list \in Seq(InInos) : Takes(p, list)
  BY <1>1, <1>2, ExactTakes
<1>3. CASE /\ \A i \in InInos : dinode[i].mode
           /\ sb'.tinode = 0 /\ Goes(p, Idle)
           /\ dirGate' = [dirGate EXCEPT ![InDir[in[p].name]] = InNone]
  <2>1. PICK c : c = Idle
    OBVIOUS
  <2>2. c.pc = "idle" /\ c.op = "none" /\ c.pc \notin Locking /\ in[p].pc \notin Locking /\ Goes(p, c)
    BY <1>1, <1>3, <2>1 DEF Idle, Locking
  <2>3. in[p].op = "creat"
    BY <1>1 DEF InBase, InTyped, CallWell
  <2>4. PICK f : f = in'
    OBVIOUS
  <2>5. f = [in EXCEPT ![p] = c]
    BY <2>2, <2>4 DEF Goes
  <2>6. PICK dg : dg = dirGate'
    OBVIOUS
  <2>7. OthersHold(T, p, name, dg)
    <3>1. ASSUME NEW q \in InProcs \ {p}
          PROVE  in[q].op # "creat" /\ (in[q].pc = "open" => T[in[q].ino].mode)
      <4>1. CallHolds(T, q, in[q], name, dirGate)
        BY CallNow
      <4>2. in[q].op # "creat"
        BY <2>3, CreatsAlone
      <4> QED BY <4>1, <4>2 DEF CallHolds
    <3> QED BY <3>1, OthersKept
  <2>8. CallHolds(T, p, c, name, dg)
    BY <2>2 DEF CallHolds
  <2>9. Linked(T, name, f)
    <3>1. \A i \in InInos : Unlinking(c, i) <=> Unlinking(in[p], i)
      BY <2>2, <2>3 DEF Unlinking
    <3> QED BY <2>5, <3>1, CallNow, LinkedStays
  <2>10. Totalled(T, 0, f)
    <3>1. PICK n : n = 0
      OBVIOUS
    <3>2. Owed(c) = 0 /\ Owed(in[p]) = 0
      BY <1>1, <2>2, <2>3 DEF Owed, Owes, Looking
    <3>3. sb.tinode = 0
      <4>1. PICK k \in Nat : k = Cardinality({q \in InProcs : Owes(in[q])})
        BY <2>5, OwesOn
      <4>2. Cardinality({i \in InInos : ~ T[i].mode}) = k
        BY <1>1, <1>3, <4>1, NothingFree
      <4>3. sb.tinode = k - k
        BY <4>1, <4>2, CallNow DEF Totalled
      <4> QED BY <4>1, <4>3
    <3>4. n = sb.tinode - Owed(c) + Owed(in[p])
      BY <3>1, <3>2, <3>3
    <3>5. Totalled(T, n, f)
      BY <2>5, <3>4, CallNow, TotalStays
    <3> QED BY <3>1, <3>5
  <2>11. /\ CallHolds(T, p, c, name', dirGate') /\ OthersHold(T, p, name', dirGate')
         /\ Linked(T, name', in') /\ Totalled(T, sb'.tinode, in')
    BY <1>1, <1>3, <2>4, <2>6, <2>7, <2>8, <2>9, <2>10
  <2> QED BY <1>1, <2>2, <2>11, ExactGoes
<1> QED BY <1>1, <1>2, <1>3

LEMMA ExactImake ==
  ASSUME InBase, InSingle, InOneDirectory, NEW T, Exactly(T), NEW p \in InProcs, imake(p)
  PROVE  \E U : Exactly(U)'
<1>1. /\ in[p].pc = "created" /\ UNCHANGED <<dinode, sb, dirGate, overflow>>
      /\ in[p].ip \in InSlots /\ in[p].ino \in InInos /\ inode[in[p].ip].ino = in[p].ino
      /\ ~ inode[in[p].ip].mode
      /\ name' = [name EXCEPT ![in[p].name] = in[p].ino]
      /\ Ends(p, Call("icopymd", "creat", in[p].name, in[p].ino, in[p].ip, File(TRUE, 1), TRUE, "open"),
              in[p].ip, Entry(in[p].ino, inode[in[p].ip].refc, 1, TRUE, TRUE, inode[in[p].ip].gate))
  BY BaseImake
<1>2. PICK s \in InSlots : s = in[p].ip
  BY <1>1
<1>3. PICK i \in InInos : i = in[p].ino
  BY <1>1
<1>4. in[p].op = "creat" /\ in[p].name \in AllNames
  BY <1>1 DEF InBase, InTyped, CallWell
<1>5. PICK k \in AllNames : k = in[p].name
  BY <1>4
<1>6. PICK v \in InFiles : v = File(TRUE, 1) /\ v.mode = TRUE /\ v.nlink = 1
  <2>1. 1 \in Int
    OBVIOUS
  <2> QED BY <2>1, FileIs, Zenon
<1>7. PICK c : c = Call("icopymd", "creat", k, i, s, v, TRUE, "open")
  OBVIOUS
<1>8. c.pc = "icopymd" /\ c.op = "creat" /\ c.name = k /\ c.ino = i /\ c.ip = s /\ c.copy = v
      /\ c.unlock = TRUE /\ c.back = "open" /\ c.pc \in Locking
  BY <1>7 DEF Call, Locking
<1>9. /\ LockHolds(p, in[p], inode[s]) /\ p # InNone /\ EntryHolds(T, inode[s], s, in)
      /\ CallHolds(T, p, in[p], name, dirGate) /\ i # 0 /\ T \in [InInos -> InFiles]
      /\ Linked(T, name, in) /\ Totalled(T, sb.tinode, in)
  BY <1>1, <1>2, CallNow, InAssumption DEF Locking
<1>10. inode[s].gate = p /\ inode[s].ino = i
  BY <1>1, <1>2, <1>3, <1>9 DEF LockHolds
<1>11. PICK e : e = Entry(i, inode[s].refc, 1, TRUE, TRUE, p)
  OBVIOUS
<1>12. e.ino = i /\ e.refc = inode[s].refc /\ e.nlink = 1 /\ e.mode = TRUE /\ e.mod = TRUE /\ e.gate = p
  BY <1>11 DEF Entry
<1>13. Ends(p, c, s, e)
  BY <1>1, <1>2, <1>3, <1>5, <1>6, <1>7, <1>10, <1>11
<1>14. ~ T[i].mode
  BY <1>1, <1>2, <1>9, <1>10 DEF EntryHolds, Is
<1>15. T[i].nlink = 0
  BY <1>9, <1>14 DEF Linked, LinkedAt
<1>16. name[k] = 0 /\ dirGate[InDir[k]] = p
  BY <1>1, <1>4, <1>5, <1>9 DEF CallHolds
<1>17. PICK U \in [InInos -> InFiles] : U = [T EXCEPT ![i] = v]
  BY <1>9
<1>18. U[i] = v /\ \A j \in InInos : j # i => U[j] = T[j]
  BY <1>9, <1>17
<1>19. PICK nm : nm = name'
  OBVIOUS
<1>20. nm = [name EXCEPT ![k] = i] /\ nm[k] = i /\ \A m \in AllNames : m # k => nm[m] = name[m]
  BY <1>1, <1>3, <1>5, <1>19 DEF InBase, InTyped
<1>21. PICK f : f = in'
  OBVIOUS
<1>22. f = [in EXCEPT ![p] = c]
  BY <1>13, <1>21 DEF Ends
<1>23. Linked(U, nm, f)
  <2>1. in[p].op # "unlink" /\ c.op # "unlink"
    BY <1>4, <1>8
  <2>2. v.mode = TRUE /\ v.nlink = 1 /\ name[k] = 0 /\ T[i].nlink = 0
    BY <1>6, <1>15, <1>16
  <2>3. T \in [InInos -> InFiles] /\ Linked(T, name, in) /\ f = [in EXCEPT ![p] = c]
    BY <1>9, <1>22
  <2>4. U = [T EXCEPT ![i] = v] /\ nm = [name EXCEPT ![k] = i]
    BY <1>17, <1>20
  <2> QED BY <2>1, <2>2, <2>3, <2>4, LinkedMakes, Zenon
<1>24. Totalled(U, sb.tinode, f)
  <2>1. PICK n : n = sb.tinode
    OBVIOUS
  <2>2. FreeAs(v) = 0 /\ FreeAs(T[i]) = 1
    BY <1>6, <1>14 DEF FreeAs
  <2>3. Owed(c) = 0 /\ Owed(in[p]) = 1
    BY <1>1, <1>4, <1>8 DEF Owed, Owes, Looking
  <2>4. sb.tinode \in Int
    BY DEF InBase, InTyped
  <2>5. Becomes(n, sb.tinode, v, T[i], c, in[p])
    BY <2>1, <2>2, <2>3, <2>4 DEF Becomes
  <2>6. Totalled(U, n, f)
    BY <1>9, <1>17, <1>22, <2>5, TotalOn
  <2> QED BY <2>1, <2>6
<1>25. CallHolds(U, p, c, nm, dirGate)
  BY <1>8, <1>16 DEF CallHolds
<1>26. OthersHold(U, p, nm, dirGate)
  <2>1. ASSUME NEW q \in InProcs \ {p}
        PROVE  /\ in[q].pc = "open" => U[in[q].ino].mode
               /\ \A m \in AllNames : in[q].op = "open" /\ <<q, m>> \in InOpens /\ name[m] = in[q].ino
                                      => nm[m] = name[m]
               /\ in[q].op # "creat"
    <3>1. CallHolds(T, q, in[q], name, dirGate)
      BY CallNow
    <3>2. in[q].op # "creat"
      BY <1>4, CreatsAlone
    <3>3. in[q].pc = "open" => U[in[q].ino].mode
      <4>1. in[q].pc = "open" => in[q].ino \in InInos
        BY DEF InBase, InTyped, CallWell
      <4> QED BY <1>6, <1>18, <3>1, <4>1 DEF CallHolds
    <3>4. in[q].op = "open" => in[q].ino # 0
      <4>1. in[q].op = "open" => in[q].ino \in InInos
        BY DEF InBase, InTyped, CallWell
      <4> QED BY <4>1, InAssumption
    <3> QED BY <1>16, <1>20, <3>2, <3>3, <3>4
  <2> QED BY <2>1, OthersKept
<1>27. LockHolds(p, c, e)
  <2>1. inode[s].refc # 0
    <3>1. RefersTo(in[p], s)
      BY <1>1, <1>2 DEF RefersTo
    <3> QED BY <1>1, <1>2, <3>1, SlotFacts DEF Locking
  <2> QED BY <1>6, <1>8, <1>12, <2>1 DEF LockHolds, Is
<1>28. Is(e, U[i])
  BY <1>6, <1>12, <1>18 DEF Is
<1>29. /\ CallHolds(U, p, c, name', dirGate') /\ OthersHold(U, p, name', dirGate')
       /\ Linked(U, name', in') /\ Totalled(U, sb'.tinode, in')
  BY <1>1, <1>19, <1>21, <1>23, <1>24, <1>25, <1>26
<1>30. /\ inode[s].gate \in {p, InNone} /\ (in[p].pc \in Locking => in[p].ip = s)
       /\ \A j \in InInos : j # inode[s].ino => U[j] = T[j] /\ dinode'[j] = dinode[j]
       /\ e.gate \in {p, InNone} /\ (e.gate = InNone /\ e.refc = 0 => ~ e.mod) /\ (e.gate = p => c.pc \in Locking)
       /\ (e.ino # 0 /\ ~ (e.gate = p /\ c.pc = "icopydm") => Is(e, U[e.ino]))
       /\ (inode[s].ino \in InInos =>
              \/ dinode'[inode[s].ino] = U[inode[s].ino]
              \/ e.ino = inode[s].ino /\ (e.mod \/ (e.gate = p /\ c.pc = "icopymd")))
       /\ (c.pc \in Locking => c.ip = s /\ LockHolds(p, c, e))
  BY <1>1, <1>2, <1>8, <1>9, <1>10, <1>12, <1>18, <1>27, <1>28
<1>31. Exactly(U)'
  BY <1>13, <1>29, <1>30, ExactEnds
<1> QED BY <1>31

LEMMA ExactIcopymd ==
  ASSUME InBase, InSingle, NEW T, Exactly(T), NEW p \in InProcs, icopymd(p)
  PROVE  Exactly(T)'
<1>1. /\ in[p].pc = "icopymd" /\ UNCHANGED <<sb, name, overflow>>
      /\ in[p].ip \in InSlots /\ in[p].ino \in InInos
      /\ dinode' = [dinode EXCEPT ![in[p].ino] = in[p].copy]
      /\ dirGate' = [d \in Dirs |-> IF dirGate[d] = p /\ in[p].back = "open" THEN InNone ELSE dirGate[d]]
      /\ \/ /\ inode[in[p].ip].refc = 0 /\ inode[in[p].ip].nlink = 0
            /\ Ends(p, On(in[p], "ifree", in[p].ino, in[p].ip), in[p].ip,
                    Entry(inode[in[p].ip].ino, inode[in[p].ip].refc, inode[in[p].ip].nlink,
                          inode[in[p].ip].mode, FALSE, inode[in[p].ip].gate))
         \/ /\ ~ (inode[in[p].ip].refc = 0 /\ inode[in[p].ip].nlink = 0)
            /\ Ends(p, Backs(in[p]), in[p].ip,
                    Entry(inode[in[p].ip].ino, inode[in[p].ip].refc, inode[in[p].ip].nlink,
                          inode[in[p].ip].mode, FALSE,
                          IF in[p].unlock THEN InNone ELSE inode[in[p].ip].gate))
  BY BaseIcopymd
<1>2. PICK s \in InSlots : s = in[p].ip
  BY <1>1
<1>3. PICK i \in InInos : i = in[p].ino
  BY <1>1
<1>4. /\ LockHolds(p, in[p], inode[s]) /\ p # InNone /\ EntryHolds(T, inode[s], s, in)
      /\ CallHolds(T, p, in[p], name, dirGate) /\ i # 0 /\ T \in [InInos -> InFiles]
      /\ T[i] \in InFiles
  BY <1>1, <1>2, CallNow, InAssumption DEF Locking
<1>5. /\ inode[s].gate = p /\ inode[s].ino = i /\ Is(inode[s], in[p].copy) /\ in[p].unlock
      /\ in[p].back = "idle" => inode[s].refc = 0 /\ (inode[s].nlink = 0 => ~ inode[s].mode)
      /\ in[p].back # "idle" => inode[s].refc # 0
      /\ in[p].back = "open" => inode[s].mode
  BY <1>1, <1>3, <1>4 DEF LockHolds
<1>6. /\ in[p].copy \in InFiles /\ (in[p].op = "creat" <=> in[p].back # "idle")
      /\ in[p].op \notin {"open", "unlink"} /\ in[p].back \in {"idle", "open", "isync"}
      /\ in[p].op = "creat" => in[p].name \in AllNames
  BY <1>1 DEF InBase, InTyped, CallWell, Looking, InCalls
<1>7. Is(inode[s], T[i])
  BY <1>1, <1>4, <1>5 DEF EntryHolds
<1>8. in[p].copy = T[i]
  BY <1>4, <1>5, <1>6, <1>7, FilesSame DEF Is
<1>9. dinode'[i] = T[i] /\ \A k \in InInos : k # i => dinode'[k] = dinode[k]
  BY <1>1, <1>3, <1>8 DEF InBase, InTyped
<1>10. PICK dg : dg = dirGate'
  OBVIOUS
<1>11. \A d \in Dirs : dg[d] = IF dirGate[d] = p /\ in[p].back = "open" THEN InNone ELSE dirGate[d]
  BY <1>1, <1>10
<1>12. \A n \in AllNames : InDir[n] \in Dirs
  BY DEF AllNames, Dirs, Range
<1>13. OthersHold(T, p, name, dg)
  <2>1. ASSUME NEW q \in InProcs \ {p}
        PROVE  /\ in[q].pc = "open" => T[in[q].ino].mode
               /\ in[q].op = "creat" => dg[InDir[in[q].name]] = dirGate[InDir[in[q].name]]
    <3>1. CallHolds(T, q, in[q], name, dirGate)
      BY CallNow
    <3>2. in[q].op = "creat" => InDir[in[q].name] \in Dirs /\ dirGate[InDir[in[q].name]] = q
      BY <1>12, <3>1 DEF CallHolds, InBase, InTyped, CallWell
    <3> QED BY <1>11, <3>1, <3>2 DEF CallHolds
  <2> QED BY <2>1, OthersKept
<1>14. sb.tinode \in Int /\ sb'.tinode = sb.tinode /\ name' = name
  BY <1>1 DEF InBase, InTyped
<1>15. /\ inode[s].gate \in {p, InNone} /\ (in[p].pc \in Locking => in[p].ip = s)
       /\ \A k \in InInos : k # inode[s].ino => dinode'[k] = dinode[k]
       /\ in[p].op # "unlink" /\ OthersHold(T, p, name, dirGate')
  BY <1>2, <1>5, <1>6, <1>9, <1>10, <1>13
<1>16. CASE /\ inode[s].refc = 0 /\ inode[s].nlink = 0
            /\ Ends(p, On(in[p], "ifree", i, s), s,
                    Entry(i, inode[s].refc, inode[s].nlink, inode[s].mode, FALSE, p))
  <2>1. PICK c : c = On(in[p], "ifree", i, s)
    OBVIOUS
  <2>2. in[p].back = "idle" /\ in[p].op # "creat"
    BY <1>5, <1>6, <1>16
  <2>3. c.pc = "ifree" /\ c.op = in[p].op /\ c.name = in[p].name /\ c.ino = i /\ c.ip = s /\ c.copy = in[p].copy
        /\ c.unlock = in[p].unlock /\ c.back = "idle" /\ c.pc \in Locking
    BY <2>1, <2>2 DEF On, Call, Locking
  <2>4. PICK e : e = Entry(i, inode[s].refc, inode[s].nlink, inode[s].mode, FALSE, p)
    OBVIOUS
  <2>5. e.ino = i /\ e.refc = 0 /\ e.nlink = 0 /\ e.mode = inode[s].mode /\ e.mod = FALSE /\ e.gate = p
    BY <1>16, <2>4 DEF Entry
  <2>6. ~ e.mode
    BY <1>5, <1>16, <2>2, <2>5
  <2>7. c.copy.nlink = 0
    BY <1>5, <1>16, <2>3 DEF Is
  <2>8. LockHolds(p, c, e)
    BY <1>5, <2>3, <2>5, <2>6, <2>7 DEF LockHolds
  <2>9. CallHolds(T, p, c, name, dirGate')
    BY <1>6, <2>2, <2>3 DEF CallHolds
  <2>10. Owed(c) = 1 /\ Owed(in[p]) = 1
    BY <1>1, <2>2, <2>3, <2>7 DEF Owed, Owes
  <2>11. Is(e, T[e.ino])
    BY <1>7, <1>16, <2>5 DEF Is
  <2>12. Ends(p, c, s, e)
    BY <1>16, <2>1, <2>4
  <2>13. sb'.tinode = sb.tinode - Owed(c) + Owed(in[p])
    BY <1>14, <2>10
  <2>14. /\ e.gate \in {p, InNone} /\ (e.gate = InNone /\ e.refc = 0 => ~ e.mod)
         /\ (e.gate = p <=> c.pc \in Locking) /\ c.pc # "icopydm" /\ e.ino = inode[s].ino
         /\ (inode[s].ino \in InInos => dinode'[inode[s].ino] = T[inode[s].ino])
         /\ (c.pc \in Locking => c.ip = s /\ LockHolds(p, c, e)) /\ c.op # "unlink"
    BY <1>5, <1>6, <1>9, <2>3, <2>5, <2>8
  <2> QED BY <1>14, <1>15, <2>9, <2>11, <2>12, <2>13, <2>14, ExactEndsOn
<1>17. CASE /\ ~ (inode[s].refc = 0 /\ inode[s].nlink = 0)
            /\ Ends(p, Backs(in[p]), s,
                    Entry(i, inode[s].refc, inode[s].nlink, inode[s].mode, FALSE, InNone))
  <2>1. PICK c : c = Backs(in[p])
    OBVIOUS
  <2>2. /\ in[p].back = "open" => c.pc = "open" /\ c.op = "none" /\ c.ino = i
        /\ in[p].back = "idle" => c.pc = "idle" /\ c.op = "none"
        /\ in[p].back = "isync" => c.pc = "isync" /\ c.op = in[p].op /\ c.name = in[p].name
    <3>1. CASE in[p].back = "open"
      BY <1>3, <2>1, <3>1 DEF Backs, Opens, Call
    <3>2. CASE in[p].back = "idle"
      BY <2>1, <3>2 DEF Backs, Idle
    <3>3. CASE in[p].back = "isync"
      BY <2>1, <3>3 DEF Backs, Call
    <3> QED BY <1>6, <3>1, <3>2, <3>3
  <2>3. PICK e : e = Entry(i, inode[s].refc, inode[s].nlink, inode[s].mode, FALSE, InNone)
    OBVIOUS
  <2>4. e.ino = i /\ e.refc = inode[s].refc /\ e.nlink = inode[s].nlink /\ e.mode = inode[s].mode
        /\ e.mod = FALSE /\ e.gate = InNone
    BY <2>3 DEF Entry
  <2>5. c.pc \in {"open", "idle", "isync"} /\ c.op \in {"none", "creat"} /\ c.pc \notin Locking
    BY <1>6, <2>2 DEF Locking
  <2>6. CallHolds(T, p, c, name, dg)
    <3>1. c.pc = "open" => T[c.ino].mode
      <4>1. c.pc = "open" => in[p].back = "open"
        BY <1>6, <2>2
      <4> QED BY <1>5, <1>7, <2>2, <4>1 DEF Is
    <3>2. ASSUME c.op = "creat"
          PROVE  dg[InDir[c.name]] = p /\ name[c.name] = 0
      <4>1. in[p].back = "isync" /\ in[p].op = "creat" /\ c.name = in[p].name /\ c.name \in AllNames
        BY <1>6, <2>2, <3>2
      <4>2. dirGate[InDir[c.name]] = p /\ name[c.name] = 0
        BY <1>4, <4>1 DEF CallHolds
      <4> QED BY <1>11, <1>12, <4>1, <4>2
    <3> QED BY <2>5, <3>1, <3>2 DEF CallHolds
  <2>7. Owed(c) = 0 /\ Owed(in[p]) = 0
    <3>1. ~ Owes(c)
      BY <2>5 DEF Owes, Looking
    <3>2. in[p].back = "idle" => in[p].copy.nlink # 0
      BY <1>5, <1>17 DEF Is
    <3>3. ~ Owes(in[p])
      BY <1>1, <3>2 DEF Owes, Looking
    <3> QED BY <3>1, <3>3 DEF Owed
  <2>8. Is(e, T[e.ino])
    BY <1>7, <2>4 DEF Is
  <2>9. Ends(p, c, s, e)
    BY <1>17, <2>1, <2>3
  <2>10. sb'.tinode = sb.tinode - Owed(c) + Owed(in[p])
    BY <1>14, <2>7
  <2>11. CallHolds(T, p, c, name, dirGate')
    BY <1>10, <2>6
  <2>12. /\ e.gate \in {p, InNone} /\ (e.gate = InNone /\ e.refc = 0 => ~ e.mod)
         /\ (e.gate = p <=> c.pc \in Locking) /\ c.pc # "icopydm" /\ e.ino = inode[s].ino
         /\ (inode[s].ino \in InInos => dinode'[inode[s].ino] = T[inode[s].ino])
         /\ (c.pc \in Locking => c.ip = s /\ LockHolds(p, c, e)) /\ c.op # "unlink"
    BY <1>4, <1>5, <1>9, <2>4, <2>5
  <2> QED BY <1>14, <1>15, <2>8, <2>9, <2>10, <2>11, <2>12, ExactEndsOn
<1> QED BY <1>1, <1>2, <1>3, <1>5, <1>16, <1>17

LEMMA ExactIfree ==
  ASSUME InBase, InSingle, NEW T, Exactly(T), NEW p \in InProcs, ifree(p)
  PROVE  Exactly(T)'
<1>1. /\ in[p].pc = "ifree" /\ UNCHANGED <<dinode, name, dirGate, overflow>>
      /\ in[p].ip \in InSlots /\ in[p].ino \in InInos
      /\ sb'.tinode = sb.tinode + 1
      /\ Ends(p, Backs(in[p]), in[p].ip,
              Entry(inode[in[p].ip].ino, inode[in[p].ip].refc, inode[in[p].ip].nlink,
                    inode[in[p].ip].mode, inode[in[p].ip].mod,
                    IF in[p].unlock THEN InNone ELSE inode[in[p].ip].gate))
  BY BaseIfree
<1>2. PICK s \in InSlots : s = in[p].ip
  BY <1>1
<1>3. PICK i \in InInos : i = in[p].ino
  BY <1>1
<1>4. /\ LockHolds(p, in[p], inode[s]) /\ p # InNone /\ EntryHolds(T, inode[s], s, in) /\ i # 0
  BY <1>1, <1>2, CallNow, InAssumption DEF Locking
<1>5. /\ inode[s].gate = p /\ inode[s].ino = i /\ inode[s].refc = 0 /\ ~ inode[s].mod /\ ~ inode[s].mode
      /\ in[p].unlock /\ in[p].copy.nlink = 0 /\ in[p].back = "idle"
  BY <1>1, <1>3, <1>4 DEF LockHolds
<1>6. in[p].op = "none"
  BY <1>1, <1>5 DEF InBase, InTyped, CallWell, Looking, InCalls
<1>7. PICK c : c = Backs(in[p])
  OBVIOUS
<1>8. c.pc = "idle" /\ c.op = "none" /\ c.pc \notin Locking
  BY <1>5, <1>7 DEF Backs, Idle, Locking
<1>9. PICK e : e = Entry(i, inode[s].refc, inode[s].nlink, inode[s].mode, inode[s].mod, InNone)
  OBVIOUS
<1>10. e.ino = i /\ e.refc = 0 /\ e.nlink = inode[s].nlink /\ e.mode = inode[s].mode /\ ~ e.mod /\ e.gate = InNone
  BY <1>5, <1>9 DEF Entry
<1>11. Ends(p, c, s, e)
  BY <1>1, <1>2, <1>5, <1>7, <1>9
<1>12. Is(e, T[e.ino])
  BY <1>1, <1>4, <1>5, <1>10 DEF EntryHolds, Is
<1>13. dinode[i] = T[i]
  BY <1>1, <1>5, DiskAt DEF Dirty
<1>14. CallHolds(T, p, c, name, dirGate)
  BY <1>8 DEF CallHolds
<1>15. Owed(c) = 0 /\ Owed(in[p]) = 1
  BY <1>1, <1>5, <1>6, <1>8 DEF Owed, Owes
<1>16. sb'.tinode = sb.tinode - Owed(c) + Owed(in[p])
  <2>1. sb.tinode \in Int
    BY DEF InBase, InTyped
  <2> QED BY <1>1, <1>15, <2>1
<1>17. /\ inode[s].gate \in {p, InNone} /\ (in[p].pc \in Locking => in[p].ip = s)
       /\ \A k \in InInos : k # inode[s].ino => dinode'[k] = dinode[k]
       /\ e.gate \in {p, InNone} /\ (e.gate = InNone /\ e.refc = 0 => ~ e.mod)
       /\ (e.gate = p <=> c.pc \in Locking) /\ c.pc # "icopydm" /\ e.ino = inode[s].ino
       /\ (inode[s].ino \in InInos => dinode'[inode[s].ino] = T[inode[s].ino])
       /\ (c.pc \in Locking => c.ip = s /\ LockHolds(p, c, e)) /\ c.op # "unlink" /\ in[p].op # "unlink"
       /\ UNCHANGED <<name, dirGate>>
  BY <1>1, <1>2, <1>4, <1>5, <1>6, <1>8, <1>10, <1>13
<1> QED BY <1>11, <1>12, <1>14, <1>16, <1>17, ExactEndsSame

LEMMA ExactIsync ==
  ASSUME InBase, InSingle, InOneDirectory, NEW T, Exactly(T), NEW p \in InProcs, isync(p)
  PROVE  Exactly(T)'
<1>1. /\ in[p].pc = "isync" /\ Unmoved
      /\ \/ \E s \in InSlots :
              /\ inode[s].refc # 0 /\ inode[s].mod /\ inode[s].ino \in InInos
              /\ Ends(p, Call("icopymd", "creat", in[p].name, inode[s].ino, s,
                              File(inode[s].mode, inode[s].nlink), inode[s].gate = InNone, "isync"),
                      s, Entry(inode[s].ino, inode[s].refc, inode[s].nlink, inode[s].mode, inode[s].mod,
                               IF inode[s].gate = InNone THEN p ELSE inode[s].gate))
         \/ Goes(p, On(in[p], "scan", in[p].ino, in[p].ip))
  BY BaseIsync
<1>2. in[p].op = "creat"
  BY <1>1 DEF InBase, InTyped, CallWell
<1>3. UNCHANGED <<dinode, sb, name, dirGate>> /\ sb.tinode \in Int
  BY <1>1 DEF Unmoved, InBase, InTyped
<1>4. CASE Goes(p, On(in[p], "scan", in[p].ino, in[p].ip))
  <2>1. PICK x : x = "scan"
    OBVIOUS
  <2>2. Goes(p, On(in[p], x, in[p].ino, in[p].ip)) /\ x \in {"ialloc", "isync", "scan"}
    BY <1>4, <2>1
  <2>3. sb'.tinode = IF in[p].pc = "busy" THEN sb.tinode + 1 ELSE sb.tinode
    BY <1>1, <1>3
  <2> QED BY <1>1, <1>3, <2>2, <2>3, ExactCreates
<1>5. ASSUME NEW s \in InSlots, inode[s].refc # 0, inode[s].mod, inode[s].ino \in InInos,
             Ends(p, Call("icopymd", "creat", in[p].name, inode[s].ino, s,
                          File(inode[s].mode, inode[s].nlink), inode[s].gate = InNone, "isync"),
                  s, Entry(inode[s].ino, inode[s].refc, inode[s].nlink, inode[s].mode, inode[s].mod,
                           IF inode[s].gate = InNone THEN p ELSE inode[s].gate))
      PROVE  Exactly(T)'
  <2>1. EntryHolds(T, inode[s], s, in) /\ inode[s] \in InEntries /\ p # InNone
        /\ CallHolds(T, p, in[p], name, dirGate)
    BY CallNow, InAssumption DEF InBase, InTyped
  \* Nobody has the inode locked: only creat keeps a changed one that is in use.
  <2>2. inode[s].gate = InNone
    <3> SUFFICES ASSUME inode[s].gate # InNone PROVE FALSE
      OBVIOUS
    <3>1. PICK q \in InProcs : q = inode[s].gate
      BY <2>1 DEF InEntries
    <3>2. in[q].ip = s /\ in[q].pc \in Locking
      BY <2>1, <3>1 DEF EntryHolds
    <3>3. LockHolds(q, in[q], inode[s])
      BY <3>2, CallNow
    <3>4. in[q].pc # "icopydm" /\ in[q].pc # "ifree" /\ (in[q].pc = "icopymd" => in[q].back # "idle")
      BY <1>5, <3>3 DEF LockHolds
    <3>5. in[q].op = "creat"
      BY <3>2, <3>4 DEF Locking, InBase, InTyped, CallWell
    <3>6. q = p
      BY <1>2, <3>5, CreatsAlone
    <3> QED BY <1>1, <3>2, <3>6 DEF Locking
  <2>3. PICK i \in InInos : i = inode[s].ino
    BY <1>5
  <2>4. PICK v \in InFiles : v = File(inode[s].mode, inode[s].nlink)
                             /\ v.mode = inode[s].mode /\ v.nlink = inode[s].nlink
    <3>1. inode[s].mode \in BOOLEAN /\ inode[s].nlink \in Int
      BY <2>1 DEF InEntries
    <3> QED BY <3>1, FileIs, Zenon
  <2>5. PICK b : b = (inode[s].gate = InNone)
    OBVIOUS
  <2>6. PICK c : c = Call("icopymd", "creat", in[p].name, i, s, v, b, "isync")
    OBVIOUS
  <2>7. c.pc = "icopymd" /\ c.op = "creat" /\ c.name = in[p].name /\ c.ino = i /\ c.ip = s /\ c.copy = v
        /\ c.unlock = b /\ c.back = "isync" /\ c.pc \in Locking
    BY <2>6 DEF Call, Locking
  <2>8. PICK e : e = Entry(i, inode[s].refc, inode[s].nlink, inode[s].mode, inode[s].mod, p)
    OBVIOUS
  <2>9. e.ino = i /\ e.refc = inode[s].refc /\ e.nlink = inode[s].nlink /\ e.mode = inode[s].mode
        /\ e.mod = inode[s].mod /\ e.gate = p
    BY <2>8 DEF Entry
  <2>10. Ends(p, c, s, e)
    BY <1>5, <2>2, <2>3, <2>4, <2>5, <2>6, <2>8
  <2>11. Is(e, T[e.ino]) /\ i # 0
    BY <2>1, <2>2, <2>3, <2>9, InAssumption DEF EntryHolds, Is
  <2>12. LockHolds(p, c, e)
    BY <1>5, <2>2, <2>4, <2>5, <2>7, <2>9 DEF LockHolds, Is
  <2>13. CallHolds(T, p, c, name, dirGate)
    BY <1>1, <1>2, <2>1, <2>7 DEF CallHolds
  <2>14. Owed(c) = 0 /\ Owed(in[p]) = 0
    BY <1>1, <2>7 DEF Owed, Owes, Looking
  <2>15. sb'.tinode = sb.tinode - Owed(c) + Owed(in[p])
    BY <1>3, <2>14
  <2>16. /\ inode[s].gate \in {p, InNone} /\ (in[p].pc \in Locking => in[p].ip = s)
         /\ \A k \in InInos : k # inode[s].ino => dinode'[k] = dinode[k]
         /\ e.gate \in {p, InNone} /\ (e.gate = InNone /\ e.refc = 0 => ~ e.mod)
         /\ (e.gate = p <=> c.pc \in Locking) /\ c.pc # "icopydm" /\ e.ino = inode[s].ino
         /\ e.mod
         /\ (c.pc \in Locking => c.ip = s /\ LockHolds(p, c, e)) /\ c.op # "unlink" /\ in[p].op # "unlink"
    BY <1>1, <1>2, <1>3, <1>5, <2>1, <2>2, <2>3, <2>7, <2>9, <2>12 DEF Locking
  <2> QED BY <1>3, <2>10, <2>11, <2>13, <2>15, <2>16, ExactEndsSame
<1> QED BY <1>1, <1>4, <1>5

-----------------------------------------------------------------------------
(* The theorem.                                                            *)

InExactInv == InBase /\ (overflow \/ \E T : Exactly(T))

LEMMA ExactInit == InInit => InExactInv
<1> SUFFICES ASSUME InInit PROVE InExactInv
  OBVIOUS
<1>1. InBase
  BY BaseInit
<1>2. PICK v \in InFiles : v = [mode |-> FALSE, nlink |-> 0] /\ v.mode = FALSE /\ v.nlink = 0
  <2>1. 0 \in Int
    OBVIOUS
  <2> QED BY <2>1, FileIs, Zenon DEF File
<1>3. v.mode = FALSE /\ v.nlink = 0
  BY <1>2
<1>4. PICK T \in [InInos -> InFiles] : T = [i \in InInos |-> v]
  OBVIOUS
<1>5. \A i \in InInos : T[i] = v /\ i # 0
  BY <1>4, InAssumption
<1>6. \A s \in InSlots : inode[s].ino = 0 /\ inode[s].gate = InNone /\ inode[s].mod = FALSE
  BY DEF InInit
<1>7. dinode = T
  BY <1>2, <1>4 DEF InInit
<1>8. \A p \in InProcs : in[p].pc = "idle" /\ in[p].op = "none"
  BY DEF InInit, Idle
<1>9. \A n \in AllNames : name[n] = 0
  BY DEF InInit
<1>10. \A s \in InSlots : EntryHolds(T, inode[s], s, in)
  BY <1>6 DEF EntryHolds
<1>11. OnDisk(T, dinode, inode, in)
  BY <1>7 DEF OnDisk
<1>12. \A p \in InProcs : in[p].pc \notin Locking /\ CallHolds(T, p, in[p], name, dirGate)
  BY <1>8 DEF CallHolds, Locking
<1>13. Linked(T, name, in)
  BY <1>3, <1>5, <1>8, <1>9 DEF Linked, LinkedAt, Unlinking
<1>14. Totalled(T, sb.tinode, in)
  <2>1. {i \in InInos : ~ T[i].mode} = InInos
    BY <1>3, <1>5
  <2>2. {p \in InProcs : Owes(in[p])} = {}
    BY <1>8 DEF Owes
  <2>3. sb.tinode = Cardinality(InInos) /\ Cardinality(InInos) \in Nat
    BY InAssumption, FS_CardinalityType DEF InInit
  <2>4. Cardinality({}) = 0
    BY FS_EmptySet
  <2>5. Cardinality({i \in InInos : ~ T[i].mode}) = Cardinality(InInos)
        /\ Cardinality({p \in InProcs : Owes(in[p])}) = 0
    BY <2>1, <2>2, <2>4
  <2> QED BY <2>3, <2>5 DEF Totalled
<1>15. Exactly(T)
  BY <1>10, <1>11, <1>12, <1>13, <1>14 DEF Exactly, ExactlyAt
<1> QED BY <1>1, <1>15 DEF InExactInv

LEMMA ExactUnchanged ==
  ASSUME NEW T, Exactly(T), UNCHANGED inVars
  PROVE  Exactly(T)'
BY DEF Exactly, inVars

LEMMA ExactStep ==
  ASSUME InOneDirectory, InOwnUnlinks
  PROVE  InExactInv /\ InSingle /\ [InNext]_inVars => InExactInv'
<1> SUFFICES ASSUME InExactInv, InSingle, [InNext]_inVars PROVE InExactInv'
  OBVIOUS
<1>1. InBase /\ InBase'
  BY BaseStep DEF InExactInv
<1>2. overflow => overflow'
  <2> SUFFICES ASSUME overflow, overflow' # overflow PROVE overflow'
    OBVIOUS
  <2>1. ~ UNCHANGED inVars
    BY DEF inVars
  <2>2. ASSUME NEW p \in InProcs, NEW n \in AllNames
        PROVE  ~ open(p, n) /\ ~ creat(p, n) /\ ~ do_unlink(p, n)
    BY DEF open, creat, do_unlink
  <2>3. ASSUME NEW p \in InProcs
        PROVE  ~ iattach(p) /\ ~ iattachWoken(p) /\ ~ inode_findWoken(p) /\ ~ icopydm(p) /\ ~ ialloc(p)
    BY DEF iattach, iattachWoken, inode_findWoken, icopydm, ialloc
  <2>4. ASSUME NEW p \in InProcs
        PROVE  ~ iallocRefill(p) /\ ~ iallocBusy(p) /\ ~ iallocRecount(p) /\ ~ imake(p)
    BY DEF iallocRefill, iallocBusy, iallocRecount, imake
  <2>5. ASSUME NEW p \in InProcs
        PROVE  ~ icopymd(p) /\ ~ ifree(p) /\ ~ iclose(p) /\ ~ isync(p)
    BY DEF icopymd, ifree, iclose, isync
  <2>6. \E p \in InProcs : iattachFails(p)
    BY <2>1, <2>2, <2>3, <2>4, <2>5 DEF InNext
  <2> QED BY <2>6 DEF iattachFails
<1>3. ASSUME ~ overflow, ~ overflow' PROVE \E U : Exactly(U)'
  <2>1. PICK T : Exactly(T)
    BY <1>3 DEF InExactInv
  <2>2. CASE UNCHANGED inVars
    BY <2>1, <2>2, ExactUnchanged
  <2>3. ASSUME NEW p \in InProcs,
               \/ \E n \in AllNames : open(p, n) \/ creat(p, n) \/ do_unlink(p, n)
               \/ iattach(p) \/ iattachFails(p) \/ iattachWoken(p) \/ inode_findWoken(p)
               \/ icopydm(p) \/ ialloc(p) \/ iallocRefill(p)
               \/ iallocBusy(p) \/ iallocRecount(p) \/ imake(p)
               \/ icopymd(p) \/ ifree(p) \/ iclose(p)
               \/ isync(p)
        PROVE  \E U : Exactly(U)'
    <3>1. ASSUME NEW n \in AllNames, open(p, n) \/ creat(p, n) \/ do_unlink(p, n) PROVE Exactly(T)'
      BY <1>1, <2>1, <3>1, ExactOpen, ExactCreat, ExactUnlink
    <3>2. ASSUME iattach(p) \/ iattachWoken(p) \/ inode_findWoken(p) \/ icopydm(p) \/ iclose(p) \/ imake(p)
          PROVE  \E U : Exactly(U)'
      BY <1>1, <2>1, <3>2, ExactIattach, ExactIcopydm, ExactIclose, ExactImake
    <3>3. ASSUME ialloc(p) \/ iallocRefill(p) \/ iallocBusy(p) \/ iallocRecount(p) \/ icopymd(p) \/ ifree(p)
                 \/ isync(p)
          PROVE  Exactly(T)'
      BY <1>1, <2>1, <3>3, ExactIalloc, ExactRefill, ExactBusy, ExactRecount, ExactIcopymd, ExactIfree,
         ExactIsync
    <3>4. ~ iattachFails(p)
      BY <1>3 DEF iattachFails
    <3> QED BY <2>3, <3>1, <3>2, <3>3, <3>4
  <2> QED BY <2>2, <2>3 DEF InNext
<1> QED BY <1>1, <1>2, <1>3 DEF InExactInv

\* With nobody in the kernel, what programs see of inode i is T[i].
LEMMA CurrentIs ==
  ASSUME InBase, InSingle, NEW T, Exactly(T), Quiet, NEW i \in InInos
  PROVE  Current(i).mode = T[i].mode /\ Current(i).nlink = T[i].nlink
<1>1. ASSUME NEW s \in InSlots PROVE inode[s].gate = InNone /\ EntryHolds(T, inode[s], s, in)
  <2>1. EntryHolds(T, inode[s], s, in) /\ inode[s] \in InEntries
    BY DEF Exactly, ExactlyAt, InBase, InTyped
  <2>2. inode[s].gate \in InProcs \cup {InNone}
    BY <2>1 DEF InEntries
  <2> QED BY <2>1, <2>2 DEF EntryHolds, Quiet, Locking
<1>2. i # 0
  BY InAssumption
<1>3. CASE \E s \in InSlots : inode[s].ino = i
  <2>1. PICK s \in InSlots : inode[s].ino = i
    BY <1>3
  <2>2. \A t \in InSlots : inode[t].ino = i => t = s
    BY <1>2, <2>1 DEF InSingle
  <2>3. s <= s
    BY InAssumption
  <2>4. Current(i) = inode[CHOOSE u \in InSlots : inode[u].ino = i /\ \A t \in InSlots : inode[t].ino = i => u <= t]
    BY <1>3 DEF Current
  <2>5. PICK u : u = CHOOSE x \in InSlots : inode[x].ino = i /\ \A t \in InSlots : inode[t].ino = i => x <= t
    OBVIOUS
  <2>6. inode[s].ino = i /\ \A t \in InSlots : inode[t].ino = i => s <= t
    BY <2>1, <2>2, <2>3
  <2>7. u \in InSlots /\ inode[u].ino = i
    BY <2>5, <2>6
  <2>8. Current(i) = inode[s]
    BY <2>2, <2>4, <2>5, <2>7
  <2>9. Is(inode[s], T[i])
    BY <1>1, <1>2, <2>1 DEF EntryHolds
  <2> QED BY <2>8, <2>9 DEF Is
<1>4. CASE ~ \E s \in InSlots : inode[s].ino = i
  <2>1. dinode[i] = T[i]
    BY <1>4 DEF Exactly, ExactlyAt, OnDisk
  <2>2. Current(i) = dinode[i]
    BY <1>4 DEF Current
  <2> QED BY <2>1, <2>2
<1> QED BY <1>3, <1>4

LEMMA ExactQuiet ==
  ASSUME InBase, InSingle, NEW T, Exactly(T), Quiet
  PROVE  /\ sb.tinode = Cardinality({i \in InInos : ~ Current(i).mode})
         /\ \A i \in InInos :
              /\ Current(i).nlink = Cardinality({n \in AllNames : name[n] = i})
              /\ Current(i).nlink <= 1
              /\ \A p \in InProcs : (in[p].pc = "open" /\ in[p].ino = i) => Current(i).mode
<1>1. \A i \in InInos : Current(i).mode = T[i].mode /\ Current(i).nlink = T[i].nlink
  BY CurrentIs
<1>2. \A p \in InProcs : in[p].pc \in {"idle", "open"} /\ in[p].op = "none" /\ ~ Owes(in[p])
  BY DEF Quiet, Owes, Looking, InBase, InTyped, CallWell, InCalls
<1>3. sb.tinode = Cardinality({i \in InInos : ~ Current(i).mode})
  <2>1. {i \in InInos : ~ Current(i).mode} = {i \in InInos : ~ T[i].mode}
    BY <1>1
  <2>2. {p \in InProcs : Owes(in[p])} = {}
    BY <1>2
  <2>3. Cardinality({p \in InProcs : Owes(in[p])}) = 0
    BY <2>2, FS_EmptySet
  <2>4. PICK k \in Nat : k = Cardinality({i \in InInos : ~ T[i].mode})
    BY InAssumption, FS_Subset, FS_CardinalityType
  <2>5. sb.tinode = k
    BY <2>3, <2>4 DEF Exactly, ExactlyAt, Totalled
  <2> QED BY <2>1, <2>4, <2>5
<1>4. ASSUME NEW i \in InInos
      PROVE  /\ Current(i).nlink = Cardinality({n \in AllNames : name[n] = i})
             /\ Current(i).nlink <= 1
             /\ \A p \in InProcs : (in[p].pc = "open" /\ in[p].ino = i) => Current(i).mode
  <2>1. LinkedAt(T[i], name, in, i)
    BY DEF Exactly, ExactlyAt, Linked
  <2>2. \A p \in InProcs : ~ Unlinking(in[p], i)
    BY <1>2 DEF Unlinking
  <2>3. ASSUME T[i].nlink = 1 PROVE Current(i).nlink = Cardinality({m \in AllNames : name[m] = i})
    <3>1. PICK n \in AllNames : name[n] = i
      BY <2>1, <2>2, <2>3 DEF LinkedAt
    <3>2. {m \in AllNames : name[m] = i} = {n}
      BY <2>1, <3>1 DEF LinkedAt
    <3>3. Cardinality({n}) = 1
      BY FS_Singleton
    <3> QED BY <1>1, <2>3, <3>2, <3>3
  <2>4. ASSUME T[i].nlink # 1 PROVE Current(i).nlink = Cardinality({m \in AllNames : name[m] = i})
    <3>1. {m \in AllNames : name[m] = i} = {}
      BY <2>1, <2>4 DEF LinkedAt
    <3>2. T[i].nlink = 0
      BY <2>1, <2>4 DEF LinkedAt
    <3> QED BY <1>1, <3>1, <3>2, FS_EmptySet
  <2>5. Current(i).nlink <= 1
    BY <1>1, <2>1 DEF LinkedAt
  <2>6. \A p \in InProcs : (in[p].pc = "open" /\ in[p].ino = i) => Current(i).mode
    BY <1>1 DEF Exactly, ExactlyAt, CallHolds
  <2> QED BY <2>3, <2>4, <2>5, <2>6
<1> QED BY <1>3, <1>4

(***************************************************************************)
(* Reference counts, the count of free inodes and the links of inodes are  *)
(* exact, while no inode is in memory twice (inode_find lets that happen,  *)
(* see the run inode_twice), if the names are in one directory, so that    *)
(* isync meets no locked inode, and nobody opens what others unlink.       *)
(***************************************************************************)
THEOREM InodesExact ==
  ASSUME InOneDirectory, InOwnUnlinks
  PROVE  InSpec /\ []InSingle => []InExact
<1>1. InExactInv /\ InSingle => InExact
  <2> SUFFICES ASSUME InExactInv, InSingle PROVE InExact
    OBVIOUS
  <2>1. InRefs
    BY DEF InExactInv, InBase, InRefs, Counted, RefersTo, Refers
  <2>2. InTotal /\ InLinks
    BY ExactQuiet DEF InExactInv, InTotal, InLinks
  <2> QED BY <2>1, <2>2 DEF InExact
<1>2. InInit => InExactInv
  BY ExactInit
<1>3. InExactInv /\ InSingle /\ [InNext]_inVars => InExactInv'
  BY ExactStep
<1> QED BY <1>1, <1>2, <1>3, PTL DEF InSpec
====
