---- MODULE Gate ----
(***************************************************************************)
(* The kernel's sleep locks: __GATE_LOCK, __GATE_UNLOCK and                *)
(* __GATE_TO_INTERRUPT of coh.386/proc.c, with the x_sleep/wakeup pair     *)
(* they are built on.  Inodes, buffers, free lists, the segment list and   *)
(* the record lock table are all protected by such gates.                  *)
(*                                                                         *)
(* The kernel is not preempted: a process runs from one x_sleep to the     *)
(* next, and __GATE_LOCK raises the interrupt level around its test, so    *)
(* each turn of its loop is one step.  Between two gate operations a       *)
(* process may sleep for reasons of its own (disk, terminal), hence any    *)
(* runnable process may take the next step.  disflag, which only asks for  *)
(* an early reschedule, is not kept.                                       *)
(***************************************************************************)
EXTENDS Naturals, FiniteSets

CONSTANTS
  Procs,      \* the processes
  Gates,      \* the gates
  Counted,    \* gates initialised with __GATE_COUNT: inodes, free lists
  IntrGates,  \* gates that are handed to interrupt level: buffers
  Rank,       \* the order in which callers nest gates
  Procq,      \* "& procq", the owner recorded for interrupt level
  Nobody      \* the value of _lastlock before the first lock

ASSUME GateAssumption ==
  /\ IsFiniteSet(Gates)
  /\ Counted \subseteq Gates
  /\ IntrGates \subseteq Gates
  /\ Counted \cap IntrGates = {}
  /\ Rank \in [Gates -> Nat]
  /\ Procq \notin Procs
  /\ Nobody \notin Procs
  /\ Nobody # Procq
  /\ Nobody \notin Gates

VARIABLES
  lock,       \* lock[g]: _lock[0], the gate is taken
  want,       \* want[g]: _lock[1], somebody sleeps on the gate
  lastlock,   \* lastlock[g]: _lastlock
  lockCnt,    \* lockCnt[p]: u.u_lock_cnt
  state,      \* state[p]: p_state
  event,      \* event[p]: p_event, the gate p sleeps on
  locking,    \* locking[p]: the gate of the __GATE_LOCK p is inside of
  holds,      \* holds[p]: the gates whose __GATE_LOCK returned to p
  inKernel    \* the processes inside a system call

vars == <<lock, want, lastlock, lockCnt, state, event, locking, holds, inKernel>>

PSRUN == "PSRUN"
PSSLEEP == "PSSLEEP"

Init ==
  /\ lock = [g \in Gates |-> FALSE]
  /\ want = [g \in Gates |-> FALSE]
  /\ lastlock = [g \in Gates |-> Nobody]
  /\ lockCnt = [p \in Procs |-> 0]
  /\ state = [p \in Procs |-> PSRUN]
  /\ event = [p \in Procs |-> Nobody]
  /\ locking = [p \in Procs |-> Nobody]
  /\ holds = [p \in Procs |-> {}]
  /\ inKernel = {}

\* x_sleep (event, primed, slpriNoSig, reason).
x_sleep(p, e) ==
  /\ state' = [state EXCEPT ![p] = PSSLEEP]
  /\ event' = [event EXCEPT ![p] = e]

\* Mutant of wakeup: only one of the sleepers is made runnable.
wakeupOne(e) ==
  LET asleep == {p \in Procs : state[p] = PSSLEEP /\ event[p] = e} IN
  state' = IF asleep = {} THEN state
           ELSE [state EXCEPT ![CHOOSE p \in asleep : TRUE] = PSRUN]

\* wakeup (event): every process sleeping on the event becomes runnable.
\* p_event keeps its value; only a sleeping process is on the event queue.
wakeup(e) ==
  state' = [p \in Procs |->
    IF state[p] = PSSLEEP /\ event[p] = e THEN PSRUN ELSE state[p]]

Idle(p) == /\ p \in inKernel
           /\ state[p] = PSRUN
           /\ locking[p] = Nobody

(***************************************************************************)
(* One turn of the loop of __GATE_LOCK: sleep while the gate is taken,     *)
(* take it otherwise.                                                      *)
(***************************************************************************)
GateBusy(p, g) ==
  /\ lock[g]
  /\ want' = [want EXCEPT ![g] = TRUE]
  /\ x_sleep(p, g)
  /\ locking' = [locking EXCEPT ![p] = g]
  /\ UNCHANGED <<lock, lastlock, lockCnt, holds, inKernel>>

\* Mutant of GateTake: "if" for "while", the gate not tested after x_sleep.
GateTakeUntested(p, g) ==
  /\ ~lock[g] \/ locking[p] = g
  /\ lock' = [lock EXCEPT ![g] = TRUE]
  /\ lastlock' = [lastlock EXCEPT ![g] = p]
  /\ lockCnt' = [lockCnt EXCEPT ![p] = IF g \in Counted THEN @ + 1 ELSE @]
  /\ locking' = [locking EXCEPT ![p] = Nobody]
  /\ holds' = [holds EXCEPT ![p] = @ \cup {g}]
  /\ UNCHANGED <<want, state, event, inKernel>>

\* Mutant of GateTake: u_lock_cnt counts the buffers as well.
GateTakeAllCounted(p, g) ==
  /\ ~lock[g]
  /\ lock' = [lock EXCEPT ![g] = TRUE]
  /\ lastlock' = [lastlock EXCEPT ![g] = p]
  /\ lockCnt' = [lockCnt EXCEPT ![p] = @ + 1]
  /\ locking' = [locking EXCEPT ![p] = Nobody]
  /\ holds' = [holds EXCEPT ![p] = @ \cup {g}]
  /\ UNCHANGED <<want, state, event, inKernel>>

GateTake(p, g) ==
  /\ ~lock[g]
  /\ lock' = [lock EXCEPT ![g] = TRUE]
  /\ lastlock' = [lastlock EXCEPT ![g] = p]
  /\ lockCnt' = [lockCnt EXCEPT ![p] = IF g \in Counted THEN @ + 1 ELSE @]
  /\ locking' = [locking EXCEPT ![p] = Nobody]
  /\ holds' = [holds EXCEPT ![p] = @ \cup {g}]
  /\ UNCHANGED <<want, state, event, inKernel>>

GATE_LOCK(p, g) == GateBusy(p, g) \/ GateTake(p, g)

\* Mutant of Lock: a caller takes gates in any order.
LockAnyOrder(p, g) ==
  /\ Idle(p)
  /\ g \notin holds[p]
  /\ GATE_LOCK(p, g)

\* The callers take gates in a fixed order: inode, free list, buffer; so does
\* sysio, which locks the inode around iread and iwrite.  (isync may lock an
\* inode with a free list locked, but then the inode is not locked by others.)
Lock(p, g) ==
  /\ Idle(p)
  /\ \A h \in holds[p] : Rank[h] < Rank[g]
  /\ GATE_LOCK(p, g)

Relock(p) ==
  /\ state[p] = PSRUN
  /\ locking[p] # Nobody
  /\ GATE_LOCK(p, locking[p])

\* Mutant of GATE_UNLOCK: the count goes down for every gate.
GATE_UNLOCK_always(cur, g) ==
  /\ lock' = [lock EXCEPT ![g] = FALSE]
  /\ want' = [want EXCEPT ![g] = FALSE]
  /\ IF want[g] THEN wakeup(g) ELSE UNCHANGED state
  /\ lockCnt' = [lockCnt EXCEPT ![cur] = @ - 1]
  /\ UNCHANGED <<lastlock, event, locking, inKernel>>

(***************************************************************************)
(* __GATE_UNLOCK.  Executed by the process cur, or by an interrupt that    *)
(* arrives while cur is the current process: u.u_lock_cnt is cur's.        *)
(***************************************************************************)
GATE_UNLOCK(cur, g) ==
  /\ lock' = [lock EXCEPT ![g] = FALSE]
  /\ want' = [want EXCEPT ![g] = FALSE]
  /\ IF want[g] THEN wakeup(g) ELSE UNCHANGED state
  /\ lockCnt' = [lockCnt EXCEPT ![cur] =
       IF g \in Counted /\ lastlock[g] # Procq THEN @ - 1 ELSE @]
  /\ UNCHANGED <<lastlock, event, locking, inKernel>>

Unlock(p, g) ==
  /\ Idle(p)
  /\ g \in holds[p]
  /\ holds' = [holds EXCEPT ![p] = @ \ {g}]
  /\ GATE_UNLOCK(p, g)

IntrUnlock(cur, g) ==
  /\ lock[g] /\ lastlock[g] = Procq
  /\ GATE_UNLOCK(cur, g)
  /\ UNCHANGED holds

\* __GATE_TO_INTERRUPT: the process gives the gate to interrupt level.
GATE_TO_INTERRUPT(p, g) ==
  /\ Idle(p)
  /\ g \in holds[p] \cap IntrGates
  /\ lockCnt' = [lockCnt EXCEPT ![p] = IF g \in Counted THEN @ - 1 ELSE @]
  /\ lastlock' = [lastlock EXCEPT ![g] = Procq]
  /\ holds' = [holds EXCEPT ![p] = @ \ {g}]
  /\ UNCHANGED <<lock, want, state, event, locking, inKernel>>

\* A system call begins; it returns once its handler released its gates.
Enter(p) ==
  /\ p \notin inKernel
  /\ inKernel' = inKernel \cup {p}
  /\ UNCHANGED <<lock, want, lastlock, lockCnt, state, event, locking, holds>>

Return(p) ==
  /\ Idle(p)
  /\ holds[p] = {}
  /\ inKernel' = inKernel \ {p}
  /\ UNCHANGED <<lock, want, lastlock, lockCnt, state, event, locking, holds>>

Next ==
  \E p \in Procs :
    \/ Enter(p)
    \/ Return(p)
    \/ Relock(p)
    \/ \E g \in Gates :
         \/ Lock(p, g)
         \/ Unlock(p, g)
         \/ GATE_TO_INTERRUPT(p, g)
         \/ IntrUnlock(p, g)

Spec == Init /\ [][Next]_vars

(***************************************************************************)
(* Critical regions are finite: a process that keeps being scheduled       *)
(* reaches the unlock of every gate it holds.  A process that stays on the *)
(* run queue runs in the end, for p_foodstamp grows each time that         *)
(* get_next_process passes it over; but it may find the gate taken again   *)
(* whenever it does run, and then it starts with a p_foodstamp of 0.  A    *)
(* device that was given a buffer interrupts in the end.                   *)
(***************************************************************************)
Fairness ==
  /\ \A p \in Procs : WF_vars(Relock(p))
  /\ \A p \in Procs, g \in Gates : SF_vars(Unlock(p, g))
  /\ \A g \in Gates : WF_vars(\E p \in Procs : IntrUnlock(p, g))

FairSpec == Spec /\ Fairness

----------------------------------------------------------------------------
\* Types of the variables.
TypeOK ==
  /\ lock \in [Gates -> BOOLEAN]
  /\ want \in [Gates -> BOOLEAN]
  /\ lastlock \in [Gates -> Procs \cup {Procq, Nobody}]
  /\ lockCnt \in [Procs -> Nat]
  /\ state \in [Procs -> {PSRUN, PSSLEEP}]
  /\ event \in [Procs -> Gates \cup {Nobody}]
  /\ locking \in [Procs -> Gates \cup {Nobody}]
  /\ holds \in [Procs -> SUBSET Gates]
  /\ inKernel \in SUBSET Procs

(***************************************************************************)
(* A gate is never held by two processes, and a gate that a process holds  *)
(* is marked taken with that process as its last locker, whatever sleeps   *)
(* and interrupts came between (__GATE_LOCK re-tests after x_sleep).       *)
(***************************************************************************)
MutualExclusion ==
  \A p \in Procs : \A g \in holds[p] :
    /\ lock[g] /\ lastlock[g] = p
    /\ \A q \in Procs \ {p} : g \notin holds[q]

(***************************************************************************)
(* No wakeup is lost: whoever sleeps in __GATE_LOCK sleeps on a gate that  *)
(* is taken and whose _lock[1] tells __GATE_UNLOCK to call wakeup.         *)
(***************************************************************************)
NoLostWakeup ==
  \A p \in Procs :
    state[p] = PSSLEEP =>
      /\ locking[p] \in Gates /\ event[p] = locking[p]
      /\ lock[locking[p]] /\ want[locking[p]]

(***************************************************************************)
(* ksynch.h: u_lock_cnt is the number of counted gates the process holds,  *)
(* hence zero when it is at user level: interrupts that unlock the         *)
(* buffers of other processes never change the current process's count.    *)
(***************************************************************************)
LockCountExact ==
  \A p \in Procs :
    /\ lockCnt[p] = Cardinality(holds[p] \cap Counted)
    /\ p \notin inKernel => lockCnt[p] = 0

(***************************************************************************)
(* Nobody sleeps on a gate for ever because of the way gates are nested:   *)
(* __GATE_UNLOCK wakes the sleeper, unless its holder has gone to sleep on *)
(* a gate nested below; so somebody on the way down is woken, and sleepers *)
(* on the lowest gates always.  That the holder, once woken, gets its gate *)
(* before others take it again is more than the scheduler promises.        *)
(***************************************************************************)
SleeperWakes ==
  \A p \in Procs, g \in Gates :
    state[p] = PSSLEEP /\ event[p] = g ~>
      \/ state[p] = PSRUN
      \/ \E q \in Procs : /\ g \in holds[q]
                          /\ state[q] = PSSLEEP /\ Rank[g] < Rank[event[q]]
====
