---- MODULE SyncProofs ----
(***************************************************************************)
(* Proofs that gates keep mutual exclusion, lose no wakeup and count       *)
(* exactly, that poll () loses no event and leaves nothing pending behind  *)
(* it, that deferred functions run once and in order, that the queues of   *)
(* timeout () stay sound and serve each timer in its tick, and that sleep  *)
(* locks and synchronisation variables strand nobody and hand the lock     *)
(* over, for any number of processes, gates, channels and timers and for   *)
(* tables and queues of any size.                                          *)
(***************************************************************************)
EXTENDS Gate, Poll, Defer, Timeout, Ksynch, SumProofs, FiniteSetTheorems, TLAPS

----------------------------------------------------------------------------
(* Gates.                                                                  *)

\* A held gate is taken, and its last locker is its holder.
HeldIsLocked ==
  \A p \in Procs : \A g \in holds[p] : lock[g] /\ lastlock[g] = p

\* u_lock_cnt is the number of counted gates held.
CountMatches ==
  \A p \in Procs : lockCnt[p] = Cardinality(holds[p] \cap Counted)

\* A process outside the kernel holds no gate.
UserHoldsNothing ==
  \A p \in Procs : p \notin inKernel => holds[p] = {}

\* Only a process in the kernel is inside __GATE_LOCK.
LockingInKernel ==
  \A p \in Procs : locking[p] \in Gates => p \in inKernel

IInv == /\ TypeOK
        /\ HeldIsLocked
        /\ NoLostWakeup
        /\ CountMatches
        /\ UserHoldsNothing
        /\ LockingInKernel

\* How adding or removing a gate changes the number of counted gates.
LEMMA CountChange ==
  ASSUME NEW S \in SUBSET Gates, NEW g \in Gates
  PROVE  /\ Cardinality(S \cap Counted) \in Nat
         /\ g \notin S => Cardinality((S \cup {g}) \cap Counted) =
                IF g \in Counted THEN Cardinality(S \cap Counted) + 1
                                 ELSE Cardinality(S \cap Counted)
         /\ g \in S => Cardinality((S \ {g}) \cap Counted) =
                IF g \in Counted THEN Cardinality(S \cap Counted) - 1
                                 ELSE Cardinality(S \cap Counted)
         /\ g \in S /\ g \in Counted => Cardinality(S \cap Counted) > 0
<1> DEFINE T == S \cap Counted
<1>1. IsFiniteSet(T)
  BY GateAssumption, FS_Subset
<1>2. Cardinality(T) \in Nat
  BY <1>1, FS_CardinalityType
<1>3. ASSUME g \notin S
      PROVE  Cardinality((S \cup {g}) \cap Counted) =
               IF g \in Counted THEN Cardinality(T) + 1 ELSE Cardinality(T)
  <2>1. CASE g \in Counted
    <3>1. (S \cup {g}) \cap Counted = T \cup {g}
      BY <2>1
    <3>2. Cardinality(T \cup {g}) = Cardinality(T) + 1
      BY <1>1, <1>3, FS_AddElement
    <3> QED BY <2>1, <3>1, <3>2
  <2>2. CASE g \notin Counted
    <3>1. (S \cup {g}) \cap Counted = T
      BY <2>2
    <3> QED BY <2>2, <3>1
  <2> QED BY <2>1, <2>2
<1>4. ASSUME g \in S
      PROVE  /\ Cardinality((S \ {g}) \cap Counted) =
                  IF g \in Counted THEN Cardinality(T) - 1 ELSE Cardinality(T)
             /\ g \in Counted => Cardinality(T) > 0
  <2>1. CASE g \in Counted
    <3>1. (S \ {g}) \cap Counted = T \ {g} /\ g \in T
      BY <1>4, <2>1
    <3>2. Cardinality(T \ {g}) = Cardinality(T) - 1
      BY <1>1, <3>1, FS_RemoveElement
    <3>3. Cardinality(T) # 0
      BY <1>1, <3>1, FS_EmptySet
    <3> QED BY <1>2, <2>1, <3>1, <3>2, <3>3
  <2>2. CASE g \notin Counted
    <3>1. (S \ {g}) \cap Counted = T
      BY <2>2
    <3> QED BY <2>2, <3>1
  <2> QED BY <2>1, <2>2
<1> HIDE DEF T
<1> QED BY <1>2, <1>3, <1>4 DEF T

\* The gates start free and nobody holds or waits for one.
LEMMA InitInv == Init => IInv
<1> SUFFICES ASSUME Init PROVE IInv
  OBVIOUS
<1>1. Cardinality({} \cap Counted) = 0
  <2>1. {} \cap Counted = {}
    OBVIOUS
  <2> QED BY <2>1, FS_EmptySet
<1>2. CountMatches
  BY <1>1 DEF Init, CountMatches
<1>3. TypeOK
  BY DEF Init, TypeOK, PSRUN, PSSLEEP
<1> QED
  BY <1>2, <1>3, GateAssumption
  DEF Init, IInv, HeldIsLocked, NoLostWakeup, UserHoldsNothing,
      LockingInKernel, PSRUN, PSSLEEP

\* A turn of the loop of __GATE_LOCK that finds the gate taken.
LEMMA BusyInv ==
  ASSUME IInv, NEW p \in Procs, NEW g \in Gates, p \in inKernel,
         GateBusy(p, g)
  PROVE  IInv'
<1> USE DEF GateBusy, x_sleep, IInv, TypeOK
<1>1. TypeOK'
  BY DEF PSSLEEP
<1>2. HeldIsLocked'
  BY DEF HeldIsLocked
<1>3. NoLostWakeup'
  BY DEF NoLostWakeup
<1>4. CountMatches'
  BY DEF CountMatches
<1>5. UserHoldsNothing' /\ LockingInKernel'
  BY DEF UserHoldsNothing, LockingInKernel
<1> QED BY <1>1, <1>2, <1>3, <1>4, <1>5

\* A turn of the loop of __GATE_LOCK that takes the gate.
LEMMA TakeInv ==
  ASSUME IInv, NEW p \in Procs, NEW g \in Gates, p \in inKernel,
         state[p] = PSRUN, GateTake(p, g)
  PROVE  IInv'
<1> USE DEF IInv, TypeOK
<1>1. TypeOK'
  BY DEF GateTake
<1>2. g \notin holds[p] /\ \A q \in Procs : g \notin holds[q]
  BY DEF GateTake, HeldIsLocked
<1>3. HeldIsLocked'
  BY <1>2 DEF GateTake, HeldIsLocked
<1>4. NoLostWakeup'
  BY DEF GateTake, NoLostWakeup, PSRUN, PSSLEEP
<1>5. CountMatches'
  <2>1. Cardinality((holds[p] \cup {g}) \cap Counted) =
          IF g \in Counted THEN lockCnt[p] + 1 ELSE lockCnt[p]
    <3>1. holds[p] \in SUBSET Gates
      OBVIOUS
    <3> QED BY <1>2, <3>1, CountChange DEF CountMatches
  <2> QED BY <2>1 DEF GateTake, CountMatches
<1>6. UserHoldsNothing' /\ LockingInKernel'
  BY GateAssumption DEF GateTake, UserHoldsNothing, LockingInKernel
<1> QED BY <1>1, <1>3, <1>4, <1>5, <1>6

\* __GATE_UNLOCK by a process that holds the gate.
LEMMA UnlockInv ==
  ASSUME IInv, NEW p \in Procs, NEW g \in Gates, Unlock(p, g)
  PROVE  IInv'
<1> USE DEF IInv, TypeOK
<1>1. lock[g] /\ lastlock[g] = p /\ p # Procq
  BY GateAssumption DEF Unlock, HeldIsLocked
<1>2. /\ lockCnt[p] = Cardinality(holds[p] \cap Counted)
      /\ g \in Counted => lockCnt[p] > 0
      /\ Cardinality((holds[p] \ {g}) \cap Counted) =
           IF g \in Counted THEN lockCnt[p] - 1 ELSE lockCnt[p]
  <2>1. /\ holds[p] \in SUBSET Gates /\ g \in holds[p]
        /\ lockCnt[p] = Cardinality(holds[p] \cap Counted) /\ lockCnt[p] \in Nat
    BY DEF Unlock, CountMatches
  <2>2. PICK H \in SUBSET Gates : H = holds[p]
    BY <2>1
  <2>3. /\ Cardinality((H \ {g}) \cap Counted) =
             IF g \in Counted THEN Cardinality(H \cap Counted) - 1
                              ELSE Cardinality(H \cap Counted)
        /\ g \in Counted => Cardinality(H \cap Counted) > 0
    BY <2>1, <2>2, CountChange
  <2> QED BY <2>1, <2>2, <2>3
<1>3. state' \in [Procs -> {PSRUN, PSSLEEP}]
  BY DEF Unlock, GATE_UNLOCK, wakeup
<1>4. lockCnt' \in [Procs -> Nat]
  BY <1>2 DEF Unlock, GATE_UNLOCK
<1>5. TypeOK'
  BY <1>3, <1>4 DEF Unlock, GATE_UNLOCK
<1>6. HeldIsLocked'
  BY <1>1 DEF Unlock, GATE_UNLOCK, HeldIsLocked
<1>7. NoLostWakeup'
  <2> SUFFICES ASSUME NEW q \in Procs, state'[q] = PSSLEEP
               PROVE  /\ locking'[q] \in Gates /\ event'[q] = locking'[q]
                      /\ lock'[locking'[q]] /\ want'[locking'[q]]
    BY DEF NoLostWakeup
  <2>1. state[q] = PSSLEEP /\ (want[g] => event[q] # g)
    BY DEF Unlock, GATE_UNLOCK, wakeup, PSRUN, PSSLEEP
  <2>2. locking[q] \in Gates /\ event[q] = locking[q] /\ locking[q] # g
        /\ lock[locking[q]] /\ want[locking[q]]
    BY <2>1 DEF NoLostWakeup
  <2> QED BY <2>2 DEF Unlock, GATE_UNLOCK
<1>8. CountMatches'
  BY <1>1, <1>2 DEF Unlock, GATE_UNLOCK, CountMatches
<1>9. UserHoldsNothing' /\ LockingInKernel'
  BY DEF Unlock, GATE_UNLOCK, UserHoldsNothing, LockingInKernel
<1> QED BY <1>5, <1>6, <1>7, <1>8, <1>9

\* __GATE_UNLOCK by an interrupt that owns the gate.
LEMMA IntrUnlockInv ==
  ASSUME IInv, NEW p \in Procs, NEW g \in Gates, IntrUnlock(p, g)
  PROVE  IInv'
<1> USE DEF IInv, TypeOK
<1>1. \A q \in Procs : g \notin holds[q]
  BY GateAssumption DEF IntrUnlock, HeldIsLocked
<1>2. state' \in [Procs -> {PSRUN, PSSLEEP}]
  BY DEF IntrUnlock, GATE_UNLOCK, wakeup
<1>3. lockCnt' = lockCnt
  BY DEF IntrUnlock, GATE_UNLOCK
<1>4. TypeOK'
  BY <1>2, <1>3 DEF IntrUnlock, GATE_UNLOCK
<1>5. HeldIsLocked'
  BY <1>1 DEF IntrUnlock, GATE_UNLOCK, HeldIsLocked
<1>6. NoLostWakeup'
  <2> SUFFICES ASSUME NEW q \in Procs, state'[q] = PSSLEEP
               PROVE  /\ locking'[q] \in Gates /\ event'[q] = locking'[q]
                      /\ lock'[locking'[q]] /\ want'[locking'[q]]
    BY DEF NoLostWakeup
  <2>1. state[q] = PSSLEEP /\ (want[g] => event[q] # g)
    BY DEF IntrUnlock, GATE_UNLOCK, wakeup, PSRUN, PSSLEEP
  <2>2. locking[q] \in Gates /\ event[q] = locking[q] /\ locking[q] # g
        /\ lock[locking[q]] /\ want[locking[q]]
    BY <2>1 DEF NoLostWakeup
  <2> QED BY <2>2 DEF IntrUnlock, GATE_UNLOCK
<1>7. CountMatches'
  BY <1>3 DEF IntrUnlock, CountMatches
<1>8. UserHoldsNothing' /\ LockingInKernel'
  BY DEF IntrUnlock, GATE_UNLOCK, UserHoldsNothing, LockingInKernel
<1> QED BY <1>4, <1>5, <1>6, <1>7, <1>8

\* __GATE_TO_INTERRUPT.
LEMMA ToInterruptInv ==
  ASSUME IInv, NEW p \in Procs, NEW g \in Gates, GATE_TO_INTERRUPT(p, g)
  PROVE  IInv'
<1> USE DEF IInv, TypeOK
<1>1. g \notin Counted /\ g \in holds[p]
  BY GateAssumption DEF GATE_TO_INTERRUPT
<1>2. lockCnt' = lockCnt
  BY <1>1 DEF GATE_TO_INTERRUPT
<1>3. TypeOK'
  BY <1>2 DEF GATE_TO_INTERRUPT
<1>4. \A q \in Procs \ {p} : g \notin holds[q]
  BY <1>1 DEF HeldIsLocked
<1>5. HeldIsLocked'
  BY <1>4 DEF GATE_TO_INTERRUPT, HeldIsLocked
<1>6. NoLostWakeup'
  BY DEF GATE_TO_INTERRUPT, NoLostWakeup
<1>7. CountMatches'
  <2>1. Cardinality((holds[p] \ {g}) \cap Counted)
          = Cardinality(holds[p] \cap Counted)
    BY <1>1, CountChange
  <2> QED BY <1>2, <2>1 DEF GATE_TO_INTERRUPT, CountMatches
<1>8. UserHoldsNothing' /\ LockingInKernel'
  BY DEF GATE_TO_INTERRUPT, UserHoldsNothing, LockingInKernel
<1> QED BY <1>3, <1>5, <1>6, <1>7, <1>8

\* Every step of the kernel keeps the inductive invariant.
LEMMA NextInv == IInv /\ [Next]_vars => IInv'
<1> SUFFICES ASSUME IInv, [Next]_vars PROVE IInv'
  OBVIOUS
<1>1. ASSUME NEW p \in Procs, Enter(p) PROVE IInv'
  BY <1>1 DEF Enter, IInv, TypeOK, HeldIsLocked, NoLostWakeup, CountMatches,
              UserHoldsNothing, LockingInKernel
<1>2. ASSUME NEW p \in Procs, Return(p) PROVE IInv'
  BY <1>2, GateAssumption
     DEF Return, Idle, IInv, TypeOK, HeldIsLocked, NoLostWakeup, CountMatches,
         UserHoldsNothing, LockingInKernel
<1>3. ASSUME NEW p \in Procs, Relock(p) PROVE IInv'
  <2>1. locking[p] \in Gates /\ p \in inKernel /\ state[p] = PSRUN
    BY <1>3 DEF Relock, IInv, TypeOK, LockingInKernel
  <2> QED BY <1>3, <2>1, BusyInv, TakeInv DEF Relock, GATE_LOCK
<1>4. ASSUME NEW p \in Procs, NEW g \in Gates, Lock(p, g) PROVE IInv'
  BY <1>4, BusyInv, TakeInv DEF Lock, Idle, GATE_LOCK
<1>5. CASE UNCHANGED vars
  BY <1>5 DEF vars, IInv, TypeOK, HeldIsLocked, NoLostWakeup, CountMatches,
              UserHoldsNothing, LockingInKernel
<1> QED
  BY <1>1, <1>2, <1>3, <1>4, <1>5, UnlockInv, IntrUnlockInv, ToInterruptInv
  DEF Next

\* The inductive invariant gives the properties the runs check.
LEMMA Consequences ==
  IInv => TypeOK /\ MutualExclusion /\ NoLostWakeup /\ LockCountExact
<1> SUFFICES ASSUME IInv PROVE MutualExclusion /\ LockCountExact
  BY DEF IInv
<1>1. MutualExclusion
  BY DEF IInv, HeldIsLocked, MutualExclusion
<1>2. ASSUME NEW p \in Procs, p \notin inKernel PROVE lockCnt[p] = 0
  <2>1. holds[p] \cap Counted = {}
    BY <1>2 DEF IInv, UserHoldsNothing
  <2> QED BY <2>1, FS_EmptySet DEF IInv, CountMatches
<1> QED BY <1>1, <1>2 DEF IInv, CountMatches, LockCountExact

\* The inductive invariant holds in every reachable state.
LEMMA Invariance == Spec => []IInv
<1> QED BY InitInv, NextInv, PTL DEF Spec

\* The variables keep their types; in particular u_lock_cnt, an unsigned
\* field of the process, never passes below zero.
THEOREM GateTypeCorrect == Spec => []TypeOK
<1> QED BY Invariance, Consequences, PTL

\* No two processes ever hold the same gate.
THEOREM GateMutualExclusion == Spec => []MutualExclusion
<1> QED BY Invariance, Consequences, PTL

\* No process sleeps on a gate that is free or not marked as wanted, so
\* __GATE_UNLOCK never misses a sleeper.
THEOREM GateNoLostWakeup == Spec => []NoLostWakeup
<1> QED BY Invariance, Consequences, PTL

\* u_lock_cnt is the number of counted gates held, and zero at user level,
\* which is what the check in trap.c relies on.
THEOREM GateLockCountExact == Spec => []LockCountExact
<1> QED BY Invariance, Consequences, PTL


----------------------------------------------------------------------------
(* Poll.                                                                   *)

Resting == {"idle", "asleep", "woken", "signalled"}

PlTypes ==
  /\ pw_state \in [PlProcs -> {"POLLING", "SLEEPING", "EVENT", "TIMEOUT", "SIGNALLED"}]
  /\ pw_timeout \in [PlProcs -> PlProcs \cup {PlNone}]
  /\ plQueued \in [PlProcs -> SUBSET PlChans]
  /\ e_procp \in [PlChans -> BOOLEAN]
  /\ dc_pollwait \in PlProcs \cup {PlNone}
  /\ plTimers \subseteq PlProcs
  /\ plReady \subseteq PlChans
  /\ plMsec \in [PlProcs -> {"zero", "some", "inf"}]
  /\ plTodo \in [PlProcs -> SUBSET PlChans]
  /\ DOMAIN plNew = PlProcs
  /\ plPc \in [PlProcs -> Resting \cup {"scan", "open", "store", "clean", "free"}]

\* One process at a time is between its sleeps.
OneRuns ==
  \A p, q \in PlProcs : plPc[p] \notin Resting /\ plPc[q] \notin Resting => p = q

\* The states of pw_state that go with each part of pollsleep.
StateFits ==
  \A p \in PlProcs :
    /\ plPc[p] = "open" => plNew[p] \in PlChans \ PlNew /\ plMsec[p] # "zero"
    /\ plPc[p] \in {"scan", "open"} => pw_state[p] \in {"POLLING", "EVENT"}
    /\ plPc[p] = "asleep" => pw_state[p] = "SLEEPING"
    /\ plPc[p] = "clean" => pw_state[p] # "SLEEPING"
    /\ plPc[p] = "store" => plNew[p] \in {"POLLING", "TIMEOUT", "SIGNALLED"}

\* An event on c finds the cell of p.
Watched(p, c) == c \in plQueued[p] /\ (c \in PlNew \/ e_procp[c])

\* What p has looked at, and what has not told it of an event yet, is quiet
\* and watched: in the scan and in the sleep that follows it.
ScanWatches ==
  \A p \in PlProcs :
    (plPc[p] \in {"scan", "open"} /\ plMsec[p] # "zero" /\ pw_state[p] = "POLLING") =>
      \A c \in PlChans \ plTodo[p] :
        \/ plPc[p] = "open" /\ c = plNew[p]
        \/ c \notin plReady /\ Watched(p, c)

SleepWatches ==
  \A p \in PlProcs : plPc[p] = "asleep" =>
    \A c \in PlChans : c \notin plReady /\ Watched(p, c)

EventInv == PlTypes /\ StateFits /\ ScanWatches /\ SleepWatches

\* pw_timeout names the pending timeout, when a fresh pollwait is clear.
TimerKnown ==
  \A p \in PlProcs : pw_timeout[p] = IF p \in plTimers THEN p ELSE PlNone

SafeInv == PlTypes /\ StateFits /\ OneRuns /\ TimerKnown /\ PlSafe

\* The heap gives a pollwait whose pw_timeout is zero.
Fresh == PlGarbage \subseteq {PlNone}

\* Every step keeps what the events rest on.
LEMMA EventNext == EventInv /\ [PlNext]_plVars => EventInv'
<1> SUFFICES ASSUME EventInv, [PlNext]_plVars PROVE EventInv'
  OBVIOUS
<1> USE PlAssumption
    DEF EventInv, PlTypes, StateFits, ScanWatches, SleepWatches, Watched, Resting
<1>1. ASSUME NEW p \in PlProcs, NEW m \in {"zero", "some", "inf"}, NEW g \in PlGarbage,
             upoll(p, m, g)
      PROVE  EventInv'
  BY <1>1 DEF upoll, Runs
<1>2. ASSUME NEW p \in PlProcs, NEW c \in PlChans, look(p, c)
      PROVE  EventInv'
  BY <1>2 DEF look, Looked, Runs
<1>3. ASSUME NEW p \in PlProcs, pollopen(p) PROVE EventInv'
  BY <1>3 DEF pollopen, Looked, Second
<1>4. ASSUME NEW p \in PlProcs, scanDone(p) PROVE EventInv'
  BY <1>4 DEF scanDone, Runs
<1>5. ASSUME NEW p \in PlProcs, pollsleep(p) PROVE EventInv'
  BY <1>5 DEF pollsleep, MaySleep, Expired, Runs
<1>6. ASSUME NEW p \in PlProcs, awake(p) PROVE EventInv'
  BY <1>6 DEF awake, Runs
<1>7. ASSUME NEW p \in PlProcs, store(p) PROVE EventInv'
  BY <1>7 DEF store
<1>8. ASSUME NEW p \in PlProcs, clean(p) PROVE EventInv'
  BY <1>8 DEF clean
<1>9. ASSUME NEW p \in PlProcs, pwfree(p) PROVE EventInv'
  BY <1>9 DEF pwfree, Cancelled
<1>10. ASSUME NEW p \in PlProcs, POLL_TIME(p) PROVE EventInv'
  BY <1>10 DEF POLL_TIME, SvSignal
<1>11. ASSUME NEW p \in PlProcs, signal(p) PROVE EventInv'
  BY <1>11 DEF signal
<1>12. ASSUME NEW c \in PlChans, pollwake(c) PROVE EventInv'
  BY <1>12 DEF pollwake, POLL_WAKE, SvSignal
<1>13. ASSUME NEW c \in PlChans, pollwakeup(c) PROVE EventInv'
  BY <1>13 DEF pollwakeup, POLL_WAKE, SvSignal
<1>14. ASSUME NEW c \in PlChans, consume(c) PROVE EventInv'
  BY <1>14 DEF consume
<1>15. CASE UNCHANGED plVars
  BY <1>15 DEF plVars
<1> QED
  BY <1>1, <1>2, <1>3, <1>4, <1>5, <1>6, <1>7, <1>8, <1>9, <1>10, <1>11, <1>12, <1>13, <1>14, <1>15
  DEF PlNext

\* Every step keeps what the timeouts and the cells rest on.
LEMMA SafeNext == Fresh /\ SafeInv /\ [PlNext]_plVars => SafeInv'
<1> SUFFICES ASSUME Fresh, SafeInv, [PlNext]_plVars PROVE SafeInv'
  OBVIOUS
<1> USE PlAssumption
    DEF Fresh, SafeInv, PlTypes, StateFits, OneRuns, TimerKnown, PlSafe,
        PlTimerKept, PlNoDangling, Resting
<1>1. ASSUME NEW p \in PlProcs, NEW m \in {"zero", "some", "inf"}, NEW g \in PlGarbage,
             upoll(p, m, g)
      PROVE  SafeInv'
  BY <1>1 DEF upoll, Runs
<1>2. ASSUME NEW p \in PlProcs, NEW c \in PlChans, look(p, c) PROVE SafeInv'
  BY <1>2 DEF look, Looked, Runs
<1>3. ASSUME NEW p \in PlProcs, pollopen(p) PROVE SafeInv'
  BY <1>3 DEF pollopen, Looked, Second
<1>4. ASSUME NEW p \in PlProcs, scanDone(p) PROVE SafeInv'
  BY <1>4 DEF scanDone, Runs
<1>5. ASSUME NEW p \in PlProcs, pollsleep(p) PROVE SafeInv'
  BY <1>5 DEF pollsleep, MaySleep, Expired, Runs
<1>6. ASSUME NEW p \in PlProcs, awake(p) PROVE SafeInv'
  BY <1>6 DEF awake, Runs
<1>7. ASSUME NEW p \in PlProcs, store(p) PROVE SafeInv'
  BY <1>7 DEF store
<1>8. ASSUME NEW p \in PlProcs, clean(p) PROVE SafeInv'
  BY <1>8 DEF clean
<1>9. ASSUME NEW p \in PlProcs, pwfree(p) PROVE SafeInv'
  BY <1>9 DEF pwfree, Cancelled
<1>10. ASSUME NEW p \in PlProcs, POLL_TIME(p) PROVE SafeInv'
  BY <1>10 DEF POLL_TIME, SvSignal
<1>11. ASSUME NEW p \in PlProcs, signal(p) PROVE SafeInv'
  BY <1>11 DEF signal
<1>12. ASSUME NEW c \in PlChans, pollwake(c) PROVE SafeInv'
  BY <1>12 DEF pollwake, POLL_WAKE, SvSignal
<1>13. ASSUME NEW c \in PlChans, pollwakeup(c) PROVE SafeInv'
  BY <1>13 DEF pollwakeup, POLL_WAKE, SvSignal
<1>14. ASSUME NEW c \in PlChans, consume(c) PROVE SafeInv'
  BY <1>14 DEF consume
<1>15. CASE UNCHANGED plVars
  BY <1>15 DEF plVars
<1> QED
  BY <1>1, <1>2, <1>3, <1>4, <1>5, <1>6, <1>7, <1>8, <1>9, <1>10, <1>11, <1>12, <1>13, <1>14, <1>15
  DEF PlNext

\* No event is lost, for any processes and channels of both kinds: whoever
\* sleeps in pollsleep polls only channels that are quiet and would tell it,
\* whatever came during the scan, between the two looks of ttpoll or while
\* another process polled the same channel.
THEOREM PollNoLostEvent == PlSpec => []PlNoLostEvent
<1>1. PlInit => EventInv
  BY PlAssumption DEF PlInit, EventInv, PlTypes, StateFits, ScanWatches,
                      SleepWatches, Resting
<1>2. EventInv => PlNoLostEvent
  BY DEF EventInv, PlTypes, SleepWatches, PlNoLostEvent
<1> QED BY <1>1, <1>2, EventNext, PTL DEF PlSpec

\* When a fresh pw_timeout is clear, a sleep with a time limit has its
\* timeout pending, and pwfree leaves neither a timeout nor a cell behind.
THEOREM PollSafe ==
  ASSUME Fresh
  PROVE  PlSpec => []PlSafe
<1>1. PlInit => SafeInv
  BY PlAssumption DEF PlInit, SafeInv, PlTypes, StateFits, OneRuns, TimerKnown,
                      PlSafe, PlTimerKept, PlNoDangling, Resting
<1>2. SafeInv /\ [PlNext]_plVars => SafeInv'
  BY SafeNext
<1>3. SafeInv => PlSafe
  BY DEF SafeInv
<1> QED BY <1>1, <1>2, <1>3, PTL DEF PlSpec

----------------------------------------------------------------------------
(* Deferred functions.                                                     *)

\* The position of an entry of a ring, and what % makes of it.
At(i, k, size) == (i + k - 1) % size

LEMMA AtIs ==
  ASSUME NEW size \in Nat \ {0}, NEW i \in Nat, NEW k \in Nat,
         1 <= i + k, i + k <= size + size
  PROVE  /\ At(i, k, size) = IF i + k <= size THEN i + k - 1 ELSE i + k - 1 - size
         /\ At(i, k, size) \in 0 .. size - 1
<1>1. PICK x \in Nat : x = i + k - 1
  OBVIOUS
<1>2. x % size = IF x < size THEN x ELSE x - size
  <2>1. CASE x < size
    BY <2>1
  <2>2. CASE ~ (x < size)
    BY <1>1, <2>2
  <2> QED BY <2>1, <2>2
<1> QED BY <1>1, <1>2 DEF At

\* The numbers that tell the calls of defer apart.
Calls == Nat

LEMMA EntriesAt ==
  ASSUME NEW size, NEW tab, NEW i, NEW n
  PROVE  Entries(tab, i, n, size) = [k \in 1 .. n |-> tab[At(i, k, size)]]
BY DEF Entries, At

LEMMA EntriesIn ==
  ASSUME NEW size \in Nat \ {0}, NEW tab \in [0 .. size - 1 -> Calls],
         NEW i \in 0 .. size, NEW n \in 0 .. size
  PROVE  Entries(tab, i, n, size) \in Seq(Calls)
<1>1. ASSUME NEW k \in 1 .. n PROVE At(i, k, size) \in 0 .. size - 1
  <2>1. i \in Nat /\ k \in Nat /\ 1 <= i + k /\ i + k <= size + size
    OBVIOUS
  <2> QED BY <2>1, AtIs
<1>2. [k \in 1 .. n |-> tab[At(i, k, size)]] \in [1 .. n -> Calls]
  BY <1>1
<1> QED BY <1>2, EntriesAt

\* An entry v is written behind the n that follow position i.
Writes(tab, new, i, n, v, size) ==
  /\ size \in Nat \ {0} /\ i \in 0 .. size /\ n \in 0 .. size - 1 /\ v \in Calls
  /\ tab \in [0 .. size - 1 -> Calls]
  /\ new = [tab EXCEPT ![At(i, n + 1, size)] = v]

LEMMA EntriesAdd ==
  ASSUME NEW tab, NEW new, NEW i, NEW n, NEW v, NEW size,
         Writes(tab, new, i, n, v, size)
  PROVE  /\ Entries(new, i, n, size) = Entries(tab, i, n, size)
         /\ Entries(new, i, n + 1, size) = Append(Entries(tab, i, n, size), v)
<1> USE DEF Writes
<1> DEFINE j == At(i, n + 1, size)
           e == [k \in 1 .. n |-> tab[At(i, k, size)]]
           f == [k \in 1 .. n + 1 |-> new[At(i, k, size)]]
           g == [k \in 1 .. n |-> new[At(i, k, size)]]
<1>1. j \in 0 .. size - 1 /\ j = IF i + n < size THEN i + n ELSE i + n - size
  <2>1. i \in Nat /\ n + 1 \in Nat /\ 1 <= i + (n + 1) /\ i + (n + 1) <= size + size
    OBVIOUS
  <2>2. /\ At(i, n + 1, size) \in 0 .. size - 1
        /\ At(i, n + 1, size) = IF i + (n + 1) <= size THEN i + (n + 1) - 1
                                ELSE i + (n + 1) - 1 - size
    BY <2>1, AtIs
  <2> QED BY <2>2
<1>2. ASSUME NEW k \in 1 .. n
      PROVE  /\ At(i, k, size) \in 0 .. size - 1
             /\ new[At(i, k, size)] = tab[At(i, k, size)]
  <2>1. i \in Nat /\ k \in Nat /\ 1 <= i + k /\ i + k <= size + size
    OBVIOUS
  <2>2. /\ At(i, k, size) \in 0 .. size - 1
        /\ At(i, k, size) = IF i + k <= size THEN i + k - 1 ELSE i + k - 1 - size
    BY <2>1, AtIs
  <2>3. At(i, k, size) # j
    BY <1>1, <2>2
  <2> QED BY <2>2, <2>3
<1>3. new[At(i, n + 1, size)] = v
  BY <1>1
<1>4. g = e
  BY <1>2
<1>5. f = Append(e, v)
  <2>1. e \in [1 .. n -> Calls]
    BY <1>2
  <2>2. f = [k \in 1 .. n + 1 |-> IF k = n + 1 THEN v ELSE e[k]]
    BY <1>2, <1>3
  <2> HIDE DEF e, f
  <2>3. Append(e, v) = [k \in 1 .. n + 1 |-> IF k = n + 1 THEN v ELSE e[k]]
    <3>1. e \in Seq(Calls) /\ Len(e) = n
      BY <2>1
    <3>2. Append(e, v) \in Seq(Calls) /\ Len(Append(e, v)) = n + 1
      BY <3>1
    <3>3. \A k \in 1 .. n + 1 : Append(e, v)[k] = IF k = n + 1 THEN v ELSE e[k]
      BY <3>1
    <3> DEFINE h == [k \in 1 .. n + 1 |-> IF k = n + 1 THEN v ELSE e[k]]
    <3>4. h \in [1 .. n + 1 -> Calls]
      BY <2>1
    <3>5. h \in Seq(Calls) /\ Len(h) = n + 1
      BY <3>4
    <3>6. \A k \in 1 .. n + 1 : Append(e, v)[k] = h[k]
      BY <3>3
    <3> HIDE DEF e, h
    <3>7. Append(e, v) = h
      BY <3>2, <3>5, <3>6
    <3> QED BY <3>7 DEF h
  <2> QED BY <2>2, <2>3
<1> QED BY <1>4, <1>5, EntriesAt

\* The first of the n entries from position i on is taken.
Takes(tab, i, n, run, size) ==
  /\ size \in Nat \ {0} /\ i \in 0 .. size - 1 /\ n \in 1 .. size
  /\ tab \in [0 .. size - 1 -> Calls]
  /\ run \in Seq(Calls)

LEMMA EntriesFirst ==
  ASSUME NEW tab, NEW i, NEW n, NEW run, NEW size, Takes(tab, i, n, run, size)
  PROVE  /\ tab[i] \in Calls
         /\ Append(run, tab[i]) \o Entries(tab, i + 1, n - 1, size)
              = run \o Entries(tab, i, n, size)
<1> USE DEF Takes
<1> DEFINE e == [k \in 1 .. n |-> tab[At(i, k, size)]]
           f == [k \in 1 .. n - 1 |-> tab[At(i + 1, k, size)]]
<1>1. ASSUME NEW k \in 1 .. n PROVE At(i, k, size) \in 0 .. size - 1
  <2>1. i \in Nat /\ k \in Nat /\ 1 <= i + k /\ i + k <= size + size
    OBVIOUS
  <2> QED BY <2>1, AtIs
<1>2. ASSUME NEW k \in 1 .. n - 1 PROVE At(i + 1, k, size) = At(i, k + 1, size)
  <2>1. (i + 1) + k - 1 = i + (k + 1) - 1
    OBVIOUS
  <2> QED BY <2>1 DEF At
<1>3. At(i, 1, size) = i
  <2>1. i \in Nat /\ 1 \in Nat /\ 1 <= i + 1 /\ i + 1 <= size + size
    OBVIOUS
  <2>2. At(i, 1, size) = IF i + 1 <= size THEN i + 1 - 1 ELSE i + 1 - 1 - size
    BY <2>1, AtIs
  <2> QED BY <2>2
<1>4. e \in [1 .. n -> Calls] /\ e[1] = tab[i] /\ tab[i] \in Calls
  BY <1>1, <1>3
<1>5. ASSUME NEW k \in 1 .. n - 1 PROVE tab[At(i + 1, k, size)] = e[k + 1]
  BY <1>2
<1>6. f = [k \in 1 .. n - 1 |-> e[k + 1]]
  BY <1>5
<1> HIDE DEF e, f
<1>7. PICK x \in Calls : x = tab[i]
  BY <1>4
<1>8. Append(run, x) \o f = run \o e
  <2>1. e \in Seq(Calls) /\ Len(e) = n /\ f \in Seq(Calls) /\ Len(f) = n - 1
    <3>1. f \in [1 .. n - 1 -> Calls]
      BY <1>4, <1>6
    <3> QED BY <1>4, <3>1
  <2>2. e = <<x>> \o f
    BY <1>4, <1>6, <1>7, <2>1
  <2>3. Append(run, x) = run \o <<x>>
    OBVIOUS
  <2>4. (run \o <<x>>) \o f = run \o (<<x>> \o f)
    BY <2>1
  <2> QED BY <2>2, <2>3, <2>4
<1> QED BY <1>4, <1>7, <1>8, EntriesAt DEF e, f

LEMMA AppendLast ==
  ASSUME NEW a \in Seq(Calls), NEW b \in Seq(Calls), NEW x \in Calls
  PROVE  Append(a \o b, x) = a \o Append(b, x)
OBVIOUS

\* The position after the last is the first.
LEMMA EntriesWrap ==
  ASSUME NEW size \in Nat \ {0}, NEW tab, NEW r \in 0 .. size - 1, NEW n \in 0 .. size - 1
  PROVE  /\ (r + 1) % size \in 0 .. size - 1
         /\ Entries(tab, r + 1, n, size) = Entries(tab, (r + 1) % size, n, size)
<1>1. (r + 1) % size = IF r = size - 1 THEN 0 ELSE r + 1
  <2>1. CASE r = size - 1
    BY <2>1
  <2>2. CASE r # size - 1
    BY <2>2
  <2> QED BY <2>1, <2>2
<1>2. PICK q \in 0 .. size - 1 : q = (r + 1) % size
  BY <1>1
<1>3. ASSUME NEW k \in 1 .. n PROVE At(r + 1, k, size) = At(q, k, size)
  <2>1. /\ r + 1 \in Nat /\ k \in Nat /\ 1 <= (r + 1) + k /\ (r + 1) + k <= size + size
        /\ q \in Nat /\ 1 <= q + k /\ q + k <= size + size
        /\ q = IF r = size - 1 THEN 0 ELSE r + 1
    BY <1>1, <1>2
  <2>2. At(r + 1, k, size) = IF (r + 1) + k <= size THEN (r + 1) + k - 1
                             ELSE (r + 1) + k - 1 - size
    BY <2>1, AtIs
  <2>3. At(q, k, size) = IF q + k <= size THEN q + k - 1 ELSE q + k - 1 - size
    BY <2>1, AtIs
  <2> QED BY <2>1, <2>2, <2>3
<1>4. Entries(tab, r + 1, n, size) = Entries(tab, q, n, size)
  BY <1>3 DEF Entries, At
<1> QED BY <1>2, <1>4

----
DfTypes ==
  /\ df_tab \in [0 .. DfMax - 1 -> Calls]
  /\ df_read \in 0 .. DfMax - 1 /\ df_write \in 0 .. DfMax - 1
  /\ df_rlock \in BOOLEAN /\ dfCalls \in BOOLEAN
  /\ dfCount \in Nat
  /\ dfTaken \in Seq(Calls) /\ dfRan \in Seq(Calls)

\* The read lock is held while a function is called, whose entry is in use.
DfLocked ==
  /\ df_rlock = dfCalls
  /\ dfCalls => df_read # df_write

DfInv == DfTypes /\ DfLocked /\ DfExact

DefTypes ==
  /\ defunc \in [0 .. DEFLIM - 1 -> Calls]
  /\ defqix \in 0 .. DEFLIM - 1 /\ defqox \in 0 .. DEFLIM - 1
  /\ defcnt \in 0 .. DEFLIM
  /\ defCalls \in BOOLEAN
  /\ dfCount \in Nat
  /\ defTaken \in Seq(Calls) /\ defRan \in Seq(Calls)

\* The count tells how far the offsets are apart.
DefCounted ==
  /\ defqix = (defqox + defcnt) % DEFLIM
  /\ defCalls => defcnt > 0

DefInv == DefTypes /\ DefCounted /\ DefExact

LEMMA DeferInit == DfInit => DfInv /\ DefInv
<1> SUFFICES ASSUME DfInit PROVE DfInv /\ DefInv
  OBVIOUS
<1> USE DfAssumption DEF DfInit
<1>1. DfTypes /\ DfLocked /\ DefTypes
  BY DEF DfTypes, DfLocked, DefTypes, Calls
<1>2. ASSUME NEW tab, NEW i, NEW size PROVE <<>> \o Entries(tab, i, 0, size) = <<>>
  BY DEF Entries
<1>3. (0 + DfMax - 0) % DfMax = 0 /\ (0 + 0) % DEFLIM = 0
  OBVIOUS
<1>4. DfExact /\ DefExact /\ DefCounted
  BY <1>2, <1>3 DEF DfExact, DefExact, DefCounted, Running
<1> QED BY <1>1, <1>4 DEF DfInv, DefInv

\* How many functions wait in the table, and where the next one goes.
Waiting == (df_write + DfMax - df_read) % DfMax

LEMMA WaitingIs ==
  ASSUME NEW size \in Nat \ {0}, NEW r \in 0 .. size - 1, NEW w \in 0 .. size - 1
  PROVE  (w + size - r) % size = IF w < r THEN w + size - r ELSE w - r
<1>1. PICK x \in Nat : x = w + size - r
  OBVIOUS
<1>2. CASE w < r
  BY <1>1, <1>2
<1>3. CASE ~ (w < r)
  <2>1. x = size + (w - r) /\ w - r \in 0 .. size - 1
    BY <1>1, <1>3
  <2>2. x % size = w - r
    BY <2>1
  <2> QED BY <1>1, <1>3, <2>2
<1> QED BY <1>2, <1>3

LEMMA BumpIs ==
  ASSUME NEW size \in Nat \ {0}, NEW r \in 0 .. size - 1
  PROVE  (r + 1) % size = IF r = size - 1 THEN 0 ELSE r + 1
<1>1. CASE r = size - 1
  BY <1>1
<1>2. CASE r # size - 1
  BY <1>2
<1> QED BY <1>1, <1>2

\* The entry to be written next is behind those that wait.
LEMMA WritesBehind ==
  ASSUME DfTypes, DfLocked
  PROVE  /\ Waiting \in 0 .. DfMax - 1
         /\ Waiting = 0 <=> df_read = df_write
         /\ Waiting - Running(dfCalls) \in 0 .. DfMax - 1
         /\ df_read + Running(dfCalls) \in 0 .. DfMax
         /\ df_write = At(df_read + Running(dfCalls), Waiting - Running(dfCalls) + 1, DfMax)
<1> USE DfAssumption DEF DfTypes, DfLocked
<1>1. Waiting = IF df_write < df_read THEN df_write + DfMax - df_read
                ELSE df_write - df_read
  BY WaitingIs DEF Waiting
<1>2. Waiting \in 0 .. DfMax - 1 /\ (Waiting = 0 <=> df_read = df_write)
  BY <1>1
<1>3. /\ Running(dfCalls) \in {0, 1}
      /\ Waiting - Running(dfCalls) \in 0 .. DfMax - 1
      /\ df_read + Running(dfCalls) \in 0 .. DfMax
  BY <1>2 DEF Running
<1> DEFINE i == df_read + Running(dfCalls)
           k == Waiting - Running(dfCalls) + 1
<1>4. /\ i \in Nat /\ k \in Nat /\ 1 <= i + k /\ i + k <= DfMax + DfMax
      /\ i + k = df_read + Waiting + 1
  <2>1. PICK c \in {0, 1} : c = Running(dfCalls)
    BY <1>3
  <2>2. df_read \in Nat /\ df_read < DfMax /\ Waiting \in Nat /\ Waiting < DfMax
        /\ Waiting - c \in 0 .. DfMax - 1
    BY <1>2, <1>3, <2>1
  <2>3. i = df_read + c /\ k = Waiting - c + 1
    BY <2>1
  <2> HIDE DEF i, k
  <2> QED BY <2>2, <2>3
<1> HIDE DEF i, k
<1>5. At(i, k, DfMax) = IF i + k <= DfMax THEN i + k - 1 ELSE i + k - 1 - DfMax
  BY <1>4, AtIs
<1>6. At(i, k, DfMax) = df_write
  BY <1>1, <1>4, <1>5
<1> QED BY <1>2, <1>3, <1>6 DEF i, k

\* The write pointer moves on, unless it would bump into the read pointer.
LEMMA WaitingGrows ==
  ASSUME DfTypes, ~Full((df_write + 1) % DfMax)
  PROVE  /\ (df_write + 1) % DfMax \in 0 .. DfMax - 1
         /\ (((df_write + 1) % DfMax) + DfMax - df_read) % DfMax = Waiting + 1
<1> USE DfAssumption DEF DfTypes
<1> DEFINE w == (df_write + 1) % DfMax
<1>1. w = IF df_write = DfMax - 1 THEN 0 ELSE df_write + 1
  BY BumpIs
<1>2. w \in 0 .. DfMax - 1 /\ w # df_read
  BY <1>1 DEF Full
<1> HIDE DEF w
<1>3. (w + DfMax - df_read) % DfMax = IF w < df_read THEN w + DfMax - df_read ELSE w - df_read
  BY <1>2, WaitingIs
<1>4. Waiting = IF df_write < df_read THEN df_write + DfMax - df_read
                ELSE df_write - df_read
  BY WaitingIs DEF Waiting
<1>5. (w + DfMax - df_read) % DfMax = Waiting + 1
  BY <1>1, <1>2, <1>3, <1>4
<1> QED BY <1>2, <1>5 DEF w

LEMMA DfExactIs ==
  DfExact <=> dfTaken = dfRan \o Entries(df_tab, df_read + Running(dfCalls),
                                         Waiting - Running(dfCalls), DfMax)
BY DEF DfExact, Waiting

LEMMA DfDEFER == DfInv /\ DEFER => DfInv'
<1> SUFFICES ASSUME DfInv, DEFER PROVE DfInv'
  OBVIOUS
<1> USE DfAssumption
<1>0. DfTypes /\ DfLocked /\ DfExact
  BY DEF DfInv
<1> DEFINE idx == (df_write + 1) % DfMax
           i == df_read + Running(dfCalls)
           n == Waiting - Running(dfCalls)
<1>1. /\ Waiting \in 0 .. DfMax - 1 /\ n \in 0 .. DfMax - 1 /\ i \in 0 .. DfMax
      /\ df_write = At(i, n + 1, DfMax)
  BY <1>0, WritesBehind
<1>2. /\ dfCount + 1 \in Calls /\ df_tab \in [0 .. DfMax - 1 -> Calls]
      /\ DfMax \in Nat \ {0}
  BY <1>0 DEF DfTypes, Calls
<1>3. /\ Entries(df_tab', i, n, DfMax) = Entries(df_tab, i, n, DfMax)
      /\ Entries(df_tab', i, n + 1, DfMax)
           = Append(Entries(df_tab, i, n, DfMax), dfCount + 1)
  <2> DEFINE new == [df_tab EXCEPT ![df_write] = dfCount + 1]
  <2>1. df_tab' = new
    BY DEF DEFER
  <2>2. Writes(df_tab, df_tab', i, n, dfCount + 1, DfMax)
    BY <1>1, <1>2, <2>1 DEF Writes
  <2> HIDE DEF i, n
  <2> QED BY <2>2, EntriesAdd
<1>4. dfTaken = dfRan \o Entries(df_tab, i, n, DfMax)
  BY <1>0, DfExactIs
<1>5. idx \in 0 .. DfMax - 1
  BY <1>0 DEF DfTypes
<1>6. df_tab' \in [0 .. DfMax - 1 -> Calls] /\ dfCount' \in Nat
  BY <1>0, <1>2 DEF DEFER, DfTypes
<1>7. UNCHANGED <<df_read, df_rlock, dfCalls, dfRan>>
  BY DEF DEFER
<1>8. CASE Full(idx)
  <2>1. UNCHANGED <<df_write, dfTaken>>
    BY <1>8 DEF DEFER
  <2>2. DfTypes' /\ DfLocked'
    BY <1>0, <1>6, <1>7, <2>1 DEF DfTypes, DfLocked
  <2>3. DfExact'
    BY <1>3, <1>4, <1>7, <2>1 DEF DfExact, Waiting
  <2> QED BY <2>2, <2>3 DEF DfInv
<1>9. CASE ~Full(idx)
  <2>1. df_write' = idx /\ dfTaken' = Append(dfTaken, dfCount + 1)
    BY <1>9 DEF DEFER
  <2>2. DfTypes'
    BY <1>0, <1>2, <1>5, <1>6, <1>7, <2>1 DEF DfTypes
  <2>3. DfLocked'
    BY <1>0, <1>7, <1>9, <2>1 DEF DfLocked, Full
  <2>4. Waiting' = Waiting + 1
    BY <1>0, <1>7, <1>9, <2>1, WaitingGrows DEF Waiting
  <2>5. n' = n + 1 /\ i' = i
    BY <1>1, <1>7, <2>4 DEF Running
  <2>6. dfTaken' = dfRan \o Append(Entries(df_tab, i, n, DfMax), dfCount + 1)
    <3>1. /\ dfRan \in Seq(Calls) /\ dfTaken \in Seq(Calls)
          /\ Entries(df_tab, i, n, DfMax) \in Seq(Calls)
      <4>1. n \in 0 .. DfMax
        BY <1>1
      <4> HIDE DEF i, n
      <4> QED BY <1>0, <1>1, <1>2, <4>1, EntriesIn DEF DfTypes
    <3> HIDE DEF i, n
    <3>2. Append(dfRan \o Entries(df_tab, i, n, DfMax), dfCount + 1)
            = dfRan \o Append(Entries(df_tab, i, n, DfMax), dfCount + 1)
      BY <1>2, <3>1, AppendLast
    <3> QED BY <1>4, <2>1, <3>2
  <2>7. DfExact'
    BY <1>3, <1>7, <2>5, <2>6 DEF DfExact, Waiting
  <2> QED BY <2>2, <2>3, <2>7 DEF DfInv
<1> QED BY <1>8, <1>9

LEMMA DfRUN == DfInv /\ RUN_INT_DEFER => DfInv'
<1> SUFFICES ASSUME DfInv, RUN_INT_DEFER PROVE DfInv'
  OBVIOUS
<1> USE DfAssumption
<1>0. DfTypes /\ DfLocked /\ DfExact
  BY DEF DfInv
<1>1. /\ ~dfCalls /\ dfCalls' = TRUE /\ df_read # df_write /\ df_rlock'
      /\ dfRan' = Append(dfRan, df_tab[df_read])
      /\ UNCHANGED <<df_tab, df_read, df_write, dfTaken, dfCount>>
  BY DEF RUN_INT_DEFER
<1>2. Waiting \in 1 .. DfMax - 1
  BY <1>0, <1>1, WritesBehind
<1>3. Takes(df_tab, df_read, Waiting, dfRan, DfMax)
  BY <1>0, <1>2 DEF Takes, DfTypes
<1>4. /\ df_tab[df_read] \in Calls
      /\ dfRan' \o Entries(df_tab, df_read + 1, Waiting - 1, DfMax)
           = dfRan \o Entries(df_tab, df_read, Waiting, DfMax)
  BY <1>1, <1>3, EntriesFirst
<1>5. DfTypes' /\ DfLocked'
  BY <1>0, <1>1, <1>4 DEF DfTypes, DfLocked, RUN_INT_DEFER
<1>6. dfTaken = dfRan \o Entries(df_tab, df_read, Waiting, DfMax)
  <2>1. Running(dfCalls) = 0 /\ df_read + 0 = df_read /\ Waiting - 0 = Waiting
    BY <1>0, <1>1, <1>2 DEF Running, DfTypes
  <2> QED BY <1>0, <2>1, DfExactIs
<1>7. DfExact'
  <2>1. Running(dfCalls)' = 1 /\ Waiting' = Waiting
    BY <1>1 DEF Running, Waiting
  <2>2. DfExact' <=> dfTaken' = dfRan' \o Entries(df_tab', df_read' + Running(dfCalls'),
                                                  Waiting' - Running(dfCalls'), DfMax)
    BY DEF DfExact, Waiting
  <2> QED BY <1>1, <1>4, <1>6, <2>1, <2>2
<1> QED BY <1>5, <1>7 DEF DfInv

\* The read pointer moves on.
LEMMA WaitingShrinks ==
  ASSUME DfTypes, df_read # df_write
  PROVE  (df_write + DfMax - ((df_read + 1) % DfMax)) % DfMax = Waiting - 1
<1> USE DfAssumption DEF DfTypes
<1> DEFINE r == (df_read + 1) % DfMax
<1>1. r = IF df_read = DfMax - 1 THEN 0 ELSE df_read + 1
  BY BumpIs
<1>2. r \in 0 .. DfMax - 1
  BY <1>1
<1> HIDE DEF r
<1>3. (df_write + DfMax - r) % DfMax = IF df_write < r THEN df_write + DfMax - r ELSE df_write - r
  BY <1>2, WaitingIs
<1>4. Waiting = IF df_write < df_read THEN df_write + DfMax - df_read
                ELSE df_write - df_read
  BY WaitingIs DEF Waiting
<1>5. CASE df_read = DfMax - 1
  <2>1. r = 0 /\ (df_write + DfMax - r) % DfMax = df_write
    BY <1>1, <1>3, <1>5
  <2>2. Waiting = df_write + 1
    BY <1>4, <1>5
  <2>3. (df_write + DfMax - r) % DfMax = Waiting - 1
    BY <2>1, <2>2
  <2> QED BY <2>3 DEF r
<1>6. CASE df_read # DfMax - 1
  <2>1. r = df_read + 1
    BY <1>1, <1>6
  <2>2. (df_write + DfMax - r) % DfMax
          = IF df_write <= df_read THEN df_write + DfMax - df_read - 1
            ELSE df_write - df_read - 1
    BY <1>3, <2>1
  <2>3. (df_write + DfMax - r) % DfMax = Waiting - 1
    BY <1>4, <2>2
  <2> QED BY <2>3 DEF r
<1> QED BY <1>5, <1>6

LEMMA DfReturn == DfInv /\ RunIntReturn => DfInv'
<1> SUFFICES ASSUME DfInv, RunIntReturn PROVE DfInv'
  OBVIOUS
<1> USE DfAssumption
<1>0. DfTypes /\ DfLocked /\ DfExact
  BY DEF DfInv
<1> DEFINE idx == (df_read + 1) % DfMax
<1>1. /\ dfCalls /\ df_read # df_write /\ df_read' = idx
      /\ UNCHANGED <<df_tab, df_write, dfTaken, dfCount>>
  BY <1>0 DEF RunIntReturn, DfLocked
<1>2. /\ Waiting \in 1 .. DfMax - 1 /\ Waiting - 1 \in 0 .. DfMax - 1
      /\ DfMax \in Nat \ {0} /\ df_read \in 0 .. DfMax - 1
  <2>1. Waiting \in 0 .. DfMax - 1 /\ Waiting # 0
    BY <1>0, <1>1, WritesBehind
  <2> QED BY <1>0, <2>1 DEF DfTypes
<1>3. Waiting' = Waiting - 1
  BY <1>0, <1>1, WaitingShrinks DEF Waiting
<1>4. /\ idx \in 0 .. DfMax - 1
      /\ Entries(df_tab, df_read + 1, Waiting - 1, DfMax)
           = Entries(df_tab, idx, Waiting - 1, DfMax)
  BY <1>2, EntriesWrap
<1>5. dfTaken = dfRan \o Entries(df_tab, idx, Waiting - 1, DfMax)
  <2>1. Running(dfCalls) = 1
    BY <1>1 DEF Running
  <2> QED BY <1>0, <1>4, <2>1, DfExactIs
<1>6. DfExact' <=> dfTaken' = dfRan' \o Entries(df_tab', df_read' + Running(dfCalls'),
                                                Waiting' - Running(dfCalls'), DfMax)
  BY DEF DfExact, Waiting
<1>7. CASE idx = df_write
  <2>1. ~df_rlock' /\ dfCalls' = FALSE /\ df_rlock' \in BOOLEAN /\ dfRan' = dfRan
    BY <1>7 DEF RunIntReturn
  <2>2. DfTypes' /\ DfLocked'
    BY <1>0, <1>1, <1>4, <2>1 DEF DfTypes, DfLocked
  <2>3. Running(dfCalls') = 0 /\ idx + 0 = idx /\ (Waiting - 1) - 0 = Waiting - 1
    BY <1>2, <1>4, <2>1 DEF Running
  <2>4. DfExact'
    BY <1>1, <1>3, <1>5, <1>6, <2>1, <2>3
  <2> QED BY <2>2, <2>4 DEF DfInv
<1>8. CASE idx # df_write
  <2>1. dfRan' = Append(dfRan, df_tab[idx]) /\ UNCHANGED <<df_rlock, dfCalls>>
    BY <1>8 DEF RunIntReturn
  <2>2. Waiting' # 0
    <3>1. (df_write + DfMax - df_read') % DfMax
            = IF df_write < df_read' THEN df_write + DfMax - df_read' ELSE df_write - df_read'
      BY <1>0, <1>1, <1>4, WaitingIs DEF DfTypes
    <3>2. PICK M, w, r, v : M = DfMax /\ w = df_write /\ r = df_read' /\ v = Waiting'
      OBVIOUS
    <3>3. /\ M \in Nat \ {0} /\ w \in 0 .. M - 1 /\ r \in 0 .. M - 1 /\ r # w
      BY <1>0, <1>1, <1>2, <1>4, <1>8, <3>2 DEF DfTypes
    <3>4. v = IF w < r THEN w + M - r ELSE w - r
      BY <1>1, <3>1, <3>2 DEF Waiting
    <3>5. v # 0
      BY <3>3, <3>4
    <3> QED BY <3>2, <3>5
  <2>3. Takes(df_tab, idx, Waiting - 1, dfRan, DfMax)
    BY <1>0, <1>2, <1>3, <1>4, <2>2 DEF Takes, DfTypes
  <2>4. /\ df_tab[idx] \in Calls
        /\ dfRan' \o Entries(df_tab, idx + 1, (Waiting - 1) - 1, DfMax)
             = dfRan \o Entries(df_tab, idx, Waiting - 1, DfMax)
    BY <2>1, <2>3, EntriesFirst
  <2>5. DfTypes' /\ DfLocked'
    BY <1>0, <1>1, <1>4, <1>8, <2>1, <2>4 DEF DfTypes, DfLocked
  <2>6. Running(dfCalls') = 1
    BY <1>1, <2>1 DEF Running
  <2>7. DfExact'
    BY <1>1, <1>3, <1>5, <1>6, <2>4, <2>6
  <2> QED BY <2>5, <2>7 DEF DfInv
<1> QED BY <1>7, <1>8

----
\* The entry to be filled next is behind those in use.
LEMMA FillsBehind ==
  ASSUME DefTypes, DefCounted
  PROVE  /\ defcnt - Running(defCalls) \in 0 .. DEFLIM
         /\ defqox + Running(defCalls) \in 0 .. DEFLIM
         /\ defqix = At(defqox + Running(defCalls), defcnt - Running(defCalls) + 1, DEFLIM)
         /\ defcnt < DEFLIM => defcnt - Running(defCalls) \in 0 .. DEFLIM - 1
<1> USE DfAssumption DEF DefTypes, DefCounted
<1>1. Running(defCalls) \in {0, 1} /\ (Running(defCalls) = 1 => defcnt > 0)
  BY DEF Running
<1>2. PICK c \in {0, 1} : c = Running(defCalls)
  BY <1>1
<1>3. /\ defcnt - c \in 0 .. DEFLIM /\ defqox + c \in 0 .. DEFLIM
      /\ (defqox + c) + (defcnt - c + 1) - 1 = defqox + defcnt
      /\ defcnt < DEFLIM => defcnt - c \in 0 .. DEFLIM - 1
  <2>1. c = 1 => defcnt > 0
    BY <1>1, <1>2
  <2>2. CASE c = 0
    BY <2>2
  <2>3. CASE c = 1
    BY <2>1, <2>3
  <2> QED BY <2>2, <2>3
<1>4. defqix = At(defqox + c, defcnt - c + 1, DEFLIM)
  BY <1>3 DEF At
<1> QED BY <1>2, <1>3, <1>4

Mod(x, d) == x % d

LEMMA ModIs ==
  ASSUME NEW d \in Nat \ {0}, NEW x \in Nat, x < d + d
  PROVE  Mod(x, d) = IF x < d THEN x ELSE x - d
<1>1. CASE x < d
  BY <1>1 DEF Mod
<1>2. CASE ~ (x < d)
  BY <1>2 DEF Mod
<1> QED BY <1>1, <1>2

\* The offsets stay as far apart as the count says.
LEMMA OffsetsMove ==
  ASSUME DefTypes, DefCounted
  PROVE  /\ (defqix + 1) % DEFLIM \in 0 .. DEFLIM - 1
         /\ defcnt < DEFLIM => (defqix + 1) % DEFLIM = (defqox + (defcnt + 1)) % DEFLIM
         /\ (defqox + 1) % DEFLIM \in 0 .. DEFLIM - 1
         /\ defcnt > 0 =>
              (((defqox + 1) % DEFLIM) + (defcnt - 1)) % DEFLIM = (defqox + defcnt) % DEFLIM
<1> USE DfAssumption DEF DefTypes, DefCounted
<1> DEFINE d == DEFLIM
<1>1. ASSUME NEW x \in Nat, x < d + d PROVE Mod(x, d) = IF x < d THEN x ELSE x - d
  BY <1>1, ModIs
<1>2. PICK s \in Nat : s = defqox + defcnt
  OBVIOUS
<1>3. s < d + d /\ defqix = IF s < d THEN s ELSE s - d
  <2>1. s < d + d
    BY <1>2
  <2>2. defqix = Mod(s, d)
    BY <1>2 DEF Mod
  <2> QED BY <1>1, <2>1, <2>2
<1>4. (defqix + 1) % d = IF defqix = d - 1 THEN 0 ELSE defqix + 1
  BY BumpIs
<1>5. (defqox + 1) % d = IF defqox = d - 1 THEN 0 ELSE defqox + 1
  BY BumpIs
<1>6. ASSUME defcnt < d PROVE (defqix + 1) % d = (defqox + (defcnt + 1)) % d
  <2>1. PICK x \in Nat : x = defqox + (defcnt + 1)
    OBVIOUS
  <2>2. x < d + d /\ x = s + 1
    BY <1>2, <1>6, <2>1
  <2>3. Mod(x, d) = IF x < d THEN x ELSE x - d
    BY <1>1, <2>2
  <2>4. Mod(x, d) = IF defqix = d - 1 THEN 0 ELSE defqix + 1
    BY <1>3, <2>2, <2>3
  <2> QED BY <1>4, <2>1, <2>4 DEF Mod
<1>7. ASSUME defcnt > 0
      PROVE  (((defqox + 1) % d) + (defcnt - 1)) % d = (defqox + defcnt) % d
  <2>1. PICK q \in 0 .. d - 1 : q = (defqox + 1) % d
    BY <1>5
  <2>2. PICK x \in Nat : x = q + (defcnt - 1)
    BY <1>7
  <2>3. x = IF defqox = d - 1 THEN s - d ELSE s
    <3>1. CASE defqox = d - 1
      BY <1>2, <1>5, <2>1, <2>2, <3>1
    <3>2. CASE defqox # d - 1
      <4>1. q = defqox + 1
        BY <1>5, <2>1, <3>2
      <4> QED BY <1>2, <2>2, <3>2, <4>1
    <3> QED BY <3>1, <3>2
  <2>4. x < d + d
    BY <2>2
  <2>5. Mod(x, d) = IF x < d THEN x ELSE x - d
    BY <1>1, <2>4
  <2>6. Mod(x, d) = defqix
    <3>1. CASE defqox = d - 1
      BY <1>2, <1>3, <1>7, <2>3, <2>5, <3>1
    <3>2. CASE defqox # d - 1
      BY <1>3, <2>3, <2>5, <3>2
    <3> QED BY <3>1, <3>2
  <2> QED BY <1>2, <2>1, <2>2, <2>6 DEF Mod
<1>8. (defqix + 1) % d \in 0 .. d - 1 /\ (defqox + 1) % d \in 0 .. d - 1
  BY <1>4, <1>5
<1> QED BY <1>6, <1>7, <1>8

LEMMA DefDefer0 == DefInv /\ defer0 => DefInv'
<1> SUFFICES ASSUME DefInv, defer0 PROVE DefInv'
  OBVIOUS
<1> USE DfAssumption
<1>0. DefTypes /\ DefCounted /\ DefExact
  BY DEF DefInv
<1> DEFINE i == defqox + Running(defCalls)
           n == defcnt - Running(defCalls)
<1>1. /\ dfCount' = dfCount + 1 /\ UNCHANGED <<defqox, defCalls, defRan>>
      /\ dfCount' \in Nat
  BY <1>0 DEF defer0, DefTypes
<1>2. CASE ~ (defcnt < DEFLIM)
  <2>1. UNCHANGED <<defunc, defqix, defcnt, defTaken>>
    BY <1>2 DEF defer0
  <2>2. DefTypes' /\ DefCounted' /\ DefExact'
    BY <1>0, <1>1, <2>1 DEF DefTypes, DefCounted, DefExact
  <2> QED BY <2>2 DEF DefInv
<1>3. CASE defcnt < DEFLIM
  <2>1. /\ defunc' = [defunc EXCEPT ![defqix] = dfCount + 1]
        /\ defqix' = (defqix + 1) % DEFLIM
        /\ defcnt' = defcnt + 1
        /\ defTaken' = Append(defTaken, dfCount + 1)
    BY <1>3 DEF defer0
  <2>2. /\ i \in 0 .. DEFLIM /\ n \in 0 .. DEFLIM - 1 /\ n \in 0 .. DEFLIM
        /\ defqix = At(i, n + 1, DEFLIM)
    BY <1>0, <1>3, FillsBehind
  <2>3. /\ dfCount + 1 \in Calls /\ defunc \in [0 .. DEFLIM - 1 -> Calls]
        /\ DEFLIM \in Nat \ {0} /\ defRan \in Seq(Calls) /\ defTaken \in Seq(Calls)
    BY <1>0 DEF DefTypes, Calls
  <2>4. Writes(defunc, defunc', i, n, dfCount + 1, DEFLIM)
    BY <2>1, <2>2, <2>3 DEF Writes
  <2>5. /\ Entries(defunc, i, n, DEFLIM) \in Seq(Calls)
        /\ Entries(defunc', i, n + 1, DEFLIM)
             = Append(Entries(defunc, i, n, DEFLIM), dfCount + 1)
    <3> HIDE DEF i, n
    <3>1. Entries(defunc, i, n, DEFLIM) \in Seq(Calls)
      BY <2>2, <2>3, EntriesIn
    <3> QED BY <2>4, <3>1, EntriesAdd
  <2>6. DefTypes'
    BY <1>0, <1>1, <1>3, <2>1, <2>3, OffsetsMove DEF DefTypes
  <2>7. DefCounted'
    <3>1. defqix' = (defqox + (defcnt + 1)) % DEFLIM
      BY <1>0, <1>3, <2>1, OffsetsMove
    <3>2. defCalls' => defcnt' > 0
      BY <1>0, <1>1, <2>1 DEF DefTypes, DefCounted
    <3> QED BY <1>1, <2>1, <3>1, <3>2 DEF DefCounted
  <2>8. defTaken' = defRan \o Append(Entries(defunc, i, n, DEFLIM), dfCount + 1)
    <3>1. defTaken = defRan \o Entries(defunc, i, n, DEFLIM)
      BY <1>0 DEF DefExact
    <3> HIDE DEF i, n
    <3>2. Append(defRan \o Entries(defunc, i, n, DEFLIM), dfCount + 1)
            = defRan \o Append(Entries(defunc, i, n, DEFLIM), dfCount + 1)
      BY <2>3, <2>5, AppendLast
    <3> QED BY <2>1, <3>1, <3>2
  <2>9. i' = i /\ defcnt' - Running(defCalls') = n + 1
    <3>1. Running(defCalls') = Running(defCalls) /\ Running(defCalls) \in {0, 1}
      BY <1>1 DEF Running
    <3>2. PICK c \in {0, 1} : c = Running(defCalls)
      BY <3>1
    <3>3. (defcnt + 1) - c = (defcnt - c) + 1
      BY <1>0 DEF DefTypes
    <3> QED BY <1>1, <2>1, <3>1, <3>2, <3>3
  <2>10. DefExact'
    <3>1. defTaken' = defRan' \o Entries(defunc', i, n + 1, DEFLIM)
      BY <1>1, <2>5, <2>8
    <3> QED BY <2>9, <3>1 DEF DefExact
  <2> QED BY <2>6, <2>7, <2>10 DEF DefInv
<1> QED BY <1>2, <1>3

LEMMA DefDefend == DefInv /\ defend => DefInv'
<1> SUFFICES ASSUME DefInv, defend PROVE DefInv'
  OBVIOUS
<1> USE DfAssumption
<1>0. DefTypes /\ DefCounted /\ DefExact
  BY DEF DefInv
<1>1. /\ ~defCalls /\ defcnt > 0 /\ defCalls' = TRUE
      /\ defRan' = Append(defRan, defunc[defqox])
      /\ UNCHANGED <<defunc, defqix, defqox, defcnt, defTaken, dfCount>>
  BY DEF defend
<1>2. Takes(defunc, defqox, defcnt, defRan, DEFLIM)
  BY <1>0, <1>1 DEF Takes, DefTypes
<1>3. /\ defunc[defqox] \in Calls
      /\ defRan' \o Entries(defunc, defqox + 1, defcnt - 1, DEFLIM)
           = defRan \o Entries(defunc, defqox, defcnt, DEFLIM)
  BY <1>1, <1>2, EntriesFirst
<1>4. DefTypes' /\ DefCounted'
  BY <1>0, <1>1, <1>3 DEF DefTypes, DefCounted
<1>5. /\ Running(defCalls) = 0 /\ Running(defCalls') = 1
      /\ defqox + 0 = defqox /\ defcnt - 0 = defcnt
  BY <1>0, <1>1 DEF Running, DefTypes
<1>6. defTaken = defRan \o Entries(defunc, defqox, defcnt, DEFLIM)
  BY <1>0, <1>5 DEF DefExact
<1>7. DefExact'
  BY <1>1, <1>3, <1>5, <1>6 DEF DefExact
<1> QED BY <1>4, <1>7 DEF DefInv

LEMMA DefReturn == DefInv /\ defendReturn => DefInv'
<1> SUFFICES ASSUME DefInv, defendReturn PROVE DefInv'
  OBVIOUS
<1> USE DfAssumption
<1>0. DefTypes /\ DefCounted /\ DefExact
  BY DEF DefInv
<1>1. /\ defCalls /\ defcnt > 0 /\ defCalls' = FALSE
      /\ defqox' = (defqox + 1) % DEFLIM /\ defcnt' = defcnt - 1
      /\ UNCHANGED <<defunc, defqix, defTaken, defRan, dfCount>>
  BY <1>0 DEF defendReturn, DefCounted
<1>2. /\ defcnt - 1 \in 0 .. DEFLIM - 1 /\ DEFLIM \in Nat \ {0}
      /\ defqox \in 0 .. DEFLIM - 1
  BY <1>0, <1>1 DEF DefTypes
<1>3. /\ defqox' \in 0 .. DEFLIM - 1
      /\ Entries(defunc, defqox + 1, defcnt - 1, DEFLIM)
           = Entries(defunc, defqox', defcnt - 1, DEFLIM)
  BY <1>1, <1>2, EntriesWrap
<1>4. DefTypes'
  <2>1. defcnt' \in 0 .. DEFLIM
    BY <1>1, <1>2
  <2>2. defCalls' \in BOOLEAN
    BY <1>1
  <2> QED BY <1>0, <1>1, <1>3, <2>1, <2>2 DEF DefTypes
<1>5. DefCounted'
  BY <1>0, <1>1, OffsetsMove DEF DefCounted
<1>6. Running(defCalls) = 1 /\ Running(defCalls') = 0
  BY <1>1 DEF Running
<1>7. defTaken = defRan \o Entries(defunc, defqox', defcnt - 1, DEFLIM)
  BY <1>0, <1>3, <1>6 DEF DefExact
<1>8. defqox' + 0 = defqox' /\ defcnt' - 0 = defcnt - 1
  BY <1>1, <1>2, <1>3
<1>9. DefExact'
  BY <1>1, <1>6, <1>7, <1>8 DEF DefExact
<1> QED BY <1>4, <1>5, <1>9 DEF DefInv

LEMMA DeferNext == DfInv /\ DefInv /\ [DfNext]_dfVars => (DfInv /\ DefInv)'
<1> SUFFICES ASSUME DfInv, DefInv, [DfNext]_dfVars PROVE (DfInv /\ DefInv)'
  OBVIOUS
\* The two queues share the count of calls alone.
<1>1. ASSUME UNCHANGED oldVars, dfCount' \in Nat PROVE DefInv'
  BY <1>1 DEF oldVars, DefInv, DefTypes, DefCounted, DefExact
<1>2. ASSUME UNCHANGED ddiVars, dfCount' \in Nat PROVE DfInv'
  BY <1>2 DEF ddiVars, DfInv, DfTypes, DfLocked, DfExact
<1>3. dfCount' \in Nat
  BY DEF DfInv, DfTypes, DfNext, DEFER, RUN_INT_DEFER, RunIntReturn,
         defer0, defend, defendReturn, dfVars
<1>4. CASE DEFER
  BY <1>1, <1>3, <1>4, DfDEFER DEF DEFER
<1>5. CASE RUN_INT_DEFER
  BY <1>1, <1>3, <1>5, DfRUN DEF RUN_INT_DEFER
<1>6. CASE RunIntReturn
  BY <1>1, <1>3, <1>6, DfReturn DEF RunIntReturn
<1>7. CASE defer0
  BY <1>2, <1>3, <1>7, DefDefer0 DEF defer0
<1>8. CASE defend
  BY <1>2, <1>3, <1>8, DefDefend DEF defend
<1>9. CASE defendReturn
  BY <1>2, <1>3, <1>9, DefReturn DEF defendReturn
<1>10. CASE UNCHANGED dfVars
  BY <1>1, <1>2, <1>3, <1>10 DEF dfVars
<1> QED BY <1>4, <1>5, <1>6, <1>7, <1>8, <1>9, <1>10 DEF DfNext

(***************************************************************************)
(* Whatever is deferred while a table is full, wraps round or is being     *)
(* emptied, by interrupts or by the deferred functions themselves: what    *)
(* DEFER and defer0 accept runs once and in order, for tables of any size. *)
(***************************************************************************)
THEOREM DeferRunsOnce == DfSpec => []DeferredOnce
<1>1. DfInv /\ DefInv => DeferredOnce
  BY DEF DfInv, DefInv, DeferredOnce
<1> QED BY <1>1, DeferInit, DeferNext, PTL DEF DfSpec

----------------------------------------------------------------------------
(* timeout (): the queues as a structure of links.                         *)

TmCells == Tims \cup {TmNull}

(***************************************************************************)
(* The links l and b join the cells of A into queues: what b points at     *)
(* points back, and ranks r ascend along a queue, so no queue is a circle. *)
(* Q names the queue of a cell.                                            *)
(***************************************************************************)
Links(l, b, A, Q, r) ==
  /\ l \in [Queues \cup Tims -> TmCells]
  /\ b \in [Tims -> Queues \cup TmCells]
  /\ A \subseteq Tims /\ Q \in [Tims -> Queues] /\ r \in [Tims -> Nat]
  /\ \A t \in A : b[t] \in A \cup Queues /\ l[b[t]] = t
  /\ \A t \in A : b[t] \in Queues => b[t] = Q[t]
  /\ \A t \in A : b[t] \in A => Q[b[t]] = Q[t] /\ r[b[t]] < r[t]
  /\ \A t \in Tims \ A : b[t] = TmNull
  /\ \A x \in Queues \cup A : l[x] # TmNull => l[x] \in A /\ b[l[x]] = x

\* R are the cells of a queue from np on.
Rest(R, np, l, b, A) ==
  /\ R \subseteq A
  /\ np = TmNull => R = {}
  /\ np # TmNull => np \in R /\ b[np] \notin R
  /\ \A t \in R : t = np \/ b[t] \in R
  /\ \A t \in R : l[t] # TmNull => l[t] \in R

\* A walk along l from np that stops in D.
IsWalk(w, l, np, D) ==
  /\ w[0] = np
  /\ \A k \in 1 .. Cardinality(Tims) :
       w[k] = IF w[k - 1] = TmNull \/ w[k - 1] \in D THEN w[k - 1] ELSE l[w[k - 1]]

LEMMA TmNumbers ==
  /\ Cardinality(Tims) \in Nat /\ IsFiniteSet(Tims)
  /\ Queues \subseteq Nat /\ Queues \cap Tims = {} /\ TmNull \notin Queues \cup Tims
  /\ \A n \in Nat : n % NTIMQ \in Queues
<1>1. IsFiniteSet(Tims) /\ NTIMQ \in Nat \ {0} /\ TmNull \notin Tims \cup Nat
      /\ Tims \cap (0 .. NTIMQ) = {}
  BY TmAssumption
<1>2. Cardinality(Tims) \in Nat
  BY <1>1, FS_CardinalityType
<1>3. \A n \in Nat : n % NTIMQ \in Queues
  BY <1>1 DEF Queues
<1> QED BY <1>1, <1>2, <1>3 DEF Queues

\* A set of cells has one of the lowest rank.
LEMMA LowestRank ==
  ASSUME NEW r \in [Tims -> Nat], NEW S \in SUBSET Tims, S # {}
  PROVE  \E t \in S : \A u \in S : ~ (r[u] < r[t])
<1> DEFINE N == {r[t] : t \in S}
<1>1. N \subseteq Nat /\ N # {}
  OBVIOUS
<1>2. PICK n \in N : \A k \in N : n <= k
  <2> HIDE DEF N
  <2> QED BY <1>1, LeastNat
<1>3. PICK t \in S : n = r[t]
  OBVIOUS
<1>4. \A u \in S : r[u] \in N /\ r[u] \in Nat
  OBVIOUS
<1>5. \A u \in S : ~ (r[u] < r[t])
  <2> HIDE DEF N
  <2> QED BY <1>1, <1>2, <1>3, <1>4
<1> QED BY <1>5

\* What a walk meets: the cells from np on up to one in D, or all of them.
LEMMA WalkMeets ==
  ASSUME NEW l, NEW b, NEW A, NEW Q, NEW r, Links(l, b, A, Q, r),
         NEW R, NEW np, Rest(R, np, l, b, A), NEW D, NEW w, IsWalk(w, l, np, D)
  PROVE  LET N == Cardinality(Tims)
             V == {w[k] : k \in 0 .. N}
         IN  /\ \A x \in V : x = TmNull \/ x \in R
             /\ np \in V /\ w[N] \in V /\ (w[N] = TmNull \/ w[N] \in D)
             /\ \A x \in V : x \in D /\ x # TmNull => x = w[N]
             /\ \A x \in V : x = TmNull \/ x = np \/ b[x] \in V
             /\ \A x \in V : x = TmNull \/ x \in D \/ l[x] \in V
             /\ w[N] = TmNull => R \subseteq V
             /\ w[N] # TmNull =>
                  \A x \in V : x \in R /\ (x = w[N] \/ r[x] < r[w[N]])
<1> DEFINE N == Cardinality(Tims)
           V == {w[k] : k \in 0 .. N}
           Stopped(x) == x = TmNull \/ x \in D
<1>0. N \in Nat /\ IsFiniteSet(Tims) /\ TmNull \notin Tims
  BY TmNumbers
<1>1. /\ R \subseteq A /\ A \subseteq Tims /\ r \in [Tims -> Nat]
      /\ np = TmNull \/ np \in R
      /\ \A t \in R : t = np \/ b[t] \in R
      /\ \A t \in R : l[t] = TmNull \/ l[t] \in R
      /\ \A t \in A : l[t] # TmNull => l[t] \in A /\ b[l[t]] = t
      /\ \A t \in A : b[t] \in A => r[b[t]] < r[t]
      /\ \A t \in A : l[b[t]] = t
  BY DEF Rest, Links
<1>2. /\ w[0] = np
      /\ \A k \in 1 .. N : w[k] = IF Stopped(w[k - 1]) THEN w[k - 1] ELSE l[w[k - 1]]
  BY DEF IsWalk
<1> HIDE DEF N
<1>3. \A k \in 0 .. N : w[k] = TmNull \/ w[k] \in R
  <2> DEFINE G == {k \in 0 .. N : w[k] = TmNull \/ w[k] \in R}
  <2>1. 0 \in G
    BY <1>0, <1>1, <1>2
  <2>2. ASSUME NEW k \in 1 .. N, k - 1 \in G PROVE k \in G
    <3>1. w[k] = w[k - 1] \/ (w[k - 1] # TmNull /\ w[k] = l[w[k - 1]])
      BY <1>2
    <3> QED BY <1>0, <1>1, <2>2, <3>1
  <2> HIDE DEF G
  <2>3. \A k \in 0 .. N : k \in G
    BY <1>0, <2>1, <2>2, Upwards
  <2> QED BY <2>3 DEF G
<1>4. \A k \in 0 .. N : \A j \in 0 .. k : Stopped(w[j]) => w[k] = w[j]
  <2> DEFINE G == {k \in 0 .. N : \A j \in 0 .. k : Stopped(w[j]) => w[k] = w[j]}
  <2>1. 0 \in G
    <3>1. \A j \in 0 .. 0 : j = 0
      OBVIOUS
    <3> QED BY <1>0, <3>1
  <2>2. ASSUME NEW k \in 1 .. N, k - 1 \in G PROVE k \in G
    <3>1. ASSUME NEW j \in 0 .. k, Stopped(w[j]) PROVE w[k] = w[j]
      <4>1. CASE j = k
        BY <4>1
      <4>2. CASE j # k
        <5>1. j \in 0 .. k - 1
          BY <1>0, <4>2
        <5>2. w[k - 1] = w[j]
          BY <2>2, <3>1, <5>1
        <5> HIDE DEF Stopped
        <5> QED BY <1>2, <3>1, <5>2
      <4> QED BY <4>1, <4>2
    <3> QED BY <1>0, <3>1
  <2> HIDE DEF G
  <2>3. \A k \in 0 .. N : k \in G
    BY <1>0, <2>1, <2>2, Upwards
  <2> QED BY <2>3 DEF G
<1>5. \A k \in 0 .. N : \A j \in 0 .. k :
        ~ Stopped(w[k]) => ~ Stopped(w[j]) /\ (j # k => r[w[j]] < r[w[k]])
  <2> DEFINE Up(k) == \A j \in 0 .. k :
               ~ Stopped(w[k]) => ~ Stopped(w[j]) /\ (j # k => r[w[j]] < r[w[k]])
             G == {k \in 0 .. N : Up(k)}
  <2>1. 0 \in G
    <3>1. \A j \in 0 .. 0 : j = 0
      OBVIOUS
    <3> QED BY <1>0, <3>1
  <2>2. ASSUME NEW k \in 1 .. N, k - 1 \in G PROVE k \in G
    <3>1. ASSUME NEW j \in 0 .. k, ~ Stopped(w[k])
          PROVE  ~ Stopped(w[j]) /\ (j # k => r[w[j]] < r[w[k]])
      <4>1. CASE j = k
        BY <3>1, <4>1
      <4>2. CASE j # k
        <5>1. j \in 0 .. k - 1 /\ k - 1 \in 0 .. N /\ k - 1 \in 0 .. k /\ k \in 0 .. N
          BY <1>0, <4>2
        <5>2. ~ Stopped(w[k - 1]) /\ w[k] = l[w[k - 1]]
          <6>1. Stopped(w[k - 1]) => w[k] = w[k - 1]
            BY <1>2
          <6> HIDE DEF Stopped
          <6> QED BY <1>2, <3>1, <6>1
        <5>3. ~ Stopped(w[j]) /\ (j # k - 1 => r[w[j]] < r[w[k - 1]])
          <6> HIDE DEF Stopped
          <6> QED BY <2>2, <5>1, <5>2
        <5>4. w[k - 1] \in R /\ w[k] \in R
          BY <1>3, <3>1, <5>1, <5>2
        <5>5. r[w[k - 1]] < r[w[k]]
          BY <1>1, <5>2, <5>4, <1>0
        <5>6. w[j] \in R
          <6>1. j \in 0 .. N
            BY <1>0
          <6> QED BY <1>3, <5>3, <6>1
        <5>7. r[w[j]] \in Nat /\ r[w[k]] \in Nat /\ r[w[k - 1]] \in Nat
          BY <1>1, <5>4, <5>6
        <5> QED BY <5>3, <5>5, <5>7
      <4> QED BY <4>1, <4>2
    <3>2. Up(k)
      <4> HIDE DEF Stopped
      <4> QED BY <3>1
    <3> HIDE DEF Up
    <3> QED BY <1>0, <3>2
  <2> HIDE DEF G
  <2>3. \A k \in 0 .. N : k \in G
    BY <1>0, <2>1, <2>2, Upwards
  <2> QED BY <2>3 DEF G
<1>6. Stopped(w[N])
  <2> SUFFICES ASSUME ~ Stopped(w[N]) PROVE FALSE
    OBVIOUS
  <2>1. PICK f : f = [k \in 0 .. N |-> w[k]]
    OBVIOUS
  <2>2. N \in 0 .. N /\ \A k \in 0 .. N : k \in 0 .. N
    BY <1>0
  <2>3. \A k \in 0 .. N : ~ Stopped(w[k])
    <3> HIDE DEF Stopped
    <3> QED BY <1>5, <2>2
  <2>4. \A k \in 0 .. N : w[k] \in Tims
    BY <1>1, <1>3, <2>3
  <2>5. f \in [0 .. N -> Tims]
    BY <2>1, <2>4
  <2>6. ASSUME NEW j \in 0 .. N, NEW k \in 0 .. N, f[j] = f[k] PROVE j = k
    <3>1. w[j] = w[k] /\ r[w[j]] \in Nat
      BY <1>1, <2>1, <2>4, <2>6
    <3>2. CASE j \in 0 .. k
      <4>1. j # k => r[w[j]] < r[w[k]]
        <5> HIDE DEF Stopped
        <5> QED BY <1>5, <2>3, <3>2
      <4> QED BY <3>1, <4>1
    <3>3. CASE k \in 0 .. j
      <4>1. k # j => r[w[k]] < r[w[j]]
        <5> HIDE DEF Stopped
        <5> QED BY <1>5, <2>3, <3>3
      <4> QED BY <3>1, <4>1
    <3>4. j \in 0 .. k \/ k \in 0 .. j
      BY <1>0
    <3> QED BY <3>2, <3>3, <3>4
  <2>7. f \in Injection(0 .. N, Tims)
    BY <2>5, <2>6 DEF Injection, IsInjective
  <2>8. Cardinality(0 .. N) <= Cardinality(Tims)
    BY <1>0, <2>7, FS_Injection
  <2>9. Cardinality(0 .. N) = N + 1
    <3>1. Cardinality(0 .. N) = IF 0 > N THEN 0 ELSE N - 0 + 1
      BY <1>0, FS_Interval
    <3> QED BY <1>0, <3>1
  <2>10. Cardinality(Tims) = N
    BY DEF N
  <2> QED BY <1>0, <2>8, <2>9, <2>10
<1>7. np \in V /\ w[N] \in V
  <2>1. 0 \in 0 .. N /\ N \in 0 .. N
    BY <1>0
  <2> QED BY <1>2, <2>1
<1>8. \A x \in V : x = TmNull \/ x \in R
  BY <1>3
<1>9. \A x \in V : Stopped(x) => x = w[N]
  <2> SUFFICES ASSUME NEW k \in 0 .. N, Stopped(w[k]) PROVE w[k] = w[N]
    OBVIOUS
  <2>1. N \in 0 .. N /\ k \in 0 .. N
    BY <1>0
  <2> HIDE DEF Stopped
  <2> QED BY <1>4, <2>1
<1>10. \A x \in V : x = TmNull \/ x \in D \/ l[x] \in V
  <2> SUFFICES ASSUME NEW k \in 0 .. N, ~ Stopped(w[k]) PROVE l[w[k]] \in V
    OBVIOUS
  <2>1. k # N
    BY <1>6
  <2>2. k + 1 \in 1 .. N /\ k + 1 \in 0 .. N /\ k + 1 - 1 = k
    BY <1>0, <2>1
  <2>3. w[k + 1] = l[w[k]]
    <3> HIDE DEF Stopped
    <3> QED BY <1>2, <2>2
  <2> QED BY <2>2, <2>3
<1>11. \A x \in V : x = TmNull \/ x = np \/ b[x] \in V
  <2> DEFINE G == {k \in 0 .. N : w[k] = TmNull \/ w[k] = np \/ b[w[k]] \in V}
  <2>1. 0 \in G
    BY <1>0, <1>2
  <2>2. ASSUME NEW k \in 1 .. N, k - 1 \in G PROVE k \in G
    <3>1. k \in 0 .. N /\ k - 1 \in 0 .. N
      BY <1>0
    <3>2. CASE Stopped(w[k - 1])
      <4>1. w[k] = w[k - 1]
        BY <1>2, <3>2
      <4> QED BY <2>2, <3>1, <4>1
    <3>3. CASE ~ Stopped(w[k - 1])
      <4>1. w[k] = l[w[k - 1]] /\ w[k - 1] \in R
        BY <1>2, <1>3, <3>1, <3>3
      <4>2. w[k] = TmNull \/ b[w[k]] = w[k - 1]
        BY <1>1, <4>1
      <4>3. w[k - 1] \in V
        BY <3>1
      <4> HIDE DEF V
      <4> QED BY <3>1, <4>2, <4>3
    <3> QED BY <3>2, <3>3
  <2> HIDE DEF G
  <2>3. \A k \in 0 .. N : k \in G
    BY <1>0, <2>1, <2>2, Upwards
  <2> QED BY <2>3 DEF G
<1>12. ASSUME w[N] = TmNull PROVE R \subseteq V
  <2> HIDE DEF V
  <2> SUFFICES ASSUME R \ V # {} PROVE FALSE
    OBVIOUS
  <2>1. PICK t \in R \ V : \A u \in R \ V : ~ (r[u] < r[t])
    BY <1>1, LowestRank
  <2>2. t # np
    BY <1>7
  <2>3. b[t] \in R /\ r[b[t]] < r[t] /\ l[b[t]] = t
    BY <1>1, <2>1, <2>2
  <2>4. b[t] \in V
    BY <2>1, <2>3
  <2>5. b[t] # TmNull /\ b[t] \notin D
    BY <1>0, <1>1, <1>9, <1>12, <2>3, <2>4
  <2> QED BY <1>10, <2>1, <2>3, <2>4, <2>5
<1>13. \A k \in 0 .. N : \A j \in 0 .. k :
         w[k] # TmNull => w[j] \in R /\ (w[j] = w[k] \/ r[w[j]] < r[w[k]])
  <2> DEFINE Up(k) == \A j \in 0 .. k :
               w[k] # TmNull => w[j] \in R /\ (w[j] = w[k] \/ r[w[j]] < r[w[k]])
             G == {k \in 0 .. N : Up(k)}
  <2>1. 0 \in G
    <3>1. \A j \in 0 .. 0 : j = 0
      OBVIOUS
    <3> QED BY <1>0, <1>1, <1>2, <3>1
  <2>2. ASSUME NEW k \in 1 .. N, k - 1 \in G PROVE k \in G
    <3>1. ASSUME NEW j \in 0 .. k, w[k] # TmNull
          PROVE  w[j] \in R /\ (w[j] = w[k] \/ r[w[j]] < r[w[k]])
      <4>0. k \in 0 .. N /\ k - 1 \in 0 .. N /\ k - 1 \in 0 .. k - 1
        BY <1>0
      <4>1. CASE j = k
        BY <1>3, <3>1, <4>0, <4>1
      <4>2. CASE j # k /\ Stopped(w[k - 1])
        <5>1. w[k] = w[k - 1]
          BY <1>2, <4>2
        <5>2. j \in 0 .. k - 1
          BY <1>0, <4>2
        <5> QED BY <2>2, <3>1, <5>1, <5>2
      <4>3. CASE j # k /\ ~ Stopped(w[k - 1])
        <5>1. w[k] = l[w[k - 1]]
          BY <1>2, <4>3
        <5>2. w[k - 1] \in R /\ w[k] \in R
          BY <1>3, <3>1, <4>0, <4>3
        <5>3. r[w[k - 1]] < r[w[k]]
          BY <1>1, <5>1, <5>2, <1>0
        <5>4. j \in 0 .. k - 1
          BY <1>0, <4>3
        <5>5. w[j] \in R /\ (w[j] = w[k - 1] \/ r[w[j]] < r[w[k - 1]])
          BY <2>2, <4>3, <5>4
        <5>6. r[w[j]] \in Nat /\ r[w[k]] \in Nat /\ r[w[k - 1]] \in Nat
          BY <1>1, <5>2, <5>5
        <5> QED BY <5>3, <5>5, <5>6
      <4> QED BY <4>1, <4>2, <4>3
    <3>2. Up(k)
      BY <3>1
    <3> HIDE DEF Up
    <3> QED BY <1>0, <3>2
  <2> HIDE DEF G
  <2>3. \A k \in 0 .. N : k \in G
    BY <1>0, <2>1, <2>2, Upwards
  <2> QED BY <2>3 DEF G
<1>14. w[N] # TmNull => \A x \in V : x \in R /\ (x = w[N] \/ r[x] < r[w[N]])
  <2>1. N \in 0 .. N
    BY <1>0
  <2> QED BY <1>13, <2>1
<1> QED BY <1>6, <1>7, <1>8, <1>9, <1>10, <1>11, <1>12, <1>14 DEF N


\* What a walk down l from np does with the cell x.
Onward(x, l, D) == IF x = TmNull \/ x \in D THEN x ELSE l[x]

IsPath(g, l, np, D) ==
  /\ g \in [0 .. Cardinality(Tims) -> TmCells]
  /\ g = [k \in 0 .. Cardinality(Tims) |->
            IF k = 0 THEN np ELSE Onward(g[k - 1], l, D)]

LEMMA WalkExists ==
  ASSUME NEW l \in [Queues \cup Tims -> TmCells], NEW np \in TmCells, NEW D
  PROVE  \E g : IsPath(g, l, np, D)
<1> DEFINE N == Cardinality(Tims)
           F == [x \in (1 .. N) \X TmCells |-> Onward(x[2], l, D)]
<1>0. N \in Nat
  BY TmNumbers
<1>1. F \in [(1 .. N) \X TmCells -> TmCells]
  <2>1. ASSUME NEW x \in TmCells PROVE Onward(x, l, D) \in TmCells
    BY DEF Onward, TmCells
  <2> QED BY <2>1
<1>2. PICK g \in [0 .. N -> TmCells] : IsRec(g, N, np, F)
  <2> HIDE DEF F, N
  <2> QED BY <1>0, <1>1, RecExists
<1>3. ASSUME NEW n \in 0 .. N, n # 0 PROVE F[<<n, g[n - 1]>>] = Onward(g[n - 1], l, D)
  <2>1. <<n, g[n - 1]>> \in (1 .. N) \X TmCells
    BY <1>0, <1>3
  <2> QED BY <2>1
<1> HIDE DEF F, N
<1>4. g = [k \in 0 .. N |-> IF k = 0 THEN np ELSE Onward(g[k - 1], l, D)]
  BY <1>2, <1>3 DEF IsRec
<1> QED BY <1>2, <1>4 DEF N, IsPath

\* What DueFrom finds is where a walk to the TIMs that are due ends.
LEMMA DueIs ==
  ASSUME link \in [Queues \cup Tims -> TmCells], NEW np \in TmCells
  PROVE  \E w : /\ IsWalk(w, link, np, {t \in Tims : t_lbolt[t] = lbolt'})
                /\ DueFrom(np) = w[Cardinality(Tims)]
<1> DEFINE N == Cardinality(Tims)
           D == {t \in Tims : t_lbolt[t] = lbolt'}
           Step(x) == IF x = TmNull \/ t_lbolt[x] = lbolt' THEN x ELSE link[x]
           Is(g) == g = [k \in 0 .. N |-> IF k = 0 THEN np ELSE Step(g[k - 1])]
<1>0. N \in Nat
  BY TmNumbers
<1>1. \A x \in TmCells : Onward(x, link, D) = Step(x) /\ Step(x) \in TmCells
  BY DEF Onward, TmCells
<1>2. PICK g0 \in [0 .. N -> TmCells] :
        g0 = [k \in 0 .. N |-> IF k = 0 THEN np ELSE Onward(g0[k - 1], link, D)]
  <2> HIDE DEF D
  <2>1. PICK g : IsPath(g, link, np, D)
    BY WalkExists
  <2> QED BY <2>1 DEF IsPath
<1>3. Is(g0)
  <2>1. ASSUME NEW k \in 0 .. N, k # 0 PROVE Onward(g0[k - 1], link, D) = Step(g0[k - 1])
    <3>1. g0[k - 1] \in TmCells
      BY <1>0, <2>1
    <3> HIDE DEF Step, D
    <3> QED BY <1>1, <3>1
  <2> HIDE DEF Step, D
  <2> QED BY <1>2, <2>1
<1>4. PICK g : Is(g) /\ DueFrom(np) = g[N]
  <2>1. PICK g : g = CHOOSE h : Is(h)
    OBVIOUS
  <2>2. Is(g)
    BY <1>3, <2>1
  <2>3. DueFrom(np) = g[N]
    BY <2>1 DEF DueFrom
  <2> QED BY <2>2, <2>3
<1>5. 0 \in 0 .. N /\ \A k \in 1 .. N : k \in 0 .. N /\ k # 0 /\ k - 1 \in 0 .. N
  BY <1>0
<1>6. g[0] = np /\ \A k \in 1 .. N : g[k] = Step(g[k - 1])
  <2> HIDE DEF N, Step
  <2> QED BY <1>4, <1>5
<1>7. \A k \in 0 .. N : g[k] \in TmCells
  <2> DEFINE G == {k \in 0 .. N : g[k] \in TmCells}
  <2>1. 0 \in G
    BY <1>5, <1>6
  <2>2. ASSUME NEW k \in 1 .. N, k - 1 \in G PROVE k \in G
    <3> HIDE DEF Step
    <3> QED BY <1>1, <1>5, <1>6, <2>2
  <2> HIDE DEF G
  <2>3. \A k \in 0 .. N : k \in G
    BY <1>0, <2>1, <2>2, Upwards
  <2> QED BY <2>3 DEF G
<1>8. \A k \in 1 .. N : g[k] = Onward(g[k - 1], link, D)
  <2> HIDE DEF Step, D
  <2> QED BY <1>1, <1>5, <1>6, <1>7
<1>9. IsWalk(g, link, np, D)
  BY <1>6, <1>8 DEF IsWalk, Onward
<1> QED BY <1>4, <1>9

\* What Chain collects is what a walk to the end of the queue meets.
LEMMA ChainWalk ==
  ASSUME link \in [Queues \cup Tims -> TmCells], NEW q \in Queues
  PROVE  \E w : /\ IsWalk(w, link, link[q], {})
                /\ Chain(q) = {w[k] : k \in 0 .. Cardinality(Tims)} \ {TmNull}
<1> DEFINE N == Cardinality(Tims)
           Step(x) == IF x = TmNull THEN TmNull ELSE link[x]
           Met(g) == {g[k] : k \in 0 .. N} \ {TmNull}
           Is(g) == g = [k \in 0 .. N |-> IF k = 0 THEN link[q] ELSE Step(g[k - 1])]
<1>0. N \in Nat /\ link[q] \in TmCells
  BY TmNumbers
<1>1. \A x : Onward(x, link, {}) = Step(x)
  BY DEF Onward
<1>2. PICK g0 \in [0 .. N -> TmCells] :
        g0 = [k \in 0 .. N |-> IF k = 0 THEN link[q] ELSE Onward(g0[k - 1], link, {})]
  <2>1. PICK h \in TmCells : h = link[q]
    BY <1>0
  <2>2. PICK S : S = {}
    OBVIOUS
  <2>3. PICK g : IsPath(g, link, h, S)
    BY WalkExists
  <2> QED BY <2>1, <2>2, <2>3 DEF IsPath
<1>3. Is(g0)
  <2> HIDE DEF Step
  <2> QED BY <1>1, <1>2
<1>4. PICK g : Is(g) /\ Chain(q) = Met(g)
  <2>1. PICK g : g = CHOOSE h : Is(h)
    OBVIOUS
  <2>2. Is(g)
    BY <1>3, <2>1
  <2>3. Chain(q) = Met(g)
    BY <2>1, Zenon DEF Chain
  <2> HIDE DEF Is, Met
  <2> QED BY <2>2, <2>3
<1>5. 0 \in 0 .. N /\ \A k \in 1 .. N : k \in 0 .. N /\ k # 0
  BY <1>0
<1>6. g[0] = link[q] /\ \A k \in 1 .. N : g[k] = Onward(g[k - 1], link, {})
  <2> HIDE DEF N, Step
  <2> QED BY <1>1, <1>4, <1>5
<1>7. IsWalk(g, link, link[q], {})
  BY <1>6 DEF IsWalk, Onward
<1>8. \E w : IsWalk(w, link, link[q], {}) /\ Chain(q) = Met(w)
  <2> HIDE DEF Is, Met
  <2> QED BY <1>4, <1>7
<1> QED BY <1>8, Zenon

\* Taking t off its queue keeps the queues joined, and what lies from np on.
LEMMA UnlinkLinks ==
  ASSUME NEW l, NEW b, NEW A, NEW Q, NEW r, Links(l, b, A, Q, r), NEW t \in Tims,
         NEW l2, NEW b2, l2 = Unlinked(l, b, t)[1], b2 = Unlinked(l, b, t)[2]
  PROVE  /\ Links(l2, b2, A \ {t}, Q, r)
         /\ \A R, np : Rest(R, np, l, b, A) /\ t \notin R => Rest(R, np, l2, b2, A \ {t})
<1> DEFINE p == b[t]
           n == l[t]
<1>0. TmNull \notin Queues \cup Tims /\ Queues \cap Tims = {}
  BY TmNumbers
<1>1. /\ l \in [Queues \cup Tims -> TmCells]
      /\ b \in [Tims -> Queues \cup TmCells]
      /\ A \subseteq Tims /\ Q \in [Tims -> Queues] /\ r \in [Tims -> Nat]
  BY DEF Links
<1>2. \A x \in A : b[x] \in A \cup Queues /\ l[b[x]] = x
  BY DEF Links
<1>3. \A x \in A : b[x] \in Queues => b[x] = Q[x]
  BY DEF Links
<1>4. \A x \in A : b[x] \in A => Q[b[x]] = Q[x] /\ r[b[x]] < r[x]
  BY DEF Links
<1>5. \A x \in Tims \ A : b[x] = TmNull
  BY DEF Links
<1>6. \A x \in Queues \cup A : l[x] # TmNull => l[x] \in A /\ b[l[x]] = x
  BY DEF Links
<1>7. \A x \in Tims : r[x] \in Nat
  BY <1>1
<1>8. CASE t \notin A
  <2>1. l2 = l /\ b2 = b
    BY <1>5, <1>8 DEF Unlinked
  <2>2. A \ {t} = A
    BY <1>8
  <2> QED BY <2>1, <2>2
<1>9. CASE t \in A
  <2>1. p \in A \cup Queues /\ l[p] = t /\ p # TmNull
    BY <1>0, <1>1, <1>2, <1>9
  <2>2. p # t
    BY <1>0, <1>1, <1>4, <1>7, <1>9, <2>1
  <2>3. n = TmNull \/ (n \in A /\ b[n] = t /\ n # t /\ Q[n] = Q[t] /\ r[t] < r[n])
    BY <1>1, <1>4, <1>6, <1>7, <1>9
  <2>4. n # TmNull /\ p \in A => r[p] < r[n]
    <3>1. n # TmNull /\ p \in A => r[p] \in Nat /\ r[t] \in Nat /\ r[n] \in Nat /\ r[p] < r[t]
      BY <1>1, <1>4, <1>9, <2>3
    <3> QED BY <2>3, <3>1
  <2>5. l2 = [l EXCEPT ![p] = n]
        /\ b2 = [x \in Tims |-> IF x = t THEN TmNull ELSE IF x = n THEN p ELSE b[x]]
    BY <2>1 DEF Unlinked
  <2>6. /\ l2 \in [Queues \cup Tims -> TmCells]
        /\ b2 \in [Tims -> Queues \cup TmCells]
    <3>1. n \in TmCells /\ p \in Queues \cup TmCells /\ TmNull \in TmCells
      BY <1>1, <1>9, <2>1 DEF TmCells
    <3>2. \A x \in Queues \cup Tims : l[x] \in TmCells
      BY <1>1
    <3>3. \A x \in Tims : b[x] \in Queues \cup TmCells
      BY <1>1
    <3> HIDE DEF n, p
    <3>4. l2 \in [Queues \cup Tims -> TmCells]
      BY <1>1, <2>5, <3>1
    <3>5. b2 \in [Tims -> Queues \cup TmCells]
      <4>1. \A x \in Tims : (IF x = t THEN TmNull ELSE IF x = n THEN p ELSE b[x])
                               \in Queues \cup TmCells
        BY <3>1, <3>3
      <4> QED BY <2>5, <4>1
    <3> QED BY <3>4, <3>5
  <2>7. l2[p] = n /\ \A x \in Queues \cup Tims : x # p => l2[x] = l[x]
    <3>1. p \in Queues \cup Tims
      BY <1>1, <2>1
    <3> HIDE DEF n, p
    <3> QED BY <1>1, <2>5, <3>1
  <2>8. /\ b2[t] = TmNull
        /\ n # TmNull => b2[n] = p
        /\ \A x \in Tims : x # t /\ x # n => b2[x] = b[x]
    <3>1. n # TmNull => n \in Tims /\ n # t
      BY <1>1, <2>3
    <3> HIDE DEF n, p
    <3> QED BY <2>5, <3>1
  <2> HIDE DEF n, p
  <2>9. \A x \in A \ {t} : x # n => b[x] # t /\ b[x] # p /\ b[x] \in Queues \cup Tims
    BY <1>1, <1>2, <2>1 DEF n
  <2>10. \A x \in A \ {t} : b2[x] \in (A \ {t}) \cup Queues /\ l2[b2[x]] = x
    <3> SUFFICES ASSUME NEW x \in A \ {t}
                 PROVE  b2[x] \in (A \ {t}) \cup Queues /\ l2[b2[x]] = x
      OBVIOUS
    <3>1. CASE x = n
      <4>1. b2[x] = p
        BY <1>0, <1>1, <2>8, <3>1
      <4> QED BY <2>1, <2>2, <2>7, <3>1, <4>1
    <3>2. CASE x # n
      <4>1. b2[x] = b[x] /\ l[b[x]] = x /\ b[x] \in A \cup Queues
        BY <1>1, <1>2, <2>8, <3>2
      <4> QED BY <2>7, <2>9, <3>2, <4>1
    <3> QED BY <3>1, <3>2
  <2>11. \A x \in A \ {t} : b2[x] \in Queues => b2[x] = Q[x]
    <3> SUFFICES ASSUME NEW x \in A \ {t}, b2[x] \in Queues PROVE b2[x] = Q[x]
      OBVIOUS
    <3>1. CASE x = n
      <4>1. b2[x] = p /\ n # TmNull
        BY <1>0, <1>1, <2>8, <3>1
      <4> QED BY <1>3, <1>9, <2>3, <3>1, <4>1 DEF p
    <3>2. CASE x # n
      BY <1>1, <1>3, <2>8, <3>2
    <3> QED BY <3>1, <3>2
  <2>12. \A x \in A \ {t} : b2[x] \in A \ {t} => Q[b2[x]] = Q[x] /\ r[b2[x]] < r[x]
    <3> SUFFICES ASSUME NEW x \in A \ {t}, b2[x] \in A \ {t}
                 PROVE  Q[b2[x]] = Q[x] /\ r[b2[x]] < r[x]
      OBVIOUS
    <3>1. CASE x = n
      <4>1. b2[x] = p /\ n # TmNull
        BY <1>0, <1>1, <2>8, <3>1
      <4>2. Q[p] = Q[t]
        BY <1>4, <1>9, <4>1 DEF p
      <4> QED BY <2>3, <2>4, <3>1, <4>1, <4>2
    <3>2. CASE x # n
      BY <1>1, <1>4, <2>8, <3>2
    <3> QED BY <3>1, <3>2
  <2>13. \A x \in Tims \ (A \ {t}) : b2[x] = TmNull
    <3> SUFFICES ASSUME NEW x \in Tims \ (A \ {t}) PROVE b2[x] = TmNull
      OBVIOUS
    <3>1. x # t => x # n /\ b[x] = TmNull
      BY <1>0, <1>5, <2>3
    <3> QED BY <2>8, <3>1
  <2>14. \A x \in Queues \cup (A \ {t}) : l2[x] # TmNull => l2[x] \in A \ {t} /\ b2[l2[x]] = x
    <3> SUFFICES ASSUME NEW x \in Queues \cup (A \ {t}), l2[x] # TmNull
                 PROVE  l2[x] \in A \ {t} /\ b2[l2[x]] = x
      OBVIOUS
    <3>1. CASE x = p
      <4>1. l2[x] = n /\ n # TmNull
        BY <2>7, <3>1
      <4> QED BY <2>3, <2>8, <3>1, <4>1
    <3>2. CASE x # p
      <4>1. x # t /\ x \in Queues \cup Tims
        BY <1>0, <1>1, <1>9
      <4>2. l2[x] = l[x]
        BY <2>7, <3>2, <4>1
      <4>3. l[x] \in A /\ b[l[x]] = x
        BY <1>6, <4>2
      <4>4. l[x] # t /\ l[x] # n
        BY <2>3, <3>2, <4>1, <4>3, <1>0, <1>1 DEF p
      <4> QED BY <1>1, <2>8, <4>2, <4>3, <4>4
    <3> QED BY <3>1, <3>2
  <2>15. Links(l2, b2, A \ {t}, Q, r)
    BY <1>1, <2>6, <2>10, <2>11, <2>12, <2>13, <2>14 DEF Links
  <2>16. ASSUME NEW R, NEW np, Rest(R, np, l, b, A), t \notin R
         PROVE  Rest(R, np, l2, b2, A \ {t})
    <3>1. /\ R \subseteq A
          /\ np = TmNull => R = {}
          /\ np # TmNull => np \in R /\ b[np] \notin R
          /\ \A x \in R : x = np \/ b[x] \in R
          /\ \A x \in R : l[x] # TmNull => l[x] \in R
      BY <2>16 DEF Rest
    <3>2. p \notin R
      BY <1>0, <1>1, <1>9, <2>1, <2>16, <3>1
    <3>3. n \in R => n = np
      BY <2>3, <2>16, <3>1, <1>0, <1>1
    <3>4. \A x \in R : x # n => b2[x] = b[x]
      BY <1>1, <2>8, <2>16, <3>1
    <3>5. \A x \in R : l2[x] = l[x]
      BY <1>1, <2>7, <3>1, <3>2
    <3>6. np # TmNull => b2[np] \notin R
      BY <2>8, <3>1, <3>2, <3>4
    <3> QED BY <2>16, <3>1, <3>3, <3>4, <3>5, <3>6 DEF Rest
  <2> QED BY <2>15, <2>16
<1> QED BY <1>8, <1>9

\* Putting t at the head of a queue does, too.
LEMMA LinkLinks ==
  ASSUME NEW l, NEW b, NEW A, NEW Q, NEW r, Links(l, b, A, Q, r),
         NEW t \in Tims \ A, NEW m \in Nat,
         NEW l2, NEW b2, l2 = LinkedAt(l, b, t, m)[1], b2 = LinkedAt(l, b, t, m)[2]
  PROVE  /\ \E r2 : Links(l2, b2, A \cup {t}, [Q EXCEPT ![t] = m % NTIMQ], r2)
         /\ \A R, np : Rest(R, np, l, b, A) => Rest(R, np, l2, b2, A \cup {t})
<1>1. PICK q \in Queues : q = m % NTIMQ
  BY TmNumbers
<1> DEFINE h == l[q]
           Q2 == [Q EXCEPT ![t] = q]
           r2 == [x \in Tims |-> IF x = t THEN 0 ELSE r[x] + 1]
<1>0. TmNull \notin Queues \cup Tims /\ Queues \cap Tims = {}
  BY TmNumbers
<1>2. /\ l \in [Queues \cup Tims -> TmCells]
      /\ b \in [Tims -> Queues \cup TmCells]
      /\ A \subseteq Tims /\ Q \in [Tims -> Queues] /\ r \in [Tims -> Nat]
  BY DEF Links
<1>3. \A x \in A : b[x] \in A \cup Queues /\ l[b[x]] = x
  BY DEF Links
<1>4. \A x \in A : b[x] \in Queues => b[x] = Q[x]
  BY DEF Links
<1>5. \A x \in A : b[x] \in A => Q[b[x]] = Q[x] /\ r[b[x]] < r[x]
  BY DEF Links
<1>6. \A x \in Tims \ A : b[x] = TmNull
  BY DEF Links
<1>7. \A x \in Queues \cup A : l[x] # TmNull => l[x] \in A /\ b[l[x]] = x
  BY DEF Links
<1>8. h \in TmCells /\ (h # TmNull => h \in A /\ b[h] = q /\ Q[h] = q) /\ h # t /\ q # t
  BY <1>0, <1>2, <1>4, <1>7
<1>9. /\ l2 = [l EXCEPT ![t] = h, ![q] = t]
      /\ b2 = [x \in Tims |-> IF x = t THEN q ELSE IF x = h THEN t ELSE b[x]]
  BY <1>1 DEF LinkedAt
<1>10. /\ l2 \in [Queues \cup Tims -> TmCells]
       /\ l2[t] = h /\ l2[q] = t
       /\ \A x \in Queues \cup Tims : x # t /\ x # q => l2[x] = l[x]
  <2>1. t \in TmCells /\ t \in Queues \cup Tims /\ q \in Queues \cup Tims
    BY DEF TmCells
  <2>2. PICK l1 : l1 = [l EXCEPT ![t] = h]
    OBVIOUS
  <2> HIDE DEF h
  <2>3. l2 = [l1 EXCEPT ![q] = t]
    BY <1>9, <2>2
  <2>4. /\ l1 \in [Queues \cup Tims -> TmCells] /\ l1[t] = h
        /\ \A x \in Queues \cup Tims : x # t => l1[x] = l[x]
    BY <1>2, <1>8, <2>1, <2>2
  <2>5. /\ l2 \in [Queues \cup Tims -> TmCells] /\ l2[q] = t
        /\ \A x \in Queues \cup Tims : x # q => l2[x] = l1[x]
    BY <2>1, <2>3, <2>4
  <2> QED BY <1>8, <2>1, <2>4, <2>5
<1>11. /\ b2[t] = q /\ (h # TmNull => b2[h] = t)
       /\ \A x \in Tims : x # t /\ x # h => b2[x] = b[x]
  <2>1. h # TmNull => h \in Tims
    BY <1>2, <1>8
  <2> HIDE DEF h
  <2> QED BY <1>8, <1>9, <2>1
<1>12. b2 \in [Tims -> Queues \cup TmCells]
  <2>1. \A x \in Tims : (IF x = t THEN q ELSE IF x = h THEN t ELSE b[x])
                          \in Queues \cup TmCells
    BY <1>2 DEF TmCells
  <2> QED BY <1>9, <2>1
<1>13. Q2 \in [Tims -> Queues] /\ Q2[t] = q /\ \A x \in Tims : x # t => Q2[x] = Q[x]
  BY <1>2
<1>14. /\ r2 \in [Tims -> Nat] /\ r2[t] = 0
       /\ \A x \in A : r2[x] = r[x] + 1 /\ r[x] \in Nat
  BY <1>2
<1> HIDE DEF Q2, r2, h
<1>15. \A x \in A : x # h => b[x] # t /\ b[x] # q /\ b[x] \in Queues \cup Tims
  BY <1>0, <1>2, <1>3 DEF h
<1>16. \A x \in A \cup {t} : b2[x] \in (A \cup {t}) \cup Queues /\ l2[b2[x]] = x
  <2> SUFFICES ASSUME NEW x \in A \cup {t}
               PROVE  b2[x] \in (A \cup {t}) \cup Queues /\ l2[b2[x]] = x
    OBVIOUS
  <2>1. CASE x = t
    BY <1>10, <1>11, <2>1
  <2>2. CASE x = h
    BY <1>0, <1>2, <1>8, <1>10, <1>11, <2>2
  <2>3. CASE x # t /\ x # h
    BY <1>2, <1>3, <1>10, <1>11, <1>15, <2>3
  <2> QED BY <2>1, <2>2, <2>3
<1>17. \A x \in A \cup {t} : b2[x] \in Queues => b2[x] = Q2[x]
  <2> SUFFICES ASSUME NEW x \in A \cup {t}, b2[x] \in Queues PROVE b2[x] = Q2[x]
    OBVIOUS
  <2>1. CASE x = t
    BY <1>11, <1>13, <2>1
  <2>2. CASE x = h
    BY <1>0, <1>2, <1>8, <1>11, <2>2
  <2>3. CASE x # t /\ x # h
    BY <1>2, <1>4, <1>11, <1>13, <2>3
  <2> QED BY <2>1, <2>2, <2>3
<1>18. \A x \in A \cup {t} :
         b2[x] \in A \cup {t} => Q2[b2[x]] = Q2[x] /\ r2[b2[x]] < r2[x]
  <2> SUFFICES ASSUME NEW x \in A \cup {t}, b2[x] \in A \cup {t}
               PROVE  Q2[b2[x]] = Q2[x] /\ r2[b2[x]] < r2[x]
    OBVIOUS
  <2>1. CASE x = t
    BY <1>0, <1>2, <1>11, <2>1
  <2>2. CASE x = h /\ x # t
    <3>1. x \in A /\ b2[x] = t /\ Q[x] = q
      BY <1>0, <1>2, <1>8, <1>11, <2>2
    <3>2. r2[t] < r2[x]
      BY <1>14, <3>1
    <3> QED BY <1>2, <1>13, <2>2, <3>1, <3>2
  <2>3. CASE x # t /\ x # h
    <3>1. x \in A /\ b2[x] = b[x] /\ b[x] \in A
      BY <1>2, <1>11, <1>15, <2>3
    <3>2. Q[b[x]] = Q[x] /\ r[b[x]] < r[x]
      BY <1>5, <3>1
    <3>3. r2[b[x]] < r2[x]
      BY <1>14, <3>1, <3>2
    <3>4. b[x] # t /\ b[x] \in Tims /\ x \in Tims
      BY <1>2, <3>1
    <3> QED BY <1>13, <2>3, <3>1, <3>2, <3>3, <3>4
  <2> QED BY <2>1, <2>2, <2>3
<1>19. \A x \in Tims \ (A \cup {t}) : b2[x] = TmNull
  BY <1>0, <1>6, <1>8, <1>11
<1>20. \A x \in Queues \cup (A \cup {t}) :
         l2[x] # TmNull => l2[x] \in A \cup {t} /\ b2[l2[x]] = x
  <2> SUFFICES ASSUME NEW x \in Queues \cup (A \cup {t}), l2[x] # TmNull
               PROVE  l2[x] \in A \cup {t} /\ b2[l2[x]] = x
    OBVIOUS
  <2>1. CASE x = t
    BY <1>8, <1>10, <1>11, <2>1
  <2>2. CASE x = q
    BY <1>10, <1>11, <2>2
  <2>3. CASE x # t /\ x # q
    <3>1. l2[x] = l[x] /\ x \in Queues \cup A
      BY <1>2, <1>10, <2>3
    <3>2. l[x] \in A /\ b[l[x]] = x
      BY <1>7, <3>1
    <3>3. l[x] # t /\ l[x] # h
      BY <1>0, <1>2, <1>8, <2>3, <3>2
    <3> QED BY <1>2, <1>11, <3>1, <3>2, <3>3
  <2> QED BY <2>1, <2>2, <2>3
<1>21. Links(l2, b2, A \cup {t}, Q2, r2)
  BY <1>2, <1>10, <1>12, <1>13, <1>14, <1>16, <1>17, <1>18, <1>19, <1>20 DEF Links
<1>22. ASSUME NEW R, NEW np, Rest(R, np, l, b, A)
       PROVE  Rest(R, np, l2, b2, A \cup {t})
  <2>1. /\ R \subseteq A
        /\ np = TmNull => R = {}
        /\ np # TmNull => np \in R /\ b[np] \notin R
        /\ \A x \in R : x = np \/ b[x] \in R
        /\ \A x \in R : l[x] # TmNull => l[x] \in R
    BY <1>22 DEF Rest
  <2>2. t \notin R /\ q \notin R
    BY <1>0, <1>2, <2>1
  <2>3. h \in R => h = np
    BY <1>0, <1>2, <1>8, <2>1, <2>2
  <2>4. \A x \in R : l2[x] = l[x] /\ (x # h => b2[x] = b[x])
    BY <1>2, <1>10, <1>11, <2>1, <2>2
  <2>5. np # TmNull => b2[np] \notin R
    BY <1>11, <2>1, <2>2, <2>4
  <2> QED BY <2>1, <2>3, <2>4, <2>5 DEF Rest
<1> QED BY <1>1, <1>21, <1>22 DEF Q2

\* ... and so does timeout, which does the one and then the other.
LEMMA SetLinks ==
  ASSUME NEW l, NEW b, NEW A, NEW Q, NEW r, Links(l, b, A, Q, r),
         NEW t \in Tims, NEW m \in Nat, NEW off, off = Unlinked(l, b, t),
         NEW l2, NEW b2, l2 = LinkedAt(off[1], off[2], t, m)[1],
         b2 = LinkedAt(off[1], off[2], t, m)[2]
  PROVE  /\ \E r2 : Links(l2, b2, A \cup {t}, [Q EXCEPT ![t] = m % NTIMQ], r2)
         /\ \A R, np : Rest(R, np, l, b, A) /\ t \notin R => Rest(R, np, l2, b2, A \cup {t})
<1>1. PICK l1, b1 : l1 = off[1] /\ b1 = off[2]
  OBVIOUS
<1>2. /\ Links(l1, b1, A \ {t}, Q, r)
      /\ \A R, np : Rest(R, np, l, b, A) /\ t \notin R => Rest(R, np, l1, b1, A \ {t})
  BY <1>1, UnlinkLinks
<1>3. t \in Tims \ (A \ {t}) /\ (A \ {t}) \cup {t} = A \cup {t}
  OBVIOUS
<1>4. l2 = LinkedAt(l1, b1, t, m)[1] /\ b2 = LinkedAt(l1, b1, t, m)[2]
  BY <1>1
<1>5. /\ \E r2 : Links(l2, b2, (A \ {t}) \cup {t}, [Q EXCEPT ![t] = m % NTIMQ], r2)
      /\ \A R, np : Rest(R, np, l1, b1, A \ {t}) => Rest(R, np, l2, b2, (A \ {t}) \cup {t})
  BY <1>2, <1>3, <1>4, LinkLinks
<1> QED BY <1>2, <1>3, <1>5

\* The cells of the queue q are what lies from its head on.
LEMMA QueueRest ==
  ASSUME NEW l, NEW b, NEW A, NEW Q, NEW r, Links(l, b, A, Q, r), NEW q \in Queues
  PROVE  Rest({t \in A : Q[t] = q}, l[q], l, b, A)
<1> DEFINE R == {t \in A : Q[t] = q}
<1>0. TmNull \notin Queues \cup Tims /\ Queues \cap Tims = {}
  BY TmNumbers
<1>1. A \subseteq Tims /\ r \in [Tims -> Nat]
  BY DEF Links
<1>2. \A x \in A : b[x] \in A \cup Queues /\ l[b[x]] = x
  BY DEF Links
<1>3. \A x \in A : b[x] \in Queues => b[x] = Q[x]
  BY DEF Links
<1>4. \A x \in A : b[x] \in A => Q[b[x]] = Q[x] /\ r[b[x]] < r[x]
  BY DEF Links
<1>5. \A x \in Queues \cup A : l[x] # TmNull => l[x] \in A /\ b[l[x]] = x
  BY DEF Links
<1>6. \A t \in R : t = l[q] \/ b[t] \in R
  BY <1>2, <1>3, <1>4
<1>7. \A t \in R : l[t] # TmNull => l[t] \in R
  BY <1>4, <1>5
<1>8. l[q] # TmNull => l[q] \in R /\ b[l[q]] \notin R
  BY <1>0, <1>1, <1>3, <1>5
<1>9. l[q] = TmNull => R = {}
  <2> SUFFICES ASSUME l[q] = TmNull, R # {} PROVE FALSE
    OBVIOUS
  <2>1. PICK t \in R : \A u \in R : ~ (r[u] < r[t])
    <3>1. R \in SUBSET Tims
      BY <1>1
    <3> HIDE DEF R
    <3> QED BY <1>1, <3>1, LowestRank
  <2>2. t # l[q]
    BY <1>0, <1>1
  <2>3. b[t] \in R
    BY <1>6, <2>2
  <2> QED BY <1>4, <2>1, <2>3
<1> QED BY <1>6, <1>7, <1>8, <1>9 DEF Rest

(***************************************************************************)
(* From np on the scan finds nothing that is due, or the first that is;    *)
(* what lies behind that one holds all the others.                         *)
(***************************************************************************)
LEMMA ScanFinds ==
  ASSUME NEW l, NEW b, NEW A, NEW Q, NEW r, Links(l, b, A, Q, r),
         NEW R, NEW np, Rest(R, np, l, b, A), NEW D, NEW w, IsWalk(w, l, np, D),
         NEW tp, tp = w[Cardinality(Tims)]
  PROVE  /\ tp = TmNull => R \cap D = {}
         /\ tp # TmNull =>
              /\ tp \in R \cap D
              /\ \E R2 : /\ R2 \subseteq R /\ tp \notin R2
                         /\ R \cap D \subseteq R2 \cup {tp}
                         /\ Rest(R2, l[tp], l, b, A)
<1> DEFINE N == Cardinality(Tims)
           V == {w[k] : k \in 0 .. N}
           R2 == R \ V
<1>0. TmNull \notin Queues \cup Tims /\ Queues \cap Tims = {}
  BY TmNumbers
<1>1. /\ A \subseteq Tims /\ r \in [Tims -> Nat]
      /\ \A x \in A : b[x] \in A \cup Queues /\ l[b[x]] = x
      /\ \A x \in A : b[x] \in A => r[b[x]] < r[x]
      /\ \A x \in A : l[x] # TmNull => l[x] \in A /\ b[l[x]] = x
  BY DEF Links
<1>2. /\ R \subseteq A
      /\ np = TmNull => R = {}
      /\ np # TmNull => np \in R /\ b[np] \notin R
      /\ \A x \in R : x = np \/ b[x] \in R
      /\ \A x \in R : l[x] # TmNull => l[x] \in R
  BY DEF Rest
<1>3. /\ \A x \in V : x = TmNull \/ x \in R
      /\ np \in V /\ tp \in V /\ (tp = TmNull \/ tp \in D)
      /\ \A x \in V : x \in D /\ x # TmNull => x = tp
      /\ \A x \in V : x = TmNull \/ x = np \/ b[x] \in V
      /\ \A x \in V : x = TmNull \/ x \in D \/ l[x] \in V
      /\ tp = TmNull => R \subseteq V
      /\ tp # TmNull => \A x \in V : x \in R /\ (x = tp \/ r[x] < r[tp])
  <2> HIDE DEF V, N
  <2>1. LET M == Cardinality(Tims)
            W == {w[k] : k \in 0 .. M}
        IN  /\ \A x \in W : x = TmNull \/ x \in R
            /\ np \in W /\ w[M] \in W /\ (w[M] = TmNull \/ w[M] \in D)
            /\ \A x \in W : x \in D /\ x # TmNull => x = w[M]
            /\ \A x \in W : x = TmNull \/ x = np \/ b[x] \in W
            /\ \A x \in W : x = TmNull \/ x \in D \/ l[x] \in W
            /\ w[M] = TmNull => R \subseteq W
            /\ w[M] # TmNull =>
                 \A x \in W : x \in R /\ (x = w[M] \/ r[x] < r[w[M]])
    BY WalkMeets
  <2>2. tp = w[N] /\ V = {w[k] : k \in 0 .. N} /\ N = Cardinality(Tims)
    BY DEF V, N
  <2> QED BY <2>1, <2>2
<1> HIDE DEF V
<1>4. CASE tp = TmNull
  BY <1>0, <1>1, <1>2, <1>3, <1>4
<1>5. CASE tp # TmNull
  <2> DEFINE n == l[tp]
  <2>1. tp \in R \cap D /\ R2 \subseteq R /\ tp \notin R2
    BY <1>3, <1>5
  <2>2. R \cap D \subseteq R2 \cup {tp}
    BY <1>0, <1>1, <1>2, <1>3
  <2>3. n # TmNull => n \in R /\ b[n] = tp /\ n \notin V
    <3> SUFFICES ASSUME n # TmNull PROVE n \in R /\ b[n] = tp /\ n \notin V
      OBVIOUS
    <3>1. n \in R /\ b[n] = tp
      BY <1>1, <1>2, <2>1
    <3>2. r[tp] < r[n] /\ r[tp] \in Nat /\ r[n] \in Nat
      BY <1>1, <1>2, <2>1, <3>1
    <3>3. n # tp /\ ~ (r[n] < r[tp])
      BY <3>2
    <3> QED BY <1>3, <1>5, <3>1, <3>3
  <2>4. \A x \in R2 : x = n \/ b[x] \in R2
    <3> SUFFICES ASSUME NEW x \in R2, x # n PROVE b[x] \in R2
      OBVIOUS
    <3>1. b[x] \in R /\ l[b[x]] = x
      BY <1>1, <1>2, <1>3
    <3>2. b[x] # TmNull /\ b[x] # tp
      BY <1>0, <1>1, <1>2, <3>1
    <3> QED BY <1>3, <3>1, <3>2
  <2>5. \A x \in R2 : l[x] # TmNull => l[x] \in R2
    <3> SUFFICES ASSUME NEW x \in R2, l[x] # TmNull PROVE l[x] \in R2
      OBVIOUS
    <3>1. l[x] \in R /\ b[l[x]] = x
      BY <1>1, <1>2
    <3> QED BY <1>2, <1>3, <3>1
  <2>6. n = TmNull => R2 = {}
    <3> SUFFICES ASSUME n = TmNull, R2 # {} PROVE FALSE
      OBVIOUS
    <3>1. R2 \in SUBSET Tims
      BY <1>1, <1>2
    <3>2. PICK t \in R2 : \A u \in R2 : ~ (r[u] < r[t])
      <4> HIDE DEF R2
      <4> QED BY <1>1, <3>1, LowestRank
    <3>3. t # n
      BY <1>0, <3>1
    <3>4. b[t] \in R2
      BY <2>4, <3>3
    <3> QED BY <1>1, <1>2, <3>2, <3>4
  <2>7. n # TmNull => n \in R2 /\ b[n] \notin R2
    BY <2>1, <2>3
  <2>8. Rest(R2, n, l, b, A)
    <3>1. R2 \subseteq A
      BY <1>2
    <3> HIDE DEF R2, n
    <3> QED BY <2>4, <2>5, <2>6, <2>7, <3>1 DEF Rest
  <2> QED BY <1>5, <2>1, <2>2, <2>8
<1> QED BY <1>4, <1>5

----------------------------------------------------------------------------
(* timeout (): the invariant.                                              *)

\* The queue on which each TIM is, or was last.
QueueOf == [t \in Tims |-> t_lbolt[t] % NTIMQ]

TmTyped ==
  /\ t_lbolt \in [Tims -> Nat] /\ lbolt \in Nat
  /\ tmScan \in {<<>>} \cup (Tims \X TmCells)
  /\ tmSetting \in {<<>>} \cup ((Tims \ IntrTims) \X TimDelays)

\* R are the cells a scan has still to look at.
Ahead(R) ==
  IF tmScan = <<>> THEN R = {}
  ELSE tmScan[1] \notin R /\ Rest(R, tmScan[2], link, t_last, tmArmed)

TmLinked == \E r : Links(link, t_last, tmArmed, QueueOf, r)

TmInTime ==
  \E R : /\ Ahead(R)
         /\ \A t \in tmArmed : t_lbolt[t] > lbolt \/ (t_lbolt[t] = lbolt /\ t \in R)

TmHalfSet == tmSetting # <<>> => tmSetting[1] \notin tmArmed /\ tmScan = <<>>

TmInv == TmTyped /\ TmLinked /\ TmInTime /\ TmHalfSet /\ ~tmStray

LEMMA TmInitInv == TmInit => TmInv
<1> SUFFICES ASSUME TmInit PROVE TmInv
  OBVIOUS
<1>0. TmNull \notin Queues \cup Tims /\ Queues \cap Tims = {} /\ \A n \in Nat : n % NTIMQ \in Queues
  BY TmNumbers
<1>1. TmTyped
  BY DEF TmInit, TmTyped
<1>2. QueueOf \in [Tims -> Queues]
  BY <1>0, <1>1 DEF TmTyped, QueueOf
<1>3. Links(link, t_last, {}, QueueOf, [t \in Tims |-> 0])
  BY <1>0, <1>2 DEF TmInit, Links, TmCells
<1>4. TmLinked
  BY <1>3 DEF TmLinked, TmInit
<1>5. Ahead({})
  BY DEF Ahead, TmInit
<1>6. TmInTime
  BY <1>5 DEF TmInTime, TmInit
<1> QED BY <1>1, <1>4, <1>6 DEF TmInv, TmHalfSet, TmInit

\* Setting a timer that the scan has not still to look at keeps the invariant.
LEMMA SetStep ==
  ASSUME TmInv, NEW t \in Tims, NEW n \in TimDelays, Set(t, n),
         \A R : Ahead(R) => t \notin R, tmSetting # <<>> => tmSetting[1] # t,
         UNCHANGED <<lbolt, tmScan, tmSetting, tmStray>>
  PROVE  TmInv'
<1>1. /\ t_lbolt \in [Tims -> Nat] /\ lbolt \in Nat
      /\ n \in Nat \ {0} /\ lbolt + n \in Nat /\ lbolt + n > lbolt
  BY TmAssumption DEF TmInv, TmTyped
<1>2. PICK m \in Nat : m = lbolt + n
  BY <1>1
<1>3. PICK off : off = Unlinked(link, t_last, t)
  OBVIOUS
<1>4. /\ link' = LinkedAt(off[1], off[2], t, m)[1]
      /\ t_last' = LinkedAt(off[1], off[2], t, m)[2]
      /\ t_lbolt' = [t_lbolt EXCEPT ![t] = m]
      /\ tmArmed' = tmArmed \cup {t}
  BY <1>2, <1>3 DEF Set
<1>5. QueueOf' = [QueueOf EXCEPT ![t] = m % NTIMQ]
  <2> DEFINE on(x) == x % NTIMQ
  <2>1. QueueOf = [x \in Tims |-> on(t_lbolt[x])]
    BY DEF QueueOf
  <2>2. QueueOf' = [x \in Tims |-> on(t_lbolt'[x])]
    BY DEF QueueOf
  <2> HIDE DEF on
  <2>3. QueueOf' = [QueueOf EXCEPT ![t] = on(m)]
    BY <1>1, <1>4, <2>1, <2>2
  <2> QED BY <2>3 DEF on
<1>6. PICK r : Links(link, t_last, tmArmed, QueueOf, r)
  BY DEF TmInv, TmLinked
<1>7. /\ \E r2 : Links(link', t_last', tmArmed', QueueOf', r2)
      /\ \A R, np : Rest(R, np, link, t_last, tmArmed) /\ t \notin R
                      => Rest(R, np, link', t_last', tmArmed')
  <2>1. PICK l2, b2 : l2 = link' /\ b2 = t_last'
    OBVIOUS
  <2>2. /\ \E r2 : Links(l2, b2, tmArmed \cup {t}, [QueueOf EXCEPT ![t] = m % NTIMQ], r2)
        /\ \A R, np : Rest(R, np, link, t_last, tmArmed) /\ t \notin R
                        => Rest(R, np, l2, b2, tmArmed \cup {t})
    BY <1>3, <1>4, <1>6, <2>1, SetLinks
  <2> QED BY <1>4, <1>5, <2>1, <2>2
<1>8. TmTyped'
  BY <1>1, <1>2, <1>4 DEF TmInv, TmTyped
<1>9. TmLinked'
  BY <1>7 DEF TmLinked
<1>10. TmInTime'
  <2>1. PICK R : /\ Ahead(R)
                 /\ \A x \in tmArmed : t_lbolt[x] > lbolt \/ (t_lbolt[x] = lbolt /\ x \in R)
    BY DEF TmInv, TmInTime
  <2>2. t \notin R
    BY <2>1
  <2>3. Ahead(R)'
    BY <1>7, <2>1, <2>2 DEF Ahead
  <2>4. t_lbolt'[t] = m /\ \A x \in Tims : x # t => t_lbolt'[x] = t_lbolt[x]
    BY <1>1, <1>4
  <2>5. tmArmed \subseteq Tims
    BY <1>6 DEF Links
  <2>6. \A x \in tmArmed' : t_lbolt'[x] > lbolt' \/ (t_lbolt'[x] = lbolt' /\ x \in R)
    BY <1>1, <1>2, <1>4, <2>1, <2>4, <2>5
  <2> QED BY <2>3, <2>6 DEF TmInTime
<1>11. TmHalfSet' /\ ~tmStray'
  BY <1>4 DEF TmInv, TmHalfSet
<1> QED BY <1>8, <1>9, <1>10, <1>11 DEF TmInv

\* Taking a timer off between ticks does.
LEMMA OffStep ==
  ASSUME TmInv, NEW t \in Tims, NEW off, off = Unlinked(link, t_last, t),
         link' = off[1], t_last' = off[2], tmArmed' = tmArmed \ {t},
         tmScan = <<>>, UNCHANGED <<t_lbolt, lbolt, tmScan, tmStray>>,
         tmSetting' \in {<<>>} \cup ({t} \ IntrTims) \X TimDelays
  PROVE  TmInv'
<1>1. PICK r : Links(link, t_last, tmArmed, QueueOf, r)
  BY DEF TmInv, TmLinked
<1>2. Links(link', t_last', tmArmed', QueueOf, r)
  <2>1. PICK l2, b2 : l2 = link' /\ b2 = t_last'
    OBVIOUS
  <2>2. Links(l2, b2, tmArmed \ {t}, QueueOf, r)
    BY <1>1, <2>1, UnlinkLinks
  <2> QED BY <2>1, <2>2
<1>3. QueueOf' = QueueOf
  BY DEF QueueOf
<1>4. TmTyped'
  BY DEF TmInv, TmTyped
<1>5. TmLinked'
  BY <1>2, <1>3 DEF TmLinked
<1>6. TmInTime'
  <2>1. PICK R : /\ Ahead(R)
                 /\ \A x \in tmArmed : t_lbolt[x] > lbolt \/ (t_lbolt[x] = lbolt /\ x \in R)
    BY DEF TmInv, TmInTime
  <2>2. Ahead(R)'
    BY <2>1 DEF Ahead
  <2> QED BY <2>1, <2>2 DEF TmInTime
<1>7. TmHalfSet' /\ ~tmStray'
  BY DEF TmInv, TmHalfSet
<1> QED BY <1>4, <1>5, <1>6, <1>7 DEF TmInv

\* A turn of the scan does, when R holds all that are due in the tick.
LEMMA ScanStep ==
  ASSUME TmInv, NEW R, NEW np, Rest(R, np, link, t_last, tmArmed), Scan(np),
         lbolt' \in Nat, UNCHANGED <<t_lbolt, tmSetting>>, tmSetting = <<>>,
         \A x \in tmArmed : t_lbolt[x] > lbolt' \/ (t_lbolt[x] = lbolt' /\ x \in R)
  PROVE  TmInv'
<1>0. TmNull \notin Queues \cup Tims
  BY TmNumbers
<1> DEFINE D == {t \in Tims : t_lbolt[t] = lbolt'}
<1>1. PICK r : Links(link, t_last, tmArmed, QueueOf, r)
  BY DEF TmInv, TmLinked
<1>2. link \in [Queues \cup Tims -> TmCells] /\ tmArmed \subseteq Tims
  BY <1>1 DEF Links
<1>3. np \in TmCells /\ R \subseteq tmArmed
  BY <1>2 DEF Rest, TmCells
<1>4. PICK tp, w : /\ tp = DueFrom(np) /\ IsWalk(w, link, np, D)
                   /\ tp = w[Cardinality(Tims)]
  BY <1>2, <1>3, DueIs
<1>5. QueueOf' = QueueOf
  BY DEF QueueOf
<1>6. tmSetting' = <<>> /\ t_lbolt \in [Tims -> Nat]
  BY DEF TmInv, TmTyped
<1> HIDE DEF D
<1>7. /\ tp = TmNull => R \cap D = {}
      /\ tp # TmNull =>
           /\ tp \in R \cap D
           /\ \E R2 : /\ R2 \subseteq R /\ tp \notin R2
                      /\ R \cap D \subseteq R2 \cup {tp}
                      /\ Rest(R2, link[tp], link, t_last, tmArmed)
  BY <1>1, <1>4, ScanFinds
<1>8. \A x \in tmArmed : t_lbolt[x] = lbolt' => x \in R \cap D
  <2>1. \A x \in tmArmed : t_lbolt[x] = lbolt' => x \in R
    BY <1>2, <1>6
  <2> QED BY <1>2, <2>1 DEF D
<1>9. CASE tp = TmNull
  <2>1. tmScan' = <<>> /\ UNCHANGED <<link, t_last, tmArmed, tmStray>>
    BY <1>4, <1>9 DEF Scan
  <2>2. \A x \in tmArmed' : t_lbolt'[x] > lbolt'
    BY <1>7, <1>8, <1>9, <2>1
  <2>3. Ahead({})'
    BY <2>1 DEF Ahead
  <2>4. TmInTime'
    BY <2>2, <2>3 DEF TmInTime
  <2>5. TmLinked'
    BY <1>1, <1>5, <2>1 DEF TmLinked
  <2>6. TmTyped' /\ TmHalfSet' /\ ~tmStray'
    BY <1>6, <2>1 DEF TmInv, TmTyped, TmHalfSet
  <2> QED BY <2>4, <2>5, <2>6 DEF TmInv
<1>10. CASE tp # TmNull
  <2>1. PICK off : off = Unlinked(link, t_last, tp)
    OBVIOUS
  <2>2. /\ link' = off[1] /\ t_last' = off[2]
        /\ tmScan' = <<tp, link[tp]>>
        /\ tmArmed' = tmArmed \ {tp}
        /\ tmStray' = (tmStray \/ tp \notin tmArmed)
    BY <1>4, <1>10, <2>1 DEF Scan
  <2>3. PICK R2 : /\ R2 \subseteq R /\ tp \notin R2
                  /\ R \cap D \subseteq R2 \cup {tp}
                  /\ Rest(R2, link[tp], link, t_last, tmArmed)
    BY <1>7, <1>10
  <2>4. tp \in tmArmed /\ tp \in Tims
    BY <1>2, <1>3, <1>7, <1>10
  <2>5. /\ Links(link', t_last', tmArmed', QueueOf, r)
        /\ Rest(R2, link[tp], link', t_last', tmArmed')
    <3>1. PICK l2, b2 : l2 = link' /\ b2 = t_last'
      OBVIOUS
    <3>2. /\ Links(l2, b2, tmArmed \ {tp}, QueueOf, r)
          /\ \A S, x : Rest(S, x, link, t_last, tmArmed) /\ tp \notin S
                         => Rest(S, x, l2, b2, tmArmed \ {tp})
      BY <1>1, <2>1, <2>2, <2>4, <3>1, UnlinkLinks
    <3> QED BY <2>2, <2>3, <3>1, <3>2
  <2>6. tmScan' # <<>> /\ tmScan'[1] = tp /\ tmScan'[2] = link[tp]
    BY <2>2
  <2>7. Ahead(R2)'
    BY <2>3, <2>5, <2>6 DEF Ahead
  <2>8. \A x \in tmArmed' : t_lbolt'[x] > lbolt' \/ (t_lbolt'[x] = lbolt' /\ x \in R2)
    BY <1>8, <2>2, <2>3
  <2>9. TmInTime'
    BY <2>7, <2>8 DEF TmInTime
  <2>10. TmLinked'
    BY <1>5, <2>5 DEF TmLinked
  <2>11. link[tp] \in TmCells
    BY <1>2, <2>4
  <2>12. TmTyped' /\ TmHalfSet' /\ ~tmStray'
    BY <1>6, <2>2, <2>4, <2>11 DEF TmInv, TmTyped, TmHalfSet
  <2> QED BY <2>9, <2>10, <2>12 DEF TmInv
<1> QED BY <1>9, <1>10

LEMMA TmStep == TmInv /\ [TmNext]_tmVars => TmInv'
<1> SUFFICES ASSUME TmInv, [TmNext]_tmVars PROVE TmInv'
  OBVIOUS
<1>1. TmTyped /\ TmHalfSet /\ ~tmStray
  BY DEF TmInv
<1>2. PICK r : Links(link, t_last, tmArmed, QueueOf, r)
  BY DEF TmInv, TmLinked
<1>3. PICK R : /\ Ahead(R)
               /\ \A x \in tmArmed : t_lbolt[x] > lbolt \/ (t_lbolt[x] = lbolt /\ x \in R)
  BY DEF TmInv, TmInTime
<1>4. ASSUME NEW t \in Tims, NEW n \in TimDelays, timeoutOff(t, n) PROVE TmInv'
  <2>1. PICK off : off = Unlinked(link, t_last, t)
    OBVIOUS
  <2>2. /\ link' = off[1] /\ t_last' = off[2]
        /\ tmScan = <<>> /\ tmArmed' = tmArmed \ {t} /\ tmSetting' = <<t, n>>
        /\ t \notin IntrTims /\ UNCHANGED <<t_lbolt, lbolt, tmScan, tmStray>>
    BY <1>4, <2>1 DEF timeoutOff
  <2> QED BY <2>1, <2>2, OffStep
<1>5. ASSUME NEW t \in Tims, timeoutCancel(t) PROVE TmInv'
  <2>1. PICK off : off = Unlinked(link, t_last, t)
    OBVIOUS
  <2>2. /\ link' = off[1] /\ t_last' = off[2]
        /\ tmScan = <<>> /\ tmArmed' = tmArmed \ {t} /\ tmSetting' = <<>>
        /\ UNCHANGED <<t_lbolt, lbolt, tmScan, tmStray>>
    BY <1>5, <2>1 DEF timeoutCancel, Cancel
  <2> QED BY <2>1, <2>2, OffStep
<1>6. ASSUME NEW t \in Tims, NEW n \in TimDelays, timeoutIntr(t, n) PROVE TmInv'
  <2>1. t \in IntrTims /\ t_last[t] = TmNull /\ Set(t, n)
        /\ UNCHANGED <<lbolt, tmScan, tmSetting, tmStray>>
    BY <1>6 DEF timeoutIntr
  <2>2. t \notin tmArmed
    BY <1>2, <2>1, TmNumbers DEF Links
  <2>3. \A S : Ahead(S) => t \notin S
    BY <2>2 DEF Ahead, Rest
  <2>4. tmSetting # <<>> => tmSetting[1] # t
    BY <1>1, <2>1 DEF TmTyped
  <2> QED BY <2>1, <2>3, <2>4, SetStep
<1>7. ASSUME NEW t \in Tims, NEW n \in TimDelays, FunctionSets(t, n) PROVE TmInv'
  <2>1. tmScan # <<>> /\ t = tmScan[1] /\ Set(t, n)
        /\ UNCHANGED <<lbolt, tmScan, tmSetting, tmStray>>
    BY <1>7 DEF FunctionSets
  <2>2. \A S : Ahead(S) => t \notin S
    BY <2>1 DEF Ahead
  <2>3. tmSetting # <<>> => tmSetting[1] # t
    BY <1>1, <2>1 DEF TmHalfSet
  <2> QED BY <2>1, <2>2, <2>3, SetStep
<1>8. ASSUME timeoutOn PROVE TmInv'
  <2>1. PICK t, n : t = tmSetting[1] /\ n = tmSetting[2]
    OBVIOUS
  <2>2. tmSetting # <<>> /\ t \in Tims \ tmArmed /\ n \in Nat \ {0} /\ tmScan = <<>>
    BY <1>1, <1>8, <2>1, TmAssumption DEF timeoutOn, TmTyped, TmHalfSet
  <2>3. lbolt \in Nat /\ t_lbolt \in [Tims -> Nat]
    BY <1>1 DEF TmTyped
  <2>4. PICK m \in Nat : m = lbolt + n /\ m > lbolt
    BY <2>2, <2>3
  <2>5. /\ link' = LinkedAt(link, t_last, t, m)[1]
        /\ t_last' = LinkedAt(link, t_last, t, m)[2]
        /\ t_lbolt' = [t_lbolt EXCEPT ![t] = m]
        /\ tmArmed' = tmArmed \cup {t}
        /\ tmSetting' = <<>> /\ UNCHANGED <<lbolt, tmScan, tmStray>>
    BY <1>8, <2>1, <2>4 DEF timeoutOn
  <2>6. QueueOf' = [QueueOf EXCEPT ![t] = m % NTIMQ]
    <3> DEFINE on(x) == x % NTIMQ
    <3>1. QueueOf = [x \in Tims |-> on(t_lbolt[x])]
      BY DEF QueueOf
    <3>2. QueueOf' = [x \in Tims |-> on(t_lbolt'[x])]
      BY DEF QueueOf
    <3> HIDE DEF on
    <3>3. QueueOf' = [QueueOf EXCEPT ![t] = on(m)]
      BY <2>2, <2>3, <2>5, <3>1, <3>2
    <3> QED BY <3>3 DEF on
  <2>7. \E r2 : Links(link', t_last', tmArmed', QueueOf', r2)
    <3>1. PICK l2, b2 : l2 = link' /\ b2 = t_last'
      OBVIOUS
    <3>2. \E r2 : Links(l2, b2, tmArmed \cup {t}, [QueueOf EXCEPT ![t] = m % NTIMQ], r2)
      BY <1>2, <2>2, <2>5, <3>1, LinkLinks
    <3> QED BY <2>5, <2>6, <3>1, <3>2
  <2>8. TmLinked'
    BY <2>7 DEF TmLinked
  <2>9. TmInTime'
    <3>1. R = {} /\ Ahead({})'
      BY <1>3, <2>2, <2>5 DEF Ahead
    <3>2. t_lbolt'[t] = m /\ \A x \in Tims : x # t => t_lbolt'[x] = t_lbolt[x]
      BY <2>2, <2>3, <2>5
    <3>3. tmArmed \subseteq Tims
      BY <1>2 DEF Links
    <3>4. \A x \in tmArmed' : t_lbolt'[x] > lbolt'
      BY <1>3, <2>4, <2>5, <3>1, <3>2, <3>3
    <3> QED BY <3>1, <3>4 DEF TmInTime
  <2>10. TmTyped' /\ TmHalfSet' /\ ~tmStray'
    BY <1>1, <2>2, <2>3, <2>5 DEF TmTyped, TmHalfSet
  <2> QED BY <2>8, <2>9, <2>10 DEF TmInv
<1>9. ASSUME check_clock PROVE TmInv'
  <2>1. lbolt \in Nat /\ lbolt + 1 \in Nat /\ t_lbolt \in [Tims -> Nat]
    BY <1>1 DEF TmTyped
  <2>2. PICK m \in Nat : m = lbolt + 1
    BY <2>1
  <2>3. PICK q \in Queues : q = m % NTIMQ
    BY TmNumbers
  <2>4. /\ tmScan = <<>> /\ tmSetting = <<>> /\ lbolt' = m
        /\ Scan(link[q]) /\ UNCHANGED <<t_lbolt, tmSetting>>
    BY <1>9, <2>2, <2>3 DEF check_clock, TickQueue
  <2> DEFINE R0 == {t \in tmArmed : QueueOf[t] = q}
  <2>5. Rest(R0, link[q], link, t_last, tmArmed)
    BY <1>2, QueueRest
  <2>6. R = {} /\ tmArmed \subseteq Tims
    BY <1>2, <1>3, <2>4 DEF Ahead, Links
  <2>7. \A x \in tmArmed : t_lbolt[x] > lbolt' \/ (t_lbolt[x] = lbolt' /\ x \in R0)
    <3> SUFFICES ASSUME NEW x \in tmArmed, ~ (t_lbolt[x] > lbolt')
                 PROVE  t_lbolt[x] = lbolt' /\ x \in R0
      OBVIOUS
    <3>1. t_lbolt[x] > lbolt /\ t_lbolt[x] \in Nat
      BY <1>3, <2>1, <2>6
    <3>2. t_lbolt[x] = m
      BY <2>1, <2>2, <2>4, <3>1
    <3>3. QueueOf[x] = q
      BY <2>3, <2>6, <3>2 DEF QueueOf
    <3> QED BY <2>4, <3>2, <3>3
  <2> HIDE DEF R0
  <2>8. PICK np : np = link[q]
    OBVIOUS
  <2> QED BY <2>4, <2>5, <2>7, <2>8, ScanStep
<1>10. ASSUME FunctionReturns PROVE TmInv'
  <2>1. /\ tmScan # <<>> /\ Scan(tmScan[2])
        /\ UNCHANGED <<t_lbolt, lbolt, tmSetting>>
    BY <1>10 DEF FunctionReturns
  <2>2. PICK np : np = tmScan[2]
    OBVIOUS
  <2>3. Rest(R, np, link, t_last, tmArmed) /\ tmSetting = <<>> /\ lbolt' \in Nat
    BY <1>1, <1>3, <2>1, <2>2 DEF Ahead, TmHalfSet, TmTyped
  <2>4. \A x \in tmArmed : t_lbolt[x] > lbolt' \/ (t_lbolt[x] = lbolt' /\ x \in R)
    BY <1>3, <2>1
  <2>5. Scan(np)
    BY <2>1, <2>2
  <2> QED BY <2>1, <2>3, <2>4, <2>5, ScanStep
<1>11. CASE UNCHANGED tmVars
  <2>1. QueueOf' = QueueOf
    BY <1>11 DEF QueueOf, tmVars
  <2>2. Ahead(R)'
    BY <1>3, <1>11 DEF Ahead, tmVars
  <2>3. TmLinked'
    BY <1>2, <1>11, <2>1 DEF TmLinked, tmVars
  <2>4. TmInTime'
    BY <1>3, <1>11, <2>2 DEF TmInTime, tmVars
  <2> QED BY <1>1, <1>11, <2>3, <2>4 DEF TmInv, TmTyped, TmHalfSet, tmVars
<1> QED BY <1>4, <1>5, <1>6, <1>7, <1>8, <1>9, <1>10, <1>11 DEF TmNext

\* The invariant implies that the queues are sound and timers on time.
LEMMA TmInvExact == TmInv => TmExact
<1> SUFFICES ASSUME TmInv PROVE TmExact
  OBVIOUS
<1>0. TmNull \notin Queues \cup Tims
  BY TmNumbers
<1>1. PICK r : Links(link, t_last, tmArmed, QueueOf, r)
  BY DEF TmInv, TmLinked
<1>2. link \in [Queues \cup Tims -> TmCells] /\ tmArmed \subseteq Tims
  BY <1>1 DEF Links
<1>3. ASSUME NEW q \in Queues
      PROVE  Chain(q) = {t \in tmArmed : t_lbolt[t] % NTIMQ = q}
  <2> DEFINE R == {t \in tmArmed : QueueOf[t] = q}
  <2>1. Rest(R, link[q], link, t_last, tmArmed)
    BY <1>1, QueueRest
  <2>2. PICK w : /\ IsWalk(w, link, link[q], {})
                 /\ Chain(q) = {w[k] : k \in 0 .. Cardinality(Tims)} \ {TmNull}
    BY <1>2, ChainWalk
  <2> HIDE DEF R
  <2>3. PICK V : V = {w[k] : k \in 0 .. Cardinality(Tims)}
    OBVIOUS
  <2>4. PICK np : np = link[q]
    OBVIOUS
  <2>5. (\A x \in V : x = TmNull \/ x \in R) /\ R \subseteq V
    <3>1. LET N == Cardinality(Tims)
              W == {w[k] : k \in 0 .. N}
          IN  /\ \A x \in W : x = TmNull \/ x \in R
              /\ (w[N] = TmNull \/ w[N] \in {})
              /\ w[N] = TmNull => R \subseteq W
      BY <1>1, <2>1, <2>2, <2>4, WalkMeets
    <3> QED BY <2>3, <3>1
  <2>6. TmNull \notin R
    BY <1>0, <1>2 DEF R
  <2>7. Chain(q) = R
    BY <2>2, <2>3, <2>5, <2>6
  <2>8. R = {t \in tmArmed : t_lbolt[t] % NTIMQ = q}
    BY <1>2 DEF R, QueueOf
  <2> QED BY <2>7, <2>8
<1>4. \A t \in Tims : IF t \in tmArmed THEN link[t_last[t]] = t ELSE t_last[t] = TmNull
  BY <1>1 DEF Links
<1>5. tmScan = <<>> => \A t \in tmArmed : t_lbolt[t] > lbolt
  BY DEF TmInv, TmInTime, Ahead
<1> QED BY <1>3, <1>4, <1>5 DEF TmExact, TmSound, TmOnTime, TmInv

(***************************************************************************)
(* The queues of timeout are sound and serve every timer in its tick, for  *)
(* any number of TIMs and queues and any delays.                           *)
(***************************************************************************)
THEOREM TimeoutsExact == TmSpec => []TmExact
<1>1. TmSpec => []TmInv
  BY TmInitInv, TmStep, PTL DEF TmSpec
<1> QED BY <1>1, TmInvExact, PTL

----------------------------------------------------------------------------
(* Sleep locks and synchronisation variables: the process lists.           *)

\* The i-th process of a list of n, or NULL past either end.
Nth(f, n, i) == IF i \in 1 .. n THEN f[i] ELSE KsNone

(***************************************************************************)
(* A walk from head along next meets the processes f[1] to f[n], which are *)
(* those of S, each once and those of higher priority first.               *)
(***************************************************************************)
IsList(f, n, S, head, next) ==
  /\ n \in Nat /\ f \in [1 .. n -> KsProcs]
  /\ \A i, j \in 1 .. n : f[i] = f[j] => i = j
  /\ \A p : p \in S <=> \E i \in 1 .. n : f[i] = p
  /\ head = Nth(f, n, 1)
  /\ \A i \in 1 .. n : next[f[i]] = Nth(f, n, i + 1)
  /\ \A i, j \in 1 .. n : i < j => KsPri[f[j]] <= KsPri[f[i]]

LEMMA KsNumbers ==
  /\ Cardinality(KsProcs) \in Nat
  /\ KsPri \in [KsProcs -> Nat] /\ KsNone \notin KsProcs
  /\ \A p \in KsProcs : KsPri[p] \in Nat
BY KsAssumption, FS_CardinalityType

\* There are no more places in a list than processes.
LEMMA ListShort ==
  ASSUME NEW f, NEW n, NEW S, NEW head, NEW next, IsList(f, n, S, head, next)
  PROVE  n <= Cardinality(KsProcs)
<1>0. IsFiniteSet(KsProcs) /\ n \in Nat
  BY KsAssumption DEF IsList
<1>1. f \in Injection(1 .. n, KsProcs)
  BY DEF IsList, Injection, IsInjective
<1>2. Cardinality(1 .. n) = n
  <2>1. Cardinality(1 .. n) = IF 1 > n THEN 0 ELSE n - 1 + 1
    BY <1>0, FS_Interval
  <2> QED BY <1>0, <2>1
<1>3. Cardinality(1 .. n) <= Cardinality(KsProcs)
  BY <1>0, <1>1, FS_Injection
<1> QED BY <1>2, <1>3

\* What Reached walks is the list.
LEMMA ReachedIs ==
  ASSUME NEW l, NEW f, NEW n, NEW S, IsList(f, n, S, pl_head[l], pn_next)
  PROVE  \E w : /\ w = Reached(l) /\ DOMAIN w = 1 .. Cardinality(KsProcs)
                /\ \A k \in 1 .. Cardinality(KsProcs) : w[k] = Nth(f, n, k)
<1> DEFINE N == Cardinality(KsProcs)
           Step(x) == IF x = KsNone THEN KsNone ELSE pn_next[x]
           Is(g) == g = [k \in 1 .. N |-> IF k = 1 THEN pl_head[l] ELSE Step(g[k - 1])]
           w0 == [k \in 1 .. N |-> Nth(f, n, k)]
<1>0. N \in Nat /\ n \in Nat /\ KsNone \notin KsProcs
  BY KsNumbers DEF IsList
<1>1. \A k \in 1 .. N : k # 1 => Step(Nth(f, n, k - 1)) = Nth(f, n, k)
  <2> SUFFICES ASSUME NEW k \in 1 .. N, k # 1 PROVE Step(Nth(f, n, k - 1)) = Nth(f, n, k)
    OBVIOUS
  <2>1. CASE k - 1 \in 1 .. n
    <3>1. Nth(f, n, k - 1) = f[k - 1] /\ f[k - 1] \in KsProcs
      BY <2>1 DEF Nth, IsList
    <3>2. pn_next[f[k - 1]] = Nth(f, n, k - 1 + 1) /\ k - 1 + 1 = k
      BY <1>0, <2>1 DEF IsList
    <3> QED BY <1>0, <3>1, <3>2
  <2>2. CASE k - 1 \notin 1 .. n
    <3>1. k \notin 1 .. n
      BY <1>0, <2>2
    <3> QED BY <2>2, <3>1 DEF Nth
  <2> QED BY <2>1, <2>2
<1>2. pl_head[l] = Nth(f, n, 1)
  BY DEF IsList
<1>3. Is(w0)
  <2>1. \A k \in 1 .. N : k # 1 => w0[k - 1] = Nth(f, n, k - 1)
    BY <1>0
  <2>2. \A k \in 1 .. N : Nth(f, n, k) = IF k = 1 THEN pl_head[l] ELSE Step(w0[k - 1])
    <3> HIDE DEF Step, w0
    <3> QED BY <1>1, <1>2, <2>1
  <2> HIDE DEF Step
  <2> QED BY <2>2
<1>4. PICK g : Is(g) /\ Reached(l) = g
  <2>1. PICK g : g = CHOOSE h : Is(h)
    OBVIOUS
  <2>2. Is(g)
    BY <1>3, <2>1
  <2>3. Reached(l) = g
    BY <2>1 DEF Reached
  <2> QED BY <2>2, <2>3
<1>5. DOMAIN g = 1 .. N
      /\ \A k \in 1 .. N : g[k] = IF k = 1 THEN pl_head[l] ELSE Step(g[k - 1])
  <2>1. \A k \in 1 .. N : k \in 1 .. N
    OBVIOUS
  <2> HIDE DEF N, Step
  <2> QED BY <1>4
<1>6. \A k \in 1 .. N : g[k] = Nth(f, n, k)
  <2> DEFINE G == {k \in 0 .. N : k # 0 => g[k] = Nth(f, n, k)}
  <2>1. 0 \in G
    BY <1>0
  <2>2. ASSUME NEW k \in 1 .. N, k - 1 \in G PROVE k \in G
    <3>1. k # 1 => g[k - 1] = Nth(f, n, k - 1)
      BY <1>0, <2>2
    <3>2. g[k] = Nth(f, n, k)
      <4> HIDE DEF Step
      <4> QED BY <1>1, <1>2, <1>5, <3>1
    <3> QED BY <1>0, <3>2
  <2> HIDE DEF G
  <2>3. \A k \in 0 .. N : k \in G
    BY <1>0, <2>1, <2>2, Upwards
  <2> QED BY <1>0, <2>3 DEF G
<1> QED BY <1>4, <1>5, <1>6

\* ... so WAKE_ALL meets all that are on it.
LEMMA OnListIs ==
  ASSUME NEW l, NEW f, NEW n, NEW S, IsList(f, n, S, pl_head[l], pn_next)
  PROVE  OnList(l) = S
<1>1. PICK w : /\ w = Reached(l) /\ DOMAIN w = 1 .. Cardinality(KsProcs)
               /\ \A k \in 1 .. Cardinality(KsProcs) : w[k] = Nth(f, n, k)
  BY ReachedIs
<1>2. n <= Cardinality(KsProcs) /\ n \in Nat
  <2>1. n <= Cardinality(KsProcs)
    BY ListShort
  <2> QED BY <2>1 DEF IsList
<1>3. \A i \in 1 .. n : Nth(f, n, i) = f[i] /\ f[i] \in KsProcs /\ f[i] # KsNone
  BY KsNumbers DEF Nth, IsList
<1>4. \A p : p \in OnList(l) <=> p # KsNone /\ \E k \in DOMAIN w : w[k] = p
  BY <1>1 DEF OnList
<1>5. \A k \in DOMAIN w : w[k] # KsNone => k \in 1 .. n /\ w[k] = f[k]
  BY <1>1 DEF Nth
<1>6. \A i \in 1 .. n : i \in DOMAIN w /\ w[i] = f[i] /\ f[i] # KsNone
  BY <1>1, <1>2, <1>3, KsNumbers
<1>7. \A p : p \in S <=> \E i \in 1 .. n : f[i] = p
  BY DEF IsList
<1>8. \A p : p \in OnList(l) <=> p \in S
  BY <1>4, <1>5, <1>6, <1>7
<1> QED BY <1>8

\* The scan of MAKE_SLEEPING finds the place j of p in the list.
Place(j, f, n, p) ==
  /\ j \in 1 .. n + 1
  /\ \A i \in 1 .. n : i < j => ~ StopsScan(f[i], p)
  /\ j \in 1 .. n => StopsScan(f[j], p)

Scanned(j, f, n, l, p) ==
  /\ Place(j, f, n, p)
  /\ pscan(l, p) = Nth(f, n, j) /\ pprev(l, p) = Nth(f, n, j - 1)

LEMMA ScanIs ==
  ASSUME NEW l, NEW f, NEW n, NEW S, IsList(f, n, S, pl_head[l], pn_next),
         NEW p
  PROVE  \E j : Scanned(j, f, n, l, p)
<1> DEFINE N == Cardinality(KsProcs)
<1>1. PICK w : /\ w = Reached(l) /\ DOMAIN w = 1 .. N
               /\ \A k \in 1 .. N : w[k] = Nth(f, n, k)
  BY ReachedIs
<1>2. n <= N /\ n \in Nat /\ N \in Nat
  <2>1. n <= Cardinality(KsProcs)
    BY ListShort
  <2> QED BY <2>1, KsNumbers DEF IsList
<1> HIDE DEF N
<1>3. \A i \in 1 .. n : i \in 1 .. N /\ w[i] = f[i] /\ w[i] # KsNone
  BY <1>1, <1>2, KsNumbers DEF Nth, IsList
<1>4. \A k \in 1 .. N : w[k] # KsNone => k \in 1 .. n
  BY <1>1 DEF Nth
<1> DEFINE Stops == {k \in 1 .. n : StopsScan(f[k], p)}
           Before == {k \in 1 .. n : \A i \in 1 .. k : ~ StopsScan(f[i], p)}
<1>5. {k \in DOMAIN w : w[k] # KsNone /\ StopsScan(w[k], p)} = Stops
  BY <1>1, <1>3, <1>4
<1>6. {k \in DOMAIN w : w[k] # KsNone /\ \A i \in 1 .. k : ~ StopsScan(w[i], p)} = Before
  <2>1. \A k \in 1 .. n : \A i \in 1 .. k : i \in 1 .. n /\ w[i] = f[i]
    BY <1>2, <1>3
  <2> QED BY <1>1, <1>3, <1>4, <2>1
<1>7. Stopping(l, p) = Stops
  BY <1>1, <1>5, Zenon DEF Stopping
<1>8. Passed(l, p) = Before
  BY <1>1, <1>6, Zenon DEF Passed
<1>9. PICK j \in 1 .. n + 1 : /\ Place(j, f, n, p)
                              /\ IF Stops = {} THEN j = n + 1
                                 ELSE j \in Stops /\ \A i \in Stops : j <= i
  <2>1. CASE Stops = {}
    <3>1. n + 1 \in 1 .. n + 1 /\ n + 1 \notin 1 .. n
      BY <1>2
    <3>2. Place(n + 1, f, n, p)
      BY <2>1, <3>1 DEF Place
    <3> QED BY <2>1, <3>1, <3>2
  <2>2. CASE Stops # {}
    <3>1. Stops \subseteq Nat
      OBVIOUS
    <3>2. PICK j \in Stops : \A i \in Stops : j <= i
      <4> HIDE DEF Stops
      <4> QED BY <2>2, <3>1, LeastNat
    <3>3. j \in 1 .. n /\ j \in 1 .. n + 1
      BY <1>2
    <3>4. \A i \in 1 .. n : i < j => ~ StopsScan(f[i], p)
      BY <1>2, <3>2, <3>3
    <3>5. Place(j, f, n, p)
      BY <3>2, <3>3, <3>4 DEF Place
    <3> QED BY <2>2, <3>2, <3>3, <3>5
  <2> QED BY <2>1, <2>2
<1>10. pscan(l, p) = Nth(f, n, j)
  <2>1. CASE Stops = {}
    <3>1. j \notin 1 .. n
      BY <1>2, <1>9, <2>1
    <3> QED BY <1>7, <2>1, <3>1 DEF Nth, pscan
  <2>2. CASE Stops # {}
    <3>1. j \in Stops /\ \A i \in Stops : j <= i
      BY <1>9, <2>2
    <3>2. \A k \in Stops : (\A i \in Stops : k =< i) => k = j
      BY <1>2, <3>1
    <3>3. Min(Stops) = j
      <4> HIDE DEF Stops
      <4> QED BY <3>1, <3>2 DEF Min
    <3> QED BY <1>1, <1>3, <1>7, <2>2, <3>1, <3>3 DEF Nth, pscan
  <2> QED BY <2>1, <2>2
<1>11. \A k : k \in Before <=> k \in 1 .. n /\ k < j
  <2>1. \A i \in 1 .. n : i < j => ~ StopsScan(f[i], p)
    BY <1>9 DEF Place
  <2>2. j \in 1 .. n => StopsScan(f[j], p)
    BY <1>9 DEF Place
  <2>3. \A k \in 1 .. n : k < j => k \in Before
    BY <1>2, <2>1
  <2>4. \A k \in Before : k < j
    <3> SUFFICES ASSUME NEW k \in Before, ~ (k < j) PROVE FALSE
      OBVIOUS
    <3>1. j \in 1 .. k /\ j \in 1 .. n
      BY <1>2
    <3> QED BY <2>2, <3>1
  <2> QED BY <2>3, <2>4
<1>12. pprev(l, p) = Nth(f, n, j - 1)
  <2>1. CASE j = 1
    <3>1. Before = {}
      BY <1>11, <2>1
    <3>2. j - 1 \notin 1 .. n
      BY <2>1
    <3> QED BY <1>8, <3>1, <3>2 DEF Nth, pprev
  <2>2. CASE j # 1
    <3>1. j - 1 \in 1 .. n
      BY <1>2, <2>2
    <3>2. j - 1 \in Before /\ \A k \in Before : k =< j - 1
      BY <1>2, <1>11, <3>1
    <3>3. \A k \in Before : (\A i \in Before : i =< k) => k = j - 1
      BY <1>2, <3>2
    <3>4. Max(Before) = j - 1
      <4>1. PICK m : m = j - 1
        OBVIOUS
      <4> HIDE DEF Before
      <4> QED BY <3>2, <3>3, <4>1 DEF Max
    <3> QED BY <1>1, <1>3, <1>8, <3>1, <3>2, <3>4 DEF Nth, pprev
  <2> QED BY <2>1, <2>2
<1> QED BY <1>9, <1>10, <1>12 DEF Scanned

\* What is written to the links of other processes leaves the list alone.
LEMMA ListFrame ==
  ASSUME NEW f, NEW n, NEW S, NEW head, NEW next, IsList(f, n, S, head, next),
         NEW next2, \A q \in S : next2[q] = next[q]
  PROVE  IsList(f, n, S, head, next2)
BY DEF IsList

\* p is linked between the processes a and b.
Inserts(p, a, b, S, head, next, head2, next2) ==
  /\ p \in KsProcs /\ p \notin S
  /\ next2[p] = b /\ (a # KsNone => next2[a] = p)
  /\ \A q \in S : q # a => next2[q] = next[q]
  /\ head2 = IF a = KsNone THEN p ELSE head

\* Nth its place the list takes it in.
LEMMA ListInsert ==
  ASSUME NEW f, NEW n, NEW S, NEW head, NEW next, IsList(f, n, S, head, next),
         NEW p, NEW j, Place(j, f, n, p), NEW head2, NEW next2,
         Inserts(p, Nth(f, n, j - 1), Nth(f, n, j), S, head, next, head2, next2)
  PROVE  \E f2 : IsList(f2, n + 1, S \cup {p}, head2, next2)
<1>0. /\ p \in KsProcs /\ p \notin S
      /\ next2[p] = Nth(f, n, j)
      /\ Nth(f, n, j - 1) # KsNone => next2[Nth(f, n, j - 1)] = p
      /\ \A q \in S : q # Nth(f, n, j - 1) => next2[q] = next[q]
      /\ head2 = IF Nth(f, n, j - 1) = KsNone THEN p ELSE head
  BY DEF Inserts
<1> DEFINE f2 == [i \in 1 .. n + 1 |-> IF i < j THEN f[i] ELSE IF i = j THEN p ELSE f[i - 1]]
<1>1. /\ n \in Nat /\ f \in [1 .. n -> KsProcs]
      /\ \A i, k \in 1 .. n : f[i] = f[k] => i = k
      /\ \A q : q \in S <=> \E i \in 1 .. n : f[i] = q
      /\ head = Nth(f, n, 1)
      /\ \A i \in 1 .. n : next[f[i]] = Nth(f, n, i + 1)
      /\ \A i, k \in 1 .. n : i < k => KsPri[f[k]] <= KsPri[f[i]]
  BY DEF IsList
<1>2. /\ j \in 1 .. n + 1
      /\ \A i \in 1 .. n : i < j => ~ (KsPri[f[i]] < KsPri[p])
      /\ j \in 1 .. n => KsPri[f[j]] < KsPri[p]
  BY DEF Place, StopsScan
<1>3. /\ \A i \in 1 .. n : i < j => i \in 1 .. n + 1 /\ f2[i] = f[i]
      /\ j \in 1 .. n + 1 /\ f2[j] = p
      /\ \A i \in 1 .. n : ~ (i < j) => i + 1 \in 1 .. n + 1 /\ f2[i + 1] = f[i]
  <2>1. \A i \in 1 .. n : i < j => i \in 1 .. n + 1 /\ f2[i] = f[i]
    BY <1>0, <1>1, <1>2
  <2>2. \A i \in 1 .. n : ~ (i < j) => i + 1 \in 1 .. n + 1 /\ f2[i + 1] = f[i]
    <3> SUFFICES ASSUME NEW i \in 1 .. n, ~ (i < j)
                 PROVE  i + 1 \in 1 .. n + 1 /\ f2[i + 1] = f[i]
      OBVIOUS
    <3>1. i + 1 \in 1 .. n + 1 /\ ~ (i + 1 < j) /\ i + 1 # j /\ i + 1 - 1 = i
      BY <1>0, <1>1, <1>2
    <3> QED BY <3>1
  <2> QED BY <1>0, <1>2, <2>1, <2>2
<1> HIDE DEF f2
\* Where each of the n + 1 comes from.
<1>4. \A k \in 1 .. n + 1 : \/ k \in 1 .. n /\ k < j /\ f2[k] = f[k]
                            \/ k = j /\ f2[k] = p
                            \/ k - 1 \in 1 .. n /\ j < k /\ f2[k] = f[k - 1]
  <2> SUFFICES ASSUME NEW k \in 1 .. n + 1
               PROVE  \/ k \in 1 .. n /\ k < j /\ f2[k] = f[k]
                      \/ k = j /\ f2[k] = p
                      \/ k - 1 \in 1 .. n /\ j < k /\ f2[k] = f[k - 1]
    OBVIOUS
  <2>1. CASE k < j
    BY <1>0, <1>1, <1>2, <1>3, <2>1
  <2>2. CASE k = j
    BY <1>0, <1>3, <2>2
  <2>3. CASE j < k
    <3>1. k - 1 \in 1 .. n /\ ~ (k - 1 < j) /\ k - 1 + 1 = k
      BY <1>0, <1>1, <1>2, <2>3
    <3>2. f2[k - 1 + 1] = f[k - 1]
      BY <1>0, <1>3, <3>1
    <3> QED BY <2>3, <3>1, <3>2
  <2> QED BY <1>0, <1>1, <1>2, <2>1, <2>2, <2>3
<1>5. \A i \in 1 .. n : f[i] \in S /\ f[i] # p /\ f[i] \in KsProcs /\ f[i] # KsNone
  BY <1>0, <1>1, KsNumbers
<1>6. f2 \in [1 .. n + 1 -> KsProcs]
  <2>1. \A k \in 1 .. n + 1 : f2[k] \in KsProcs
    BY <1>0, <1>4, <1>5
  <2>2. f2 = [k \in 1 .. n + 1 |-> f2[k]]
    BY DEF f2
  <2> QED BY <2>1, <2>2
<1>7. \A i, k \in 1 .. n + 1 : f2[i] = f2[k] => i = k
  <2> SUFFICES ASSUME NEW i \in 1 .. n + 1, NEW k \in 1 .. n + 1, f2[i] = f2[k]
               PROVE  i = k
    OBVIOUS
  <2>1. CASE i < j
    <3>1. i \in 1 .. n /\ f2[i] = f[i]
      BY <1>2, <1>4, <2>1
    <3>2. k # j
      BY <1>3, <1>5, <3>1
    <3>3. j < k => k - 1 \in 1 .. n /\ f2[k] = f[k - 1] /\ i # k - 1
      BY <1>2, <1>4, <2>1
    <3>4. ~ (j < k)
      BY <1>1, <3>1, <3>3
    <3>5. k \in 1 .. n /\ f2[k] = f[k]
      BY <1>2, <1>4, <3>2, <3>4
    <3> QED BY <1>1, <3>1, <3>5
  <2>2. CASE i = j
    <3>1. f2[i] = p
      BY <1>3, <2>2
    <3> QED BY <1>4, <1>5, <2>2, <3>1
  <2>3. CASE j < i
    <3>1. i - 1 \in 1 .. n /\ f2[i] = f[i - 1]
      BY <1>2, <1>4, <2>3
    <3>2. k # j
      BY <1>3, <1>5, <3>1
    <3>3. k < j => k \in 1 .. n /\ f2[k] = f[k] /\ k # i - 1
      BY <1>2, <1>4, <2>3
    <3>4. ~ (k < j)
      BY <1>1, <3>1, <3>3
    <3>5. k - 1 \in 1 .. n /\ f2[k] = f[k - 1]
      BY <1>2, <1>4, <3>2, <3>4
    <3>6. i - 1 = k - 1
      BY <1>1, <3>1, <3>5
    <3> QED BY <3>6
  <2> QED BY <1>2, <2>1, <2>2, <2>3
<1>8. \A q : q \in S \cup {p} <=> \E k \in 1 .. n + 1 : f2[k] = q
  <2>1. \A q \in S \cup {p} : \E k \in 1 .. n + 1 : f2[k] = q
    <3> SUFFICES ASSUME NEW q \in S PROVE \E k \in 1 .. n + 1 : f2[k] = q
      BY <1>0, <1>3
    <3>1. PICK i \in 1 .. n : f[i] = q
      BY <1>0, <1>1
    <3> QED BY <1>0, <1>3, <3>1
  <2>2. \A k \in 1 .. n + 1 : f2[k] \in S \cup {p}
    BY <1>0, <1>4, <1>5
  <2> QED BY <2>1, <2>2
<1>9. Nth(f, n, j - 1) = KsNone <=> j = 1
  BY <1>0, <1>1, <1>2, <1>5 DEF Nth
<1>10. head2 = Nth(f2, n + 1, 1)
  <2>1. 1 \in 1 .. n + 1
    BY <1>0, <1>1
  <2>2. CASE j = 1
    BY <1>0, <1>3, <1>9, <2>1, <2>2 DEF Nth
  <2>3. CASE j # 1
    <3>1. 1 \in 1 .. n /\ 1 < j
      BY <1>0, <1>1, <1>2, <2>3
    <3> QED BY <1>0, <1>1, <1>3, <1>9, <2>1, <2>3, <3>1 DEF Nth
  <2> QED BY <2>2, <2>3
<1>11. \A k \in 1 .. n + 1 : next2[f2[k]] = Nth(f2, n + 1, k + 1)
  <2> SUFFICES ASSUME NEW k \in 1 .. n + 1 PROVE next2[f2[k]] = Nth(f2, n + 1, k + 1)
    OBVIOUS
  <2>1. CASE k = j
    <3>1. next2[f2[k]] = Nth(f, n, j)
      BY <1>0, <1>3, <2>1
    <3>2. CASE j \in 1 .. n
      <4>1. ~ (j < j) /\ j + 1 \in 1 .. n + 1
        BY <1>0, <1>1, <1>2, <3>2
      <4>2. f2[j + 1] = f[j]
        BY <1>0, <1>3, <3>2, <4>1
      <4> QED BY <2>1, <3>1, <3>2, <4>1, <4>2 DEF Nth
    <3>3. CASE j \notin 1 .. n
      <4>1. j + 1 \notin 1 .. n + 1
        BY <1>0, <1>1, <1>2, <3>3
      <4> QED BY <2>1, <3>1, <3>3, <4>1 DEF Nth
    <3> QED BY <3>2, <3>3
  <2>2. CASE k < j /\ k + 1 = j
    <3>1. k = j - 1 /\ k \in 1 .. n /\ f2[k] = f[k]
      BY <1>0, <1>1, <1>2, <1>4, <2>2
    <3>2. Nth(f, n, j - 1) = f[k] /\ f[k] # KsNone
      BY <1>0, <1>5, <3>1 DEF Nth
    <3>3. Nth(f2, n + 1, k + 1) = p
      BY <1>0, <1>3, <2>2 DEF Nth
    <3> QED BY <1>0, <3>1, <3>2, <3>3
  <2>3. CASE k < j /\ k + 1 # j
    <3>1. /\ k \in 1 .. n /\ f2[k] = f[k] /\ k + 1 \in 1 .. n /\ k + 1 < j
          /\ k + 1 \in 1 .. n + 1 /\ k # j - 1
      BY <1>0, <1>1, <1>2, <1>4, <2>3
    <3>2. f[k] # Nth(f, n, j - 1)
      BY <1>0, <1>1, <1>5, <3>1 DEF Nth
    <3>3. next2[f[k]] = Nth(f, n, k + 1)
      BY <1>0, <1>1, <1>5, <3>1, <3>2
    <3> QED BY <1>0, <1>3, <3>1, <3>3 DEF Nth
  <2>4. CASE j < k
    <3>1. k - 1 \in 1 .. n /\ f2[k] = f[k - 1] /\ k - 1 # j - 1 /\ k - 1 + 1 = k
          /\ ~ (k < j)
      BY <1>0, <1>1, <1>2, <1>4, <2>4
    <3>2. f[k - 1] # Nth(f, n, j - 1)
      BY <1>0, <1>1, <1>5, <3>1 DEF Nth
    <3>3. next2[f[k - 1]] = Nth(f, n, k)
      BY <1>0, <1>1, <1>5, <3>1, <3>2
    <3>4. CASE k \in 1 .. n
      BY <1>0, <1>3, <3>1, <3>3, <3>4 DEF Nth
    <3>5. CASE k \notin 1 .. n
      <4>1. k + 1 \notin 1 .. n + 1
        BY <1>0, <1>1, <3>5
      <4> QED BY <3>1, <3>3, <3>5, <4>1 DEF Nth
    <3> QED BY <3>4, <3>5
  <2> QED BY <1>0, <1>2, <2>1, <2>2, <2>3, <2>4
<1>12. \A i, k \in 1 .. n + 1 : i < k => KsPri[f2[k]] <= KsPri[f2[i]]
  <2>1. \A i \in 1 .. n : KsPri[f[i]] \in Nat /\ KsPri[p] \in Nat
    BY <1>0, <1>5, KsNumbers
  <2>2. \A i \in 1 .. n : i < j => KsPri[p] <= KsPri[f[i]]
    BY <1>0, <1>2, <2>1
  <2>3. \A i \in 1 .. n : ~ (i < j) => KsPri[f[i]] <= KsPri[p]
    <3> SUFFICES ASSUME NEW i \in 1 .. n, ~ (i < j) PROVE KsPri[f[i]] <= KsPri[p]
      OBVIOUS
    <3>1. j \in 1 .. n /\ (i = j \/ j < i)
      BY <1>0, <1>1, <1>2
    <3>2. KsPri[f[j]] < KsPri[p] /\ (i = j \/ KsPri[f[i]] <= KsPri[f[j]])
      BY <1>0, <1>1, <1>2, <3>1
    <3> QED BY <2>1, <3>1, <3>2
  <2> SUFFICES ASSUME NEW i \in 1 .. n + 1, NEW k \in 1 .. n + 1, i < k
               PROVE  KsPri[f2[k]] <= KsPri[f2[i]]
    OBVIOUS
  <2>4. CASE i = j
    <3>1. k - 1 \in 1 .. n /\ ~ (k - 1 < j) /\ f2[k] = f[k - 1] /\ f2[i] = p
      BY <1>0, <1>2, <1>3, <1>4, <2>4
    <3> QED BY <2>3, <3>1
  <2>5. CASE k = j
    <3>1. i \in 1 .. n /\ i < j /\ f2[i] = f[i] /\ f2[k] = p
      BY <1>0, <1>2, <1>3, <1>4, <2>5
    <3> QED BY <2>2, <3>1
  <2>6. CASE i # j /\ k # j
    <3>1. \/ /\ i \in 1 .. n /\ f2[i] = f[i] /\ k \in 1 .. n /\ f2[k] = f[k]
          \/ /\ i \in 1 .. n /\ f2[i] = f[i] /\ k - 1 \in 1 .. n /\ f2[k] = f[k - 1]
             /\ i < j /\ j < k
          \/ /\ i - 1 \in 1 .. n /\ f2[i] = f[i - 1] /\ k - 1 \in 1 .. n /\ f2[k] = f[k - 1]
      BY <1>0, <1>2, <1>4, <2>6
    <3>2. i < j /\ j < k => i < k - 1
      BY <1>0, <1>2
    <3>3. i - 1 < k - 1
      OBVIOUS
    <3> QED BY <1>0, <1>1, <3>1, <3>2, <3>3
  <2> QED BY <2>4, <2>5, <2>6
<1>13. n + 1 \in Nat
  BY <1>0, <1>1
<1> QED BY <1>6, <1>7, <1>8, <1>10, <1>11, <1>12, <1>13 DEF IsList

\* The head is taken off.
LEMMA ListBehead ==
  ASSUME NEW f, NEW n, NEW S, NEW head, NEW next, IsList(f, n, S, head, next),
         head # KsNone
  PROVE  \E f2 : IsList(f2, n - 1, S \ {head}, next[head], next)
<1> DEFINE f2 == [i \in 1 .. n - 1 |-> f[i + 1]]
<1>1. /\ n \in Nat /\ f \in [1 .. n -> KsProcs]
      /\ \A i, k \in 1 .. n : f[i] = f[k] => i = k
      /\ \A q : q \in S <=> \E i \in 1 .. n : f[i] = q
      /\ head = Nth(f, n, 1)
      /\ \A i \in 1 .. n : next[f[i]] = Nth(f, n, i + 1)
      /\ \A i, k \in 1 .. n : i < k => KsPri[f[k]] <= KsPri[f[i]]
  BY DEF IsList
<1>2. 1 \in 1 .. n /\ head = f[1] /\ n - 1 \in Nat
  BY <1>1 DEF Nth
<1>3. \A i \in 1 .. n - 1 : i + 1 \in 1 .. n /\ f2[i] = f[i + 1] /\ i + 1 # 1
  BY <1>1, <1>2
<1>4. f2 \in [1 .. n - 1 -> KsProcs]
  BY <1>1, <1>3
<1> HIDE DEF f2
<1>5. \A i, k \in 1 .. n - 1 : f2[i] = f2[k] => i = k
  BY <1>1, <1>3
<1>6. \A i \in 1 .. n : i # 1 => i - 1 \in 1 .. n - 1 /\ f2[i - 1] = f[i]
  <2> SUFFICES ASSUME NEW i \in 1 .. n, i # 1
               PROVE  i - 1 \in 1 .. n - 1 /\ f2[i - 1] = f[i]
    OBVIOUS
  <2>1. i - 1 \in 1 .. n - 1 /\ i - 1 + 1 = i
    BY <1>1
  <2>2. f2[i - 1] = f[i - 1 + 1]
    BY <1>3, <2>1
  <2> QED BY <2>1, <2>2
<1>7. \A q : q \in S \ {head} <=> \E i \in 1 .. n - 1 : f2[i] = q
  <2>1. \A q \in S \ {head} : \E i \in 1 .. n - 1 : f2[i] = q
    <3> SUFFICES ASSUME NEW q \in S \ {head} PROVE \E i \in 1 .. n - 1 : f2[i] = q
      OBVIOUS
    <3>1. PICK i \in 1 .. n : f[i] = q
      BY <1>1
    <3>2. i # 1
      BY <1>2, <3>1
    <3> QED BY <1>6, <3>1, <3>2
  <2>2. \A i \in 1 .. n - 1 : f2[i] \in S \ {head}
    BY <1>1, <1>2, <1>3
  <2> QED BY <2>1, <2>2
<1>8. \A i : i + 1 \in 1 .. n => Nth(f, n, i + 1) = f[i + 1]
  BY DEF Nth
<1>9. \A i \in 0 .. n - 1 : Nth(f2, n - 1, i + 1) = Nth(f, n, i + 1 + 1)
  <2> SUFFICES ASSUME NEW i \in 0 .. n - 1
               PROVE  Nth(f2, n - 1, i + 1) = Nth(f, n, i + 1 + 1)
    OBVIOUS
  <2>1. CASE i + 1 \in 1 .. n - 1
    <3>1. f2[i + 1] = f[i + 1 + 1] /\ i + 1 + 1 \in 1 .. n
      BY <1>3, <2>1
    <3> QED BY <2>1, <3>1 DEF Nth
  <2>2. CASE i + 1 \notin 1 .. n - 1
    <3>1. i + 1 + 1 \notin 1 .. n
      BY <1>1, <2>2
    <3> QED BY <2>2, <3>1 DEF Nth
  <2> QED BY <2>1, <2>2
<1>10. next[head] = Nth(f2, n - 1, 1)
  <2>1. 0 \in 0 .. n - 1 /\ 0 + 1 = 1 /\ 0 + 1 + 1 = 1 + 1
    BY <1>1, <1>2
  <2>2. next[head] = Nth(f, n, 1 + 1)
    BY <1>1, <1>2
  <2>3. Nth(f2, n - 1, 0 + 1) = Nth(f, n, 0 + 1 + 1)
    BY <1>9, <2>1
  <2> QED BY <2>1, <2>2, <2>3
<1>11. \A i \in 1 .. n - 1 : next[f2[i]] = Nth(f2, n - 1, i + 1)
  <2> SUFFICES ASSUME NEW i \in 1 .. n - 1 PROVE next[f2[i]] = Nth(f2, n - 1, i + 1)
    OBVIOUS
  <2>1. next[f[i + 1]] = Nth(f, n, i + 1 + 1)
    BY <1>1, <1>3
  <2>2. i \in 0 .. n - 1
    BY <1>1
  <2> QED BY <1>3, <1>9, <2>1, <2>2
<1>12. \A i, k \in 1 .. n - 1 : i < k => KsPri[f2[k]] <= KsPri[f2[i]]
  BY <1>1, <1>3
<1> QED BY <1>2, <1>4, <1>5, <1>7, <1>10, <1>11, <1>12 DEF IsList

\* Who is at the head; and an empty list has none.
LEMMA ListHead ==
  ASSUME NEW f, NEW n, NEW S, NEW head, NEW next, IsList(f, n, S, head, next)
  PROVE  /\ S \subseteq KsProcs
         /\ head = KsNone => S = {}
         /\ head # KsNone => /\ head \in S
                             /\ \A q \in S : KsPri[q] <= KsPri[head]
<1>1. /\ n \in Nat /\ f \in [1 .. n -> KsProcs]
      /\ \A q : q \in S <=> \E i \in 1 .. n : f[i] = q
      /\ head = Nth(f, n, 1)
      /\ \A i, k \in 1 .. n : i < k => KsPri[f[k]] <= KsPri[f[i]]
  BY DEF IsList
<1>2. S \subseteq KsProcs
  BY <1>1
<1>3. \A i \in 1 .. n : 1 \in 1 .. n /\ (i = 1 \/ 1 < i) /\ f[i] \in KsProcs
  BY <1>1
<1>4. ASSUME head = KsNone PROVE S = {}
  BY <1>1, <1>3, <1>4, KsNumbers DEF Nth
<1>5. ASSUME head # KsNone PROVE head \in S /\ \A q \in S : KsPri[q] <= KsPri[head]
  <2>1. 1 \in 1 .. n /\ head = f[1]
    BY <1>1, <1>5 DEF Nth
  <2>2. ASSUME NEW q \in S PROVE KsPri[q] <= KsPri[head]
    <3>1. PICK i \in 1 .. n : f[i] = q
      BY <1>1
    <3>2. i = 1 \/ KsPri[f[i]] <= KsPri[f[1]]
      BY <1>1, <1>3, <2>1
    <3>3. KsPri[q] \in Nat
      BY <1>2, KsNumbers
    <3> QED BY <2>1, <3>1, <3>2, <3>3
  <2> QED BY <1>1, <2>1, <2>2
<1> QED BY <1>2, <1>4, <1>5

LEMMA ListNone ==
  ASSUME NEW next
  PROVE  \E f, n : IsList(f, n, {}, KsNone, next)
<1> DEFINE f == [i \in 1 .. 0 |-> i]
<1>1. f \in [1 .. 0 -> KsProcs] /\ 1 .. 0 = {}
  OBVIOUS
<1> HIDE DEF f
<1>2. IsList(f, 0, {}, KsNone, next)
  BY <1>1 DEF IsList, Nth
<1> QED BY <1>2

----------------------------------------------------------------------------
(* Sleep locks and synchronisation variables: the invariant.               *)

KsTypes ==
  /\ sl_locked \in BOOLEAN
  /\ pl_head \in [Lists -> KsProcs \cup {KsNone}]
  /\ pn_next \in [KsProcs -> KsProcs \cup {KsNone}]
  /\ pn_plistp \in [KsProcs -> Lists \cup {KsNone}]
  /\ ksPc \in [KsProcs -> {"idle", "hard", "asleep", "ready", "has"}]
  /\ ksPending \subseteq KsProcs
  /\ ksOwner \in KsProcs \cup {KsIntr, KsNone}
  /\ ksItems \in Nat

\* Each list is sound and holds the processes that say they are on it.
KsListed ==
  \A l \in Lists : \E f, n : IsList(f, n, Sleepers(l), pl_head[l], pn_next)

\* Where a process may be: on a list, and the owner of the lock.
KsPlaced ==
  \A p \in KsProcs :
    /\ ksPc[p] \in {"idle", "hard", "has"} => pn_plistp[p] = KsNone
    /\ ksPc[p] = "asleep" => pn_plistp[p] # KsNone
    /\ ksPc[p] = "ready" /\ pn_plistp[p] # KsNone => p \in KsCatch
    /\ ksPc[p] = "has" => ksOwner = p
    /\ ksOwner = p => ksPc[p] = "has" \/ (ksPc[p] = "ready" /\ pn_plistp[p] = KsNone)

KsHeld ==
  /\ sl_locked <=> ksOwner # KsNone
  /\ ksOwner # KsIntr => sl_holder = ksOwner

\* The processes on their way to look at the items.
Woken ==
  {p \in KsProcs : ksPc[p] = "ready" /\ pn_plistp[p] = KsNone /\ ksOwner # p}

KsTold ==
  ksItems > 0 /\ (\E p \in Sleepers("sv_plist") : ksPc[p] = "asleep")
    => Cardinality(Woken) >= ksItems

KsInv == KsTypes /\ KsListed /\ KsPlaced /\ KsHeld /\ KsTold

LEMMA ListNames ==
  /\ "sl_plist" \in Lists /\ "sv_plist" \in Lists /\ "sl_plist" # "sv_plist"
  /\ KsNone \notin Lists /\ KsNone \notin KsProcs /\ KsIntr \notin KsProcs /\ KsIntr # KsNone
BY KsAssumption DEF Lists

\* MAKE_SLEEPING links a process that is on no list.
LEMMA SleepKeeps ==
  ASSUME KsTypes, KsListed, NEW p \in KsProcs, NEW l \in Lists,
         pn_plistp[p] = KsNone, MAKE_SLEEPING(p, l)
  PROVE  /\ KsListed' /\ pl_head' \in [Lists -> KsProcs \cup {KsNone}]
         /\ pn_next' \in [KsProcs -> KsProcs \cup {KsNone}]
         /\ Sleepers(l)' = Sleepers(l) \cup {p}
         /\ \A m \in Lists \ {l} : Sleepers(m)' = Sleepers(m)
<1>0. KsNone \notin Lists /\ KsNone \notin KsProcs
  BY ListNames
<1>1. /\ pn_next' = Linked(l, p)
      /\ pl_head' = [pl_head EXCEPT ![l] = IF pprev(l, p) = KsNone THEN p ELSE @]
      /\ pn_plistp' = [pn_plistp EXCEPT ![p] = l]
  BY DEF MAKE_SLEEPING
<1>2. /\ Sleepers(l)' = Sleepers(l) \cup {p}
      /\ \A m \in Lists \ {l} : Sleepers(m)' = Sleepers(m)
      /\ \A m \in Lists : p \notin Sleepers(m)
      /\ \A m \in Lists \ {l} : Sleepers(m) \cap Sleepers(l) = {}
  BY <1>0, <1>1 DEF Sleepers, KsTypes
<1>3. PICK f, n : IsList(f, n, Sleepers(l), pl_head[l], pn_next)
  BY DEF KsListed
<1>4. PICK j : /\ Place(j, f, n, p)
               /\ pscan(l, p) = Nth(f, n, j) /\ pprev(l, p) = Nth(f, n, j - 1)
  <2>1. PICK S : S = Sleepers(l)
    OBVIOUS
  <2>2. IsList(f, n, S, pl_head[l], pn_next)
    BY <1>3, <2>1
  <2>3. \E j : Scanned(j, f, n, l, p)
    BY <2>2, ScanIs
  <2> QED BY <2>3 DEF Scanned
<1>5. PICK a, b : a = pscan(l, p) /\ b = pprev(l, p)
  OBVIOUS
<1>6. /\ a \in KsProcs \cup {KsNone}
      /\ b = KsNone \/ b \in Sleepers(l)
      /\ Sleepers(l) \subseteq KsProcs
  BY <1>3, <1>4, <1>5 DEF Nth, IsList, Sleepers
<1>7. b # p
  BY <1>0, <1>2, <1>6
<1>8. /\ pn_next' \in [KsProcs -> KsProcs \cup {KsNone}]
      /\ pn_next'[p] = a /\ (b # KsNone => pn_next'[b] = p)
      /\ \A q \in KsProcs : q # p /\ q # b => pn_next'[q] = pn_next[q]
  <2>1. PICK next1 : next1 = [pn_next EXCEPT ![p] = a]
    OBVIOUS
  <2>2. pn_next' = [next1 EXCEPT ![IF b = KsNone THEN p ELSE b] = IF b = KsNone THEN a ELSE p]
    BY <1>1, <1>5, <2>1 DEF Linked
  <2>3. pn_next \in [KsProcs -> KsProcs \cup {KsNone}]
    BY DEF KsTypes
  <2>4. /\ next1 \in [KsProcs -> KsProcs \cup {KsNone}] /\ next1[p] = a
        /\ \A q \in KsProcs : q # p => next1[q] = pn_next[q]
    BY <1>6, <2>1, <2>3
  <2>5. CASE b = KsNone
    <3>1. pn_next' = [next1 EXCEPT ![p] = a]
      BY <2>2, <2>5
    <3> QED BY <1>6, <2>4, <2>5, <3>1
  <2>6. CASE b # KsNone
    <3>1. pn_next' = [next1 EXCEPT ![b] = p] /\ b \in KsProcs
      BY <1>6, <2>2, <2>6
    <3> QED BY <1>7, <2>4, <3>1
  <2> QED BY <2>5, <2>6
<1>9. /\ pl_head' \in [Lists -> KsProcs \cup {KsNone}]
      /\ pl_head'[l] = IF b = KsNone THEN p ELSE pl_head[l]
      /\ \A m \in Lists \ {l} : pl_head'[m] = pl_head[m]
  BY <1>1, <1>5 DEF KsTypes
<1>10. \E f2, n2 : IsList(f2, n2, Sleepers(l)', pl_head'[l], pn_next')
  <2>1. PICK next2, head2 : next2 = pn_next' /\ head2 = pl_head'[l]
    OBVIOUS
  <2>2. PICK S : S = Sleepers(l)
    OBVIOUS
  <2>3. Inserts(p, Nth(f, n, j - 1), Nth(f, n, j), S, pl_head[l], pn_next, head2, next2)
    BY <1>2, <1>4, <1>5, <1>6, <1>8, <1>9, <2>1, <2>2 DEF Inserts
  <2>4. IsList(f, n, S, pl_head[l], pn_next)
    BY <1>3, <2>2
  <2>5. \E f2 : IsList(f2, n + 1, S \cup {p}, head2, next2)
    BY <1>4, <2>3, <2>4, ListInsert
  <2> QED BY <1>2, <2>1, <2>2, <2>5
<1>11. ASSUME NEW m \in Lists \ {l}
       PROVE  \E f2, n2 : IsList(f2, n2, Sleepers(m)', pl_head'[m], pn_next')
  <2>1. PICK f2, n2 : IsList(f2, n2, Sleepers(m), pl_head[m], pn_next)
    BY DEF KsListed
  <2>2. PICK next2 : next2 = pn_next'
    OBVIOUS
  <2>3. \A q \in Sleepers(m) : next2[q] = pn_next[q]
    <3>1. \A q \in Sleepers(m) : q \in KsProcs /\ q # p /\ q # b
      BY <1>0, <1>2, <1>6 DEF Sleepers
    <3> QED BY <1>8, <2>2, <3>1
  <2>4. IsList(f2, n2, Sleepers(m), pl_head[m], next2)
    BY <2>1, <2>3, ListFrame
  <2> QED BY <1>2, <1>9, <2>2, <2>4
<1>12. KsListed'
  BY <1>10, <1>11 DEF KsListed
<1> QED BY <1>2, <1>8, <1>9, <1>12

\* WAKE_ONE takes the head off.
LEMMA WakeOneKeeps ==
  ASSUME KsTypes, KsListed, NEW l \in Lists, WAKE_ONE(l)
  PROVE  /\ KsListed' /\ pl_head' \in [Lists -> KsProcs \cup {KsNone}]
         /\ pn_plistp' \in [KsProcs -> Lists \cup {KsNone}]
         /\ Sleepers(l)' = Sleepers(l) \ {pl_head[l]}
         /\ \A m \in Lists \ {l} : Sleepers(m)' = Sleepers(m)
         /\ pl_head[l] = KsNone => Sleepers(l) = {}
         /\ pl_head[l] # KsNone => /\ pl_head[l] \in Sleepers(l)
                                   /\ \A q \in Sleepers(l) : KsPri[q] <= KsPri[pl_head[l]]
<1>0. KsNone \notin Lists /\ KsNone \notin KsProcs
  BY ListNames
<1>1. PICK h : h = pl_head[l]
  OBVIOUS
<1>2. /\ pl_head' = IF h = KsNone THEN pl_head ELSE [pl_head EXCEPT ![l] = pn_next[h]]
      /\ pn_plistp' = [p \in KsProcs |-> IF p = h THEN KsNone ELSE pn_plistp[p]]
      /\ pn_next' = pn_next
  BY <1>1 DEF WAKE_ONE
<1>3. PICK f, n : IsList(f, n, Sleepers(l), h, pn_next)
  BY <1>1 DEF KsListed
<1>4. /\ h = KsNone => Sleepers(l) = {}
      /\ h # KsNone => h \in Sleepers(l) /\ \A q \in Sleepers(l) : KsPri[q] <= KsPri[h]
  BY <1>3, ListHead
<1>5. \A p \in KsProcs : pn_plistp'[p] = IF p = h THEN KsNone ELSE pn_plistp[p]
  BY <1>2
<1>6. /\ Sleepers(l)' = Sleepers(l) \ {h}
      /\ \A m \in Lists \ {l} : Sleepers(m)' = Sleepers(m)
  BY <1>0, <1>4, <1>5 DEF Sleepers
<1>7. /\ pl_head' \in [Lists -> KsProcs \cup {KsNone}]
      /\ h # KsNone => pl_head'[l] = pn_next[h]
      /\ h = KsNone => pl_head'[l] = h
      /\ \A m \in Lists \ {l} : pl_head'[m] = pl_head[m]
  BY <1>1, <1>2 DEF KsTypes
<1>8. pn_plistp' \in [KsProcs -> Lists \cup {KsNone}]
  BY <1>2 DEF KsTypes
<1>9. \E f2, n2 : IsList(f2, n2, Sleepers(l)', pl_head'[l], pn_next')
  <2>1. CASE h = KsNone
    <3>1. Sleepers(l)' = Sleepers(l)
      BY <1>4, <1>6, <2>1
    <3> QED BY <1>2, <1>3, <1>7, <2>1, <3>1
  <2>2. CASE h # KsNone
    <3>1. PICK S : S = Sleepers(l)
      OBVIOUS
    <3>2. \E f2 : IsList(f2, n - 1, S \ {h}, pn_next[h], pn_next)
      BY <1>3, <2>2, <3>1, ListBehead
    <3> QED BY <1>2, <1>6, <1>7, <2>2, <3>1, <3>2
  <2> QED BY <2>1, <2>2
<1>10. \A m \in Lists \ {l} : \E f2, n2 : IsList(f2, n2, Sleepers(m)', pl_head'[m], pn_next')
  BY <1>2, <1>6, <1>7 DEF KsListed
<1>11. KsListed'
  BY <1>9, <1>10 DEF KsListed
<1> QED BY <1>1, <1>4, <1>6, <1>7, <1>8, <1>11

\* WAKE_ALL empties the list.
LEMMA WakeAllKeeps ==
  ASSUME KsTypes, KsListed, NEW l \in Lists, WAKE_ALL(l)
  PROVE  /\ KsListed' /\ pl_head' \in [Lists -> KsProcs \cup {KsNone}]
         /\ pn_plistp' \in [KsProcs -> Lists \cup {KsNone}]
         /\ OnList(l) = Sleepers(l) /\ Sleepers(l)' = {}
         /\ \A m \in Lists \ {l} : Sleepers(m)' = Sleepers(m)
<1>0. KsNone \notin Lists /\ KsNone \notin KsProcs
  BY ListNames
<1>1. PICK f, n : IsList(f, n, Sleepers(l), pl_head[l], pn_next)
  BY DEF KsListed
<1>2. OnList(l) = Sleepers(l)
  BY <1>1, OnListIs
<1>3. /\ pl_head' = [pl_head EXCEPT ![l] = KsNone]
      /\ pn_plistp' = [p \in KsProcs |-> IF p \in Sleepers(l) THEN KsNone ELSE pn_plistp[p]]
      /\ pn_next' = pn_next
  BY <1>2 DEF WAKE_ALL
<1>4. \A p \in KsProcs : pn_plistp'[p] = IF p \in Sleepers(l) THEN KsNone ELSE pn_plistp[p]
  BY <1>3
<1>5. Sleepers(l)' = {} /\ \A m \in Lists \ {l} : Sleepers(m)' = Sleepers(m)
  BY <1>0, <1>4 DEF Sleepers
<1>6. /\ pl_head' \in [Lists -> KsProcs \cup {KsNone}]
      /\ pl_head'[l] = KsNone
      /\ \A m \in Lists \ {l} : pl_head'[m] = pl_head[m]
      /\ pn_plistp' \in [KsProcs -> Lists \cup {KsNone}]
  BY <1>3 DEF KsTypes
<1>7. \E f2, n2 : IsList(f2, n2, Sleepers(l)', pl_head'[l], pn_next')
  BY <1>3, <1>5, <1>6, ListNone
<1>8. \A m \in Lists \ {l} : \E f2, n2 : IsList(f2, n2, Sleepers(m)', pl_head'[m], pn_next')
  BY <1>3, <1>5, <1>6 DEF KsListed
<1>9. KsListed'
  BY <1>7, <1>8 DEF KsListed
<1> QED BY <1>2, <1>5, <1>6, <1>9

\* KERNEL_SLEEP that returns at once leaves the lists as they were.
LEMMA SignalledSleepKeeps ==
  ASSUME KsTypes, KsListed, NEW p \in KsProcs, NEW l \in Lists,
         pn_plistp[p] = KsNone, MAKE_SLEEPING_signalled(p, l), pprev(l, p) = KsNone
  PROVE  /\ KsListed' /\ pl_head' \in [Lists -> KsProcs \cup {KsNone}]
         /\ pn_next' \in [KsProcs -> KsProcs \cup {KsNone}]
         /\ \A m \in Lists : Sleepers(m)' = Sleepers(m)
<1>0. KsNone \notin Lists /\ KsNone \notin KsProcs
  BY ListNames
<1>1. /\ pn_next' = Linked(l, p) /\ p \in KsCatch
      /\ pl_head' = [pl_head EXCEPT ![l] = pscan(l, p)]
      /\ pn_plistp' = pn_plistp
  BY DEF MAKE_SLEEPING_signalled
<1>2. \A m \in Lists : p \notin Sleepers(m) /\ Sleepers(m) \subseteq KsProcs
  BY <1>0 DEF Sleepers
<1>3. PICK f, n : IsList(f, n, Sleepers(l), pl_head[l], pn_next)
  BY DEF KsListed
<1>4. PICK j : Scanned(j, f, n, l, p)
  <2>1. PICK S : S = Sleepers(l)
    OBVIOUS
  <2>2. IsList(f, n, S, pl_head[l], pn_next)
    BY <1>3, <2>1
  <2> QED BY <2>2, ScanIs
<1>5. /\ n \in Nat /\ \A i \in 1 .. n : f[i] \in Sleepers(l)
      /\ pl_head[l] = Nth(f, n, 1)
  BY <1>3 DEF IsList
<1>6. j \in 1 .. n + 1 /\ Nth(f, n, j - 1) = KsNone
  BY <1>4 DEF Scanned, Place
<1>7. \A i \in 1 .. n : f[i] # KsNone
  BY <1>0, <1>2, <1>5
<1>8. j = 1
  <2> SUFFICES ASSUME j # 1 PROVE FALSE
    OBVIOUS
  <2>1. j - 1 \in 1 .. n
    BY <1>5, <1>6
  <2> QED BY <1>6, <1>7, <2>1 DEF Nth
<1>9. pscan(l, p) = pl_head[l] /\ pprev(l, p) = KsNone
  <2>1. 1 - 1 \notin 1 .. n
    BY <1>5
  <2> QED BY <1>4, <1>5, <1>8, <2>1 DEF Scanned, Nth
<1>10. PICK a : a = pl_head[l] /\ a \in KsProcs \cup {KsNone}
  BY DEF KsTypes
<1>11. pn_next' \in [KsProcs -> KsProcs \cup {KsNone}]
       /\ \A q \in KsProcs : q # p => pn_next'[q] = pn_next[q]
  <2>1. PICK next1 : next1 = [pn_next EXCEPT ![p] = a]
    OBVIOUS
  <2>2. pn_next' = [next1 EXCEPT ![p] = a]
    BY <1>1, <1>9, <1>10, <2>1 DEF Linked
  <2>3. pn_next \in [KsProcs -> KsProcs \cup {KsNone}]
    BY DEF KsTypes
  <2>4. /\ next1 \in [KsProcs -> KsProcs \cup {KsNone}]
        /\ \A q \in KsProcs : q # p => next1[q] = pn_next[q]
    BY <1>10, <2>1, <2>3
  <2> QED BY <1>10, <2>2, <2>4
<1>12. pl_head' = pl_head
  BY <1>1, <1>9 DEF KsTypes
<1>13. \A m \in Lists : Sleepers(m)' = Sleepers(m)
  BY <1>1 DEF Sleepers
<1>14. ASSUME NEW m \in Lists
       PROVE  \E f2, n2 : IsList(f2, n2, Sleepers(m)', pl_head'[m], pn_next')
  <2>1. PICK f2, n2 : IsList(f2, n2, Sleepers(m), pl_head[m], pn_next)
    BY DEF KsListed
  <2>2. PICK next2 : next2 = pn_next'
    OBVIOUS
  <2>3. \A q \in Sleepers(m) : next2[q] = pn_next[q]
    <3>1. \A q \in Sleepers(m) : q \in KsProcs /\ q # p
      BY <1>2
    <3> QED BY <1>11, <2>2, <3>1
  <2>4. IsList(f2, n2, Sleepers(m), pl_head[m], next2)
    BY <2>1, <2>3, ListFrame
  <2> QED BY <1>12, <1>13, <2>2, <2>4
<1>15. KsListed'
  BY <1>14 DEF KsListed
<1>16. pl_head' \in [Lists -> KsProcs \cup {KsNone}]
  BY <1>12 DEF KsTypes
<1> QED BY <1>11, <1>13, <1>15, <1>16

\* KERNEL_SLEEP takes the head off, which is the process that was interrupted.
LEMMA SignalledWakeKeeps ==
  ASSUME KsTypes, KsListed, NEW p \in KsCatch,
         pn_plistp[p] # KsNone, SignalledWake(p), pl_head[pn_plistp[p]] = p
  PROVE  /\ KsListed' /\ pl_head' \in [Lists -> KsProcs \cup {KsNone}]
         /\ \A m \in Lists : Sleepers(m)' = Sleepers(m) \ {p}
<1>0. KsNone \notin Lists /\ KsNone \notin KsProcs /\ p \in KsProcs
  BY ListNames, KsAssumption
<1>1. PICK l \in Lists : l = pn_plistp[p]
  BY <1>0 DEF KsTypes
<1>2. /\ pl_head' = [pl_head EXCEPT ![l] = pn_next[p]]
      /\ pn_plistp' = [pn_plistp EXCEPT ![p] = KsNone]
      /\ pn_next' = pn_next
  BY <1>1 DEF SignalledWake
<1>3. PICK f, n : IsList(f, n, Sleepers(l), pl_head[l], pn_next)
  BY DEF KsListed
<1>4. PICK h, S : h = pl_head[l] /\ S = Sleepers(l)
  OBVIOUS
<1>5. p \in S /\ S \subseteq KsProcs
  BY <1>0, <1>1, <1>4 DEF Sleepers
<1>6. IsList(f, n, S, h, pn_next)
  BY <1>3, <1>4
<1>7. h # KsNone /\ h \in S
  BY <1>5, <1>6, ListHead
<1>8. h = p
  BY <1>1, <1>4
<1>9. \A m \in Lists : Sleepers(m)' = Sleepers(m) \ {p}
  BY <1>0, <1>1, <1>2 DEF Sleepers, KsTypes
<1>10. \E f2, n2 : IsList(f2, n2, S \ {p}, pn_next[p], pn_next)
  BY <1>6, <1>7, <1>8, ListBehead
<1>11. /\ pl_head' \in [Lists -> KsProcs \cup {KsNone}]
       /\ pl_head'[l] = pn_next[p]
       /\ \A m \in Lists \ {l} : pl_head'[m] = pl_head[m]
  <2>1. pn_next[p] \in KsProcs \cup {KsNone}
    BY <1>0 DEF KsTypes
  <2> QED BY <1>2, <2>1 DEF KsTypes
<1>12. \E f2, n2 : IsList(f2, n2, Sleepers(l)', pl_head'[l], pn_next')
  BY <1>2, <1>4, <1>9, <1>10, <1>11
<1>13. ASSUME NEW m \in Lists \ {l}
       PROVE  \E f2, n2 : IsList(f2, n2, Sleepers(m)', pl_head'[m], pn_next')
  <2>1. p \notin Sleepers(m)
    BY <1>1 DEF Sleepers
  <2>2. Sleepers(m)' = Sleepers(m)
    BY <1>9, <2>1
  <2> QED BY <1>2, <1>11, <2>2 DEF KsListed
<1>14. KsListed'
  BY <1>12, <1>13 DEF KsListed
<1> QED BY <1>9, <1>11, <1>14

\* Who goes from sleep to an item, and back: the count of the woken.
LEMMA WokenCount ==
  /\ IsFiniteSet(Woken) /\ Woken \subseteq KsProcs /\ Cardinality(Woken) \in Nat
  /\ \A W \in SUBSET KsProcs :
       /\ IsFiniteSet(W) /\ Cardinality(W) \in Nat
       /\ Woken \subseteq W => Cardinality(Woken) <= Cardinality(W)
       /\ \A h : h \notin Woken /\ Woken \cup {h} \subseteq W
                   => Cardinality(Woken) + 1 <= Cardinality(W)
       /\ \A h : Woken \ {h} \subseteq W => Cardinality(Woken) - 1 <= Cardinality(W)
<1>1. Woken \subseteq KsProcs /\ IsFiniteSet(KsProcs)
  BY KsAssumption DEF Woken
<1>2. IsFiniteSet(Woken) /\ Cardinality(Woken) \in Nat
  BY <1>1, FS_Subset, FS_CardinalityType
<1>3. ASSUME NEW W \in SUBSET KsProcs
      PROVE  /\ IsFiniteSet(W) /\ Cardinality(W) \in Nat
             /\ Woken \subseteq W => Cardinality(Woken) <= Cardinality(W)
             /\ \A h : h \notin Woken /\ Woken \cup {h} \subseteq W
                         => Cardinality(Woken) + 1 <= Cardinality(W)
             /\ \A h : Woken \ {h} \subseteq W => Cardinality(Woken) - 1 <= Cardinality(W)
  <2>1. IsFiniteSet(W) /\ Cardinality(W) \in Nat
    BY <1>1, FS_Subset, FS_CardinalityType
  <2>2. Woken \subseteq W => Cardinality(Woken) <= Cardinality(W)
    BY <2>1, FS_Subset
  <2>3. ASSUME NEW h, h \notin Woken, Woken \cup {h} \subseteq W
        PROVE  Cardinality(Woken) + 1 <= Cardinality(W)
    <3>1. Cardinality(Woken \cup {h}) = Cardinality(Woken) + 1
      BY <1>2, <2>3, FS_AddElement
    <3>2. Cardinality(Woken \cup {h}) <= Cardinality(W)
      BY <2>1, <2>3, FS_Subset
    <3> QED BY <3>1, <3>2
  <2>4. ASSUME NEW h, Woken \ {h} \subseteq W
        PROVE  Cardinality(Woken) - 1 <= Cardinality(W)
    <3>1. Cardinality(Woken \ {h}) = IF h \in Woken THEN Cardinality(Woken) - 1
                                     ELSE Cardinality(Woken)
      BY <1>2, FS_RemoveElement
    <3>2. Cardinality(Woken \ {h}) <= Cardinality(W)
      BY <2>1, <2>4, FS_Subset
    <3> QED BY <1>2, <2>1, <3>1, <3>2
  <2> QED BY <2>1, <2>2, <2>3, <2>4
<1> QED BY <1>1, <1>2, <1>3

\* What no step of the owner or of the signals does to the lists.
LEMMA ListsStay ==
  ASSUME KsListed, UNCHANGED listVars
  PROVE  KsListed' /\ \A l \in Lists : Sleepers(l)' = Sleepers(l)
BY DEF KsListed, Sleepers, listVars

\* Whoever takes a free lock.
LEMMA GrantStep ==
  ASSUME KsInv, NEW h \in KsProcs \cup {KsIntr}, Grant(h), ksOwner = KsNone,
         h \in KsProcs => ksPc[h] \in {"idle", "hard"},
         ksPc' = [p \in KsProcs |-> IF p = h THEN "has" ELSE ksPc[p]],
         UNCHANGED <<listVars, ksPending, ksItems>>
  PROVE  KsInv'
<1>0. KsTypes /\ KsListed /\ KsPlaced /\ KsHeld /\ KsTold
  BY DEF KsInv
<1>1. /\ sl_locked' = TRUE /\ (h # KsIntr => sl_holder' = h) /\ ksOwner' = h
      /\ pl_head' = pl_head /\ pn_next' = pn_next /\ pn_plistp' = pn_plistp
      /\ ksPending' = ksPending /\ ksItems' = ksItems
  BY DEF Grant, PROC_HANDLE, listVars
<1>2. h # KsNone
  BY ListNames
<1>3. \A p \in KsProcs : ksPc'[p] = IF p = h THEN "has" ELSE ksPc[p]
  OBVIOUS
<1>4. KsTypes'
  BY <1>0, <1>1 DEF KsTypes
<1>5. KsListed' /\ \A l \in Lists : Sleepers(l)' = Sleepers(l)
  BY <1>0, ListsStay
<1>6. KsPlaced'
  BY <1>0, <1>1, <1>3, ListNames DEF KsPlaced
<1>7. KsHeld'
  BY <1>1, <1>2 DEF KsHeld
<1>8. KsTold'
  <2>1. Woken' = Woken
    BY <1>0, <1>1, <1>3, ListNames DEF Woken, KsPlaced
  <2>2. Sleepers("sv_plist")' = Sleepers("sv_plist")
    BY <1>5, ListNames
  <2>3. \A p \in Sleepers("sv_plist") : ksPc'[p] = "asleep" => ksPc[p] = "asleep"
    BY <1>3 DEF Sleepers
  <2> QED BY <1>0, <1>1, <2>1, <2>2, <2>3 DEF KsTold
<1> QED BY <1>4, <1>5, <1>6, <1>7, <1>8 DEF KsInv

\* A process goes to sleep on l, or finds a signal.
LEMMA SleepStep ==
  ASSUME DequeuesHead, KsInv, NEW p \in KsProcs, NEW l \in Lists,
         pn_plistp[p] = KsNone, ksOwner # p,
         MAKE_SLEEPING(p, l) \/ MAKE_SLEEPING_signalled(p, l),
         l = "sv_plist" => ksItems = 0, l # "sv_plist" => ksPc[p] = "hard",
         UNCHANGED <<lockVars, ksItems>>
  PROVE  KsInv'
<1>0. KsTypes /\ KsListed /\ KsPlaced /\ KsHeld /\ KsTold
  BY DEF KsInv
<1>1. sl_locked' = sl_locked /\ sl_holder' = sl_holder /\ ksOwner' = ksOwner /\ ksItems' = ksItems
  BY DEF lockVars
<1>2. KsHeld'
  BY <1>0, <1>1 DEF KsHeld
<1>3. CASE MAKE_SLEEPING(p, l)
  <2>1. /\ KsListed' /\ pl_head' \in [Lists -> KsProcs \cup {KsNone}]
        /\ pn_next' \in [KsProcs -> KsProcs \cup {KsNone}]
        /\ Sleepers(l)' = Sleepers(l) \cup {p}
        /\ \A m \in Lists \ {l} : Sleepers(m)' = Sleepers(m)
    BY <1>0, <1>3, SleepKeeps
  <2>2. /\ pn_plistp' = [pn_plistp EXCEPT ![p] = l]
        /\ ksPc' = [ksPc EXCEPT ![p] = "asleep"]
        /\ ksPending' = ksPending
    BY <1>3 DEF MAKE_SLEEPING
  <2>3. KsTypes'
    BY <1>0, <1>1, <2>1, <2>2 DEF KsTypes
  <2>4. /\ ksPc'[p] = "asleep" /\ pn_plistp'[p] = l
        /\ \A q \in KsProcs \ {p} : ksPc'[q] = ksPc[q] /\ pn_plistp'[q] = pn_plistp[q]
    BY <1>0, <2>2 DEF KsTypes
  <2>5. KsPlaced'
    BY <1>0, <1>1, <2>4, ListNames DEF KsPlaced
  <2>6. KsTold'
    <3>1. CASE l = "sv_plist"
      <4>1. ksItems' = 0
        BY <1>1, <3>1
      <4> QED BY <4>1 DEF KsTold
    <3>2. CASE l # "sv_plist"
      <4>1. Sleepers("sv_plist")' = Sleepers("sv_plist")
        BY <2>1, <3>2, ListNames
      <4>2. ksPc[p] # "ready" => Woken' = Woken
        BY <1>1, <2>4, ListNames DEF Woken
      <4>3. \A q \in Sleepers("sv_plist") : q # p
        BY ListNames DEF Sleepers
      <4>4. (\E q \in Sleepers("sv_plist") : ksPc'[q] = "asleep")
               => (\E q \in Sleepers("sv_plist") : ksPc[q] = "asleep")
        BY <2>4, <4>3 DEF Sleepers
      <4> QED BY <1>0, <1>1, <3>2, <4>1, <4>2, <4>4 DEF KsTold
    <3> QED BY <3>1, <3>2
  <2> QED BY <1>2, <2>1, <2>3, <2>5, <2>6 DEF KsInv
<1>4. CASE MAKE_SLEEPING_signalled(p, l)
  <2>1. /\ KsListed' /\ pl_head' \in [Lists -> KsProcs \cup {KsNone}]
        /\ pn_next' \in [KsProcs -> KsProcs \cup {KsNone}]
        /\ \A m \in Lists : Sleepers(m)' = Sleepers(m)
    <3>1. pprev(l, p) = KsNone
      BY <1>4 DEF DequeuesHead
    <3> QED BY <1>0, <1>4, <3>1, SignalledSleepKeeps
  <2>2. /\ pn_plistp' = pn_plistp
        /\ ksPc' = [ksPc EXCEPT ![p] = "idle"]
        /\ ksPending' = ksPending \ {p}
    BY <1>4 DEF MAKE_SLEEPING_signalled
  <2>3. KsTypes'
    BY <1>0, <1>1, <2>1, <2>2 DEF KsTypes
  <2>4. ksPc'[p] = "idle" /\ \A q \in KsProcs \ {p} : ksPc'[q] = ksPc[q]
    BY <1>0, <2>2 DEF KsTypes
  <2>5. KsPlaced'
    BY <1>0, <1>1, <2>2, <2>4 DEF KsPlaced
  <2>6. KsTold'
    <3>1. CASE l = "sv_plist"
      <4>1. ksItems' = 0
        BY <1>1, <3>1
      <4> QED BY <4>1 DEF KsTold
    <3>2. CASE l # "sv_plist"
      <4>1. Sleepers("sv_plist")' = Sleepers("sv_plist")
        BY <2>1, ListNames
      <4>2. ksPc[p] # "ready" => Woken' = Woken
        BY <1>1, <2>2, <2>4 DEF Woken
      <4>4. (\E q \in Sleepers("sv_plist") : ksPc'[q] = "asleep")
               => (\E q \in Sleepers("sv_plist") : ksPc[q] = "asleep")
        BY <2>4 DEF Sleepers
      <4> QED BY <1>0, <1>1, <3>2, <4>1, <4>2, <4>4 DEF KsTold
    <3> QED BY <3>1, <3>2
  <2> QED BY <1>2, <2>1, <2>3, <2>5, <2>6 DEF KsInv
<1> QED BY <1>3, <1>4

\* SLEEP_UNLOCK passes the lock to the head of the list.
LEMMA UnlockStep ==
  ASSUME KsInv, NEW h \in KsProcs \cup {KsIntr}, SLEEP_UNLOCK(h)
  PROVE  KsInv'
<1>0. KsTypes /\ KsListed /\ KsPlaced /\ KsHeld /\ KsTold
  BY DEF KsInv
<1>1. PICK w : w = pl_head["sl_plist"]
  OBVIOUS
<1>2. /\ ksOwner = h /\ (h \in KsProcs => ksPc[h] = "has")
      /\ WAKE_ONE("sl_plist")
      /\ \A p \in KsProcs : ksPc'[p] = IF p = h THEN "idle"
                              ELSE IF p = w /\ ksPc[p] = "asleep" THEN "ready" ELSE ksPc[p]
      /\ ksPc' \in [KsProcs -> {"idle", "hard", "asleep", "ready", "has"}]
      /\ sl_holder' = w /\ sl_locked' = (w # KsNone) /\ ksOwner' = w
      /\ ksPending' = ksPending \ {h} /\ ksItems' = ksItems
  BY <1>0, <1>1 DEF SLEEP_UNLOCK, KERNEL_WAKE, StaysLocked, KsTypes
<1>3. /\ KsListed' /\ pl_head' \in [Lists -> KsProcs \cup {KsNone}]
      /\ pn_plistp' \in [KsProcs -> Lists \cup {KsNone}]
      /\ \A m \in Lists \ {"sl_plist"} : Sleepers(m)' = Sleepers(m)
      /\ w # KsNone => w \in Sleepers("sl_plist")
  BY <1>0, <1>1, <1>2, ListNames, WakeOneKeeps
<1>4. /\ \A p \in KsProcs : pn_plistp'[p] = IF p = w THEN KsNone ELSE pn_plistp[p]
      /\ pn_next' = pn_next
  BY <1>1, <1>2 DEF WAKE_ONE
<1>5. w = KsNone \/ (w \in KsProcs /\ pn_plistp[w] = "sl_plist")
  BY <1>3 DEF Sleepers
<1>6. KsTypes'
  BY <1>0, <1>2, <1>3, <1>4, <1>5 DEF KsTypes
<1>7. KsHeld'
  BY <1>2 DEF KsHeld
<1>8. w # KsNone => ksPc[w] \in {"asleep", "ready"} /\ w # h
  BY <1>0, <1>2, <1>5, ListNames DEF KsPlaced, KsTypes
<1>9. KsPlaced'
  <2>1. ASSUME NEW p \in KsProcs
        PROVE  /\ ksPc'[p] \in {"idle", "hard", "has"} => pn_plistp'[p] = KsNone
               /\ ksPc'[p] = "asleep" => pn_plistp'[p] # KsNone
               /\ ksPc'[p] = "ready" /\ pn_plistp'[p] # KsNone => p \in KsCatch
               /\ ksPc'[p] = "has" => ksOwner' = p
               /\ ksOwner' = p => ksPc'[p] = "has" \/ (ksPc'[p] = "ready" /\ pn_plistp'[p] = KsNone)
    <3>1. CASE p = w
      <4>1. ksPc'[p] = "ready" /\ pn_plistp'[p] = KsNone
        BY <1>2, <1>4, <1>8, <3>1, ListNames
      <4> QED BY <4>1
    <3>2. CASE p = h
      <4>1. p # w
        BY <1>8, <3>2, ListNames
      <4>2. ksPc'[p] = "idle" /\ pn_plistp'[p] = pn_plistp[p] /\ ksPc[p] = "has"
        BY <1>2, <1>4, <3>2, <4>1
      <4> QED BY <1>0, <1>2, <4>1, <4>2 DEF KsPlaced
    <3>3. CASE p # w /\ p # h
      <4>1. ksPc'[p] = ksPc[p] /\ pn_plistp'[p] = pn_plistp[p] /\ ksOwner # p
        BY <1>2, <1>4, <3>3
      <4> QED BY <1>0, <1>2, <3>3, <4>1 DEF KsPlaced
    <3> QED BY <3>1, <3>2, <3>3
  <2> QED BY <2>1 DEF KsPlaced
<1>10. KsTold'
  <2>1. Woken' = Woken
    <3>1. ASSUME NEW p \in KsProcs PROVE p \in Woken' <=> p \in Woken
      <4>1. CASE p = w
        <5>1. p \notin Woken /\ p \notin Woken'
          BY <1>2, <1>5, <4>1, ListNames DEF Woken
        <5> QED BY <5>1
      <4>2. CASE p = h
        <5>1. p \notin Woken /\ p \notin Woken'
          BY <1>2, <4>2 DEF Woken
        <5> QED BY <5>1
      <4>3. CASE p # w /\ p # h
        BY <1>2, <1>4, <4>3 DEF Woken
      <4> QED BY <4>1, <4>2, <4>3
    <3> QED BY <3>1 DEF Woken
  <2>2. Sleepers("sv_plist")' = Sleepers("sv_plist")
    BY <1>3, ListNames
  <2>3. \A p \in Sleepers("sv_plist") : ksPc'[p] = "asleep" => ksPc[p] = "asleep"
    BY <1>2 DEF Sleepers
  <2> QED BY <1>0, <1>2, <2>1, <2>2, <2>3 DEF KsTold
<1> QED BY <1>3, <1>6, <1>7, <1>9, <1>10 DEF KsInv

\* A waiter that has been given the lock goes on.
LEMMA WokenStep ==
  ASSUME KsInv, NEW p \in KsProcs, SLEEP_LOCK_woken(p)
  PROVE  KsInv'
<1>0. KsTypes /\ KsListed /\ KsPlaced /\ KsHeld /\ KsTold
  BY DEF KsInv
<1>1. /\ ksPc[p] = "ready" /\ pn_plistp[p] = KsNone /\ ksOwner = p
      /\ ksPc' = [ksPc EXCEPT ![p] = "has"]
      /\ UNCHANGED <<lockVars, listVars, ksPending, ksItems>>
  BY DEF SLEEP_LOCK_woken
<1>2. ksPc'[p] = "has" /\ \A q \in KsProcs \ {p} : ksPc'[q] = ksPc[q]
  BY <1>0, <1>1 DEF KsTypes
<1>3. KsTypes' /\ KsHeld'
  BY <1>0, <1>1 DEF KsTypes, KsHeld, lockVars, listVars
<1>4. KsListed' /\ \A l \in Lists : Sleepers(l)' = Sleepers(l)
  BY <1>0, <1>1, ListsStay
<1>5. KsPlaced'
  BY <1>0, <1>1, <1>2 DEF KsPlaced, lockVars, listVars
<1>6. KsTold'
  <2>1. Woken' = Woken
    BY <1>1, <1>2 DEF Woken, lockVars, listVars
  <2>2. Sleepers("sv_plist")' = Sleepers("sv_plist")
    BY <1>4, ListNames
  <2>3. \A q \in Sleepers("sv_plist") : ksPc'[q] = "asleep" => ksPc[q] = "asleep"
    BY <1>2 DEF Sleepers
  <2> QED BY <1>0, <1>1, <2>1, <2>2, <2>3 DEF KsTold
<1> QED BY <1>3, <1>4, <1>5, <1>6 DEF KsInv

\* The client of a synchronisation variable.
LEMMA WaitStep ==
  ASSUME DequeuesHead, KsInv, NEW p \in KsProcs, SV_WAIT(p)
  PROVE  KsInv'
<1>0. KsTypes /\ KsListed /\ KsPlaced /\ KsHeld /\ KsTold
  BY DEF KsInv
<1>1. pn_plistp[p] = KsNone /\ ksOwner # p /\ UNCHANGED lockVars
  BY <1>0 DEF SV_WAIT, KsPlaced
<1>2. CASE ksItems > 0
  <2>1. /\ ksItems' = ksItems - 1 /\ ksPc' = [ksPc EXCEPT ![p] = "idle"]
        /\ ksPending' = ksPending \ {p} /\ UNCHANGED listVars
    BY <1>2 DEF SV_WAIT
  <2>2. ksPc'[p] = "idle" /\ \A q \in KsProcs \ {p} : ksPc'[q] = ksPc[q]
    BY <1>0, <2>1 DEF KsTypes
  <2>3. ksItems \in Nat /\ ksItems' \in Nat
    BY <1>0, <1>2, <2>1 DEF KsTypes
  <2>4. KsTypes' /\ KsHeld'
    BY <1>0, <1>1, <2>1, <2>3 DEF KsTypes, KsHeld, lockVars, listVars
  <2>5. KsListed' /\ \A l \in Lists : Sleepers(l)' = Sleepers(l)
    BY <1>0, <2>1, ListsStay
  <2>6. KsPlaced'
    BY <1>0, <1>1, <2>1, <2>2 DEF KsPlaced, lockVars, listVars
  <2>7. KsTold'
    <3>1. Woken \ {p} \subseteq Woken' /\ Woken' \subseteq KsProcs
      BY <1>1, <2>1, <2>2 DEF Woken, lockVars, listVars
    <3>2. Sleepers("sv_plist")' = Sleepers("sv_plist")
      BY <2>5, ListNames
    <3>3. \A q \in Sleepers("sv_plist") : ksPc'[q] = "asleep" => ksPc[q] = "asleep"
      BY <2>2 DEF Sleepers
    <3>4. PICK W : W = Woken'
      OBVIOUS
    <3>5. PICK c, d : c = Cardinality(Woken) /\ d = Cardinality(W)
      OBVIOUS
    <3>6. c \in Nat /\ d \in Nat /\ c - 1 <= d
      BY <3>1, <3>4, <3>5, WokenCount
    <3>7. (\E q \in Sleepers("sv_plist") : ksPc'[q] = "asleep") => c >= ksItems
      BY <1>0, <1>2, <3>3, <3>5 DEF KsTold
    <3>8. (\E q \in Sleepers("sv_plist") : ksPc'[q] = "asleep") => d >= ksItems'
      BY <2>1, <2>3, <3>6, <3>7
    <3> QED BY <3>2, <3>4, <3>5, <3>8 DEF KsTold
  <2> QED BY <2>4, <2>5, <2>6, <2>7 DEF KsInv
<1>3. CASE ~ (ksItems > 0)
  <2>1. ksItems = 0
    BY <1>0, <1>3 DEF KsTypes
  <2>2. /\ MAKE_SLEEPING(p, "sv_plist") \/ MAKE_SLEEPING_signalled(p, "sv_plist")
        /\ UNCHANGED ksItems
    BY <1>3 DEF SV_WAIT
  <2>3. PICK l \in Lists : l = "sv_plist"
    BY ListNames
  <2> QED BY <1>1, <2>1, <2>2, <2>3, SleepStep
<1> QED BY <1>2, <1>3

\* A sleep that a signal has ended.
LEMMA InterruptedStep ==
  ASSUME DequeuesHead, KsInv, NEW p \in KsProcs, SignalledWake(p)
  PROVE  KsInv'
<1>0. KsTypes /\ KsListed /\ KsPlaced /\ KsHeld /\ KsTold
  BY DEF KsInv
<1>1. /\ ksPc[p] = "ready" /\ pn_plistp[p] # KsNone
      /\ pn_plistp' = [pn_plistp EXCEPT ![p] = KsNone]
      /\ ksPc' = [ksPc EXCEPT ![p] = "idle"]
      /\ ksPending' = ksPending \ {p}
      /\ UNCHANGED <<lockVars, pn_next, ksItems>>
  BY DEF SignalledWake
<1>2. p \in KsCatch
  BY <1>0, <1>1 DEF KsPlaced
<1>3. /\ KsListed' /\ pl_head' \in [Lists -> KsProcs \cup {KsNone}]
      /\ \A m \in Lists : Sleepers(m)' = Sleepers(m) \ {p}
  <2>1. pl_head[pn_plistp[p]] = p
    BY DEF DequeuesHead
  <2> QED BY <1>0, <1>1, <1>2, <2>1, SignalledWakeKeeps
<1>4. /\ ksPc'[p] = "idle" /\ pn_plistp'[p] = KsNone
      /\ \A q \in KsProcs \ {p} : ksPc'[q] = ksPc[q] /\ pn_plistp'[q] = pn_plistp[q]
  BY <1>0, <1>1 DEF KsTypes
<1>5. KsTypes' /\ KsHeld'
  BY <1>0, <1>1, <1>3 DEF KsTypes, KsHeld, lockVars
<1>6. KsPlaced'
  BY <1>0, <1>1, <1>4 DEF KsPlaced, lockVars
<1>7. KsTold'
  <2>1. Woken' = Woken
    BY <1>1, <1>4 DEF Woken, lockVars
  <2>2. Sleepers("sv_plist")' = Sleepers("sv_plist") \ {p}
    BY <1>3, ListNames
  <2>3. \A q \in Sleepers("sv_plist") \ {p} : ksPc'[q] = ksPc[q]
    BY <1>4 DEF Sleepers
  <2> QED BY <1>0, <1>1, <2>1, <2>2, <2>3 DEF KsTold
<1> QED BY <1>3, <1>5, <1>6, <1>7 DEF KsInv

LEMMA SignalStep ==
  ASSUME KsInv, NEW p \in KsProcs, proc_signal(p)
  PROVE  KsInv'
<1>0. KsTypes /\ KsListed /\ KsPlaced /\ KsHeld /\ KsTold
  BY DEF KsInv
<1>1. /\ p \in KsCatch /\ ksPending' = ksPending \cup {p}
      /\ ksPc' = [ksPc EXCEPT ![p] = IF @ = "asleep" THEN "ready" ELSE @]
      /\ UNCHANGED <<lockVars, listVars, ksItems>>
  BY DEF proc_signal
<1>2. /\ ksPc'[p] = IF ksPc[p] = "asleep" THEN "ready" ELSE ksPc[p]
      /\ \A q \in KsProcs \ {p} : ksPc'[q] = ksPc[q]
      /\ ksPc' \in [KsProcs -> {"idle", "hard", "asleep", "ready", "has"}]
  BY <1>0, <1>1 DEF KsTypes
<1>3. KsTypes' /\ KsHeld'
  BY <1>0, <1>1, <1>2 DEF KsTypes, KsHeld, lockVars, listVars
<1>4. KsListed' /\ \A l \in Lists : Sleepers(l)' = Sleepers(l)
  BY <1>0, <1>1, ListsStay
<1>5. KsPlaced'
  BY <1>0, <1>1, <1>2 DEF KsPlaced, lockVars, listVars
<1>6. KsTold'
  <2>1. Woken' = Woken
    BY <1>0, <1>1, <1>2 DEF Woken, KsPlaced, lockVars, listVars
  <2>2. Sleepers("sv_plist")' = Sleepers("sv_plist")
    BY <1>4, ListNames
  <2>3. \A q \in Sleepers("sv_plist") : ksPc'[q] = "asleep" => ksPc[q] = "asleep"
    BY <1>2 DEF Sleepers
  <2> QED BY <1>0, <1>1, <2>1, <2>2, <2>3 DEF KsTold
<1> QED BY <1>3, <1>4, <1>5, <1>6 DEF KsInv

\* One item more, and the head of the list on its way to it.
LEMMA ItemStep ==
  ASSUME KsInv, SV_SIGNAL
  PROVE  KsInv'
<1>0. KsTypes /\ KsListed /\ KsPlaced /\ KsHeld /\ KsTold
  BY DEF KsInv
<1>1. PICK w : w = pl_head["sv_plist"]
  OBVIOUS
<1>2. /\ ksItems' = ksItems + 1 /\ WAKE_ONE("sv_plist")
      /\ \A p \in KsProcs : ksPc'[p] = IF p = w /\ ksPc[p] = "asleep" THEN "ready" ELSE ksPc[p]
      /\ ksPc' \in [KsProcs -> {"idle", "hard", "asleep", "ready", "has"}]
      /\ UNCHANGED <<lockVars, ksPending>>
  BY <1>0, <1>1 DEF SV_SIGNAL, KERNEL_WAKE, KsTypes
<1>3. /\ KsListed' /\ pl_head' \in [Lists -> KsProcs \cup {KsNone}]
      /\ pn_plistp' \in [KsProcs -> Lists \cup {KsNone}]
      /\ Sleepers("sv_plist")' = Sleepers("sv_plist") \ {w}
      /\ w = KsNone => Sleepers("sv_plist") = {}
      /\ w # KsNone => w \in Sleepers("sv_plist")
  BY <1>0, <1>1, <1>2, ListNames, WakeOneKeeps
<1>4. /\ \A p \in KsProcs : pn_plistp'[p] = IF p = w THEN KsNone ELSE pn_plistp[p]
      /\ pn_next' = pn_next
  BY <1>1, <1>2 DEF WAKE_ONE
<1>5. w = KsNone \/ (w \in KsProcs /\ pn_plistp[w] = "sv_plist")
  BY <1>3 DEF Sleepers
<1>6. KsTypes' /\ KsHeld'
  BY <1>0, <1>2, <1>3, <1>4, <1>5 DEF KsTypes, KsHeld, lockVars
<1>7. w # KsNone => ksPc[w] \in {"asleep", "ready"} /\ ksOwner # w
  BY <1>0, <1>5, ListNames DEF KsPlaced, KsTypes
<1>8. KsPlaced'
  <2>1. ASSUME NEW p \in KsProcs
        PROVE  /\ ksPc'[p] \in {"idle", "hard", "has"} => pn_plistp'[p] = KsNone
               /\ ksPc'[p] = "asleep" => pn_plistp'[p] # KsNone
               /\ ksPc'[p] = "ready" /\ pn_plistp'[p] # KsNone => p \in KsCatch
               /\ ksPc'[p] = "has" => ksOwner' = p
               /\ ksOwner' = p => ksPc'[p] = "has" \/ (ksPc'[p] = "ready" /\ pn_plistp'[p] = KsNone)
    <3>1. CASE p = w
      <4>1. ksPc'[p] = "ready" /\ pn_plistp'[p] = KsNone
        BY <1>2, <1>4, <1>7, <3>1, ListNames
      <4> QED BY <4>1
    <3>2. CASE p # w
      <4>1. ksPc'[p] = ksPc[p] /\ pn_plistp'[p] = pn_plistp[p] /\ ksOwner' = ksOwner
        BY <1>2, <1>4, <3>2 DEF lockVars
      <4> QED BY <1>0, <4>1 DEF KsPlaced
    <3> QED BY <3>1, <3>2
  <2> QED BY <2>1 DEF KsPlaced
<1>9. KsTold'
  <2>1. CASE w = KsNone
    <3>1. Sleepers("sv_plist")' = {}
      BY <1>3, <2>1
    <3> QED BY <3>1 DEF KsTold
  <2>2. CASE w # KsNone
    <3>1. w \in KsProcs /\ w \notin Woken
      BY <1>5, <2>2, ListNames DEF Woken
    <3>2. \A p \in KsProcs : p = w \/ p \in Woken => p \in Woken'
      BY <1>2, <1>4, <1>7, <2>2 DEF Woken, lockVars
    <3>3. PICK W : W = Woken'
      OBVIOUS
    <3>4. Woken \cup {w} \subseteq W /\ W \subseteq KsProcs
      BY <3>1, <3>2, <3>3 DEF Woken
    <3>5. PICK c, d : c = Cardinality(Woken) /\ d = Cardinality(W)
      OBVIOUS
    <3>6. c \in Nat /\ d \in Nat /\ c + 1 <= d
      BY <3>1, <3>4, <3>5, WokenCount
    <3>7. \A q \in Sleepers("sv_plist") : ksPc'[q] = "asleep" => ksPc[q] = "asleep"
      BY <1>2 DEF Sleepers
    <3>8. (\E q \in Sleepers("sv_plist")' : ksPc'[q] = "asleep")
            => ksItems = 0 \/ c >= ksItems
      BY <1>0, <1>3, <3>5, <3>7 DEF KsTold, KsTypes
    <3>9. (\E q \in Sleepers("sv_plist")' : ksPc'[q] = "asleep") => d >= ksItems'
      <4>1. ksItems \in Nat /\ ksItems' = ksItems + 1
        BY <1>0, <1>2 DEF KsTypes
      <4>2. ksItems = 0 \/ c >= ksItems => d >= ksItems'
        BY <3>6, <4>1
      <4> QED BY <3>8, <4>2
    <3> QED BY <3>3, <3>5, <3>9 DEF KsTold
  <2> QED BY <2>1, <2>2
<1> QED BY <1>3, <1>6, <1>8, <1>9 DEF KsInv

LEMMA BroadcastStep ==
  ASSUME KsInv, SV_BROADCAST
  PROVE  KsInv'
<1>0. KsTypes /\ KsListed /\ KsPlaced /\ KsHeld /\ KsTold
  BY DEF KsInv
<1>1. WAKE_ALL("sv_plist")
  BY DEF SV_BROADCAST
<1>2. /\ KsListed' /\ pl_head' \in [Lists -> KsProcs \cup {KsNone}]
      /\ pn_plistp' \in [KsProcs -> Lists \cup {KsNone}]
      /\ OnList("sv_plist") = Sleepers("sv_plist") /\ Sleepers("sv_plist")' = {}
  BY <1>0, <1>1, ListNames, WakeAllKeeps
<1>3. PICK S : S = Sleepers("sv_plist")
  OBVIOUS
<1>4. /\ ksItems' = MaxItems /\ UNCHANGED <<lockVars, ksPending>>
      /\ \A p \in KsProcs : ksPc'[p] = IF p \in S /\ ksPc[p] = "asleep" THEN "ready" ELSE ksPc[p]
      /\ ksPc' \in [KsProcs -> {"idle", "hard", "asleep", "ready", "has"}]
  BY <1>0, <1>2, <1>3 DEF SV_BROADCAST, KERNEL_WAKE, KsTypes
<1>5. /\ \A p \in KsProcs : pn_plistp'[p] = IF p \in S THEN KsNone ELSE pn_plistp[p]
      /\ pn_next' = pn_next
  BY <1>1, <1>2, <1>3 DEF WAKE_ALL
<1>6. KsTypes' /\ KsHeld'
  BY <1>0, <1>2, <1>4, <1>5, KsAssumption DEF KsTypes, KsHeld, lockVars
<1>7. \A p \in S : ksPc[p] \in {"asleep", "ready"} /\ ksOwner # p /\ pn_plistp[p] # KsNone
  BY <1>0, <1>3, ListNames DEF KsPlaced, KsTypes, Sleepers
<1>8. KsPlaced'
  <2>1. ASSUME NEW p \in KsProcs
        PROVE  /\ ksPc'[p] \in {"idle", "hard", "has"} => pn_plistp'[p] = KsNone
               /\ ksPc'[p] = "asleep" => pn_plistp'[p] # KsNone
               /\ ksPc'[p] = "ready" /\ pn_plistp'[p] # KsNone => p \in KsCatch
               /\ ksPc'[p] = "has" => ksOwner' = p
               /\ ksOwner' = p => ksPc'[p] = "has" \/ (ksPc'[p] = "ready" /\ pn_plistp'[p] = KsNone)
    <3>1. CASE p \in S
      <4>1. ksPc'[p] = "ready" /\ pn_plistp'[p] = KsNone
        BY <1>4, <1>5, <1>7, <3>1
      <4> QED BY <4>1
    <3>2. CASE p \notin S
      <4>1. ksPc'[p] = ksPc[p] /\ pn_plistp'[p] = pn_plistp[p] /\ ksOwner' = ksOwner
        BY <1>4, <1>5, <3>2 DEF lockVars
      <4> QED BY <1>0, <4>1 DEF KsPlaced
    <3> QED BY <3>1, <3>2
  <2> QED BY <2>1 DEF KsPlaced
<1>9. KsTold'
  BY <1>2 DEF KsTold
<1> QED BY <1>2, <1>6, <1>8, <1>9 DEF KsInv

LEMMA KsBegins == KsInit => KsInv
<1> SUFFICES ASSUME KsInit PROVE KsInv
  OBVIOUS
<1>1. /\ sl_locked = FALSE /\ sl_holder = KsNone
      /\ pl_head = [l \in Lists |-> KsNone]
      /\ pn_next = [p \in KsProcs |-> KsNone]
      /\ pn_plistp = [p \in KsProcs |-> KsNone]
      /\ ksPc = [p \in KsProcs |-> "idle"]
      /\ ksPending = {} /\ ksOwner = KsNone /\ ksItems = 0
  BY DEF KsInit
<1>2. KsTypes
  BY <1>1 DEF KsTypes
<1>3. \A l \in Lists : Sleepers(l) = {} /\ pl_head[l] = KsNone
  BY <1>1, ListNames DEF Sleepers
<1>4. KsListed
  <2>1. \E f, n : IsList(f, n, {}, KsNone, pn_next)
    BY ListNone
  <2> QED BY <1>3, <2>1 DEF KsListed
<1>5. KsPlaced
  BY <1>1, ListNames DEF KsPlaced
<1>6. KsHeld
  BY <1>1 DEF KsHeld
<1>7. KsTold
  BY <1>1 DEF KsTold
<1> QED BY <1>2, <1>4, <1>5, <1>6, <1>7 DEF KsInv

\* The first test-and-set of SLEEP_LOCK.
LEMMA FastStep ==
  ASSUME KsInv, NEW p \in KsProcs, SLEEP_LOCK_fast(p)
  PROVE  KsInv'
<1>0. KsTypes /\ KsListed /\ KsPlaced /\ KsHeld /\ KsTold
  BY DEF KsInv
<1>1. ksPc[p] = "idle" /\ UNCHANGED <<listVars, ksPending, ksItems>>
  BY DEF SLEEP_LOCK_fast
<1>2. CASE sl_locked
  <2>1. ksPc' = [ksPc EXCEPT ![p] = "hard"] /\ UNCHANGED lockVars
    BY <1>2 DEF SLEEP_LOCK_fast
  <2>2. ksPc'[p] = "hard" /\ \A q \in KsProcs \ {p} : ksPc'[q] = ksPc[q]
    BY <1>0, <2>1 DEF KsTypes
  <2>3. KsTypes' /\ KsHeld'
    BY <1>0, <1>1, <2>1 DEF KsTypes, KsHeld, lockVars, listVars
  <2>4. KsListed' /\ \A l \in Lists : Sleepers(l)' = Sleepers(l)
    BY <1>0, <1>1, ListsStay
  <2>5. KsPlaced'
    BY <1>0, <1>1, <2>1, <2>2 DEF KsPlaced, lockVars, listVars
  <2>6. KsTold'
    <3>1. Woken' = Woken
      BY <1>1, <2>1, <2>2 DEF Woken, lockVars, listVars
    <3>2. Sleepers("sv_plist")' = Sleepers("sv_plist")
      BY <2>4, ListNames
    <3>3. \A q \in Sleepers("sv_plist") : ksPc'[q] = "asleep" => ksPc[q] = "asleep"
      BY <2>2 DEF Sleepers
    <3> QED BY <1>0, <1>1, <3>1, <3>2, <3>3 DEF KsTold
  <2> QED BY <2>3, <2>4, <2>5, <2>6 DEF KsInv
<1>3. CASE ~ sl_locked
  <2>1. ksPc' = [ksPc EXCEPT ![p] = "has"] /\ Grant(p)
    BY <1>3 DEF SLEEP_LOCK_fast
  <2>2. ksPc' = [q \in KsProcs |-> IF q = p THEN "has" ELSE ksPc[q]]
    BY <1>0, <2>1 DEF KsTypes
  <2>3. ksOwner = KsNone
    BY <1>0, <1>3 DEF KsHeld
  <2> QED BY <1>1, <2>1, <2>2, <2>3, GrantStep
<1> QED BY <1>2, <1>3

\* The second, with the list locked.
LEMMA LockStep ==
  ASSUME DequeuesHead, KsInv, NEW p \in KsProcs, SLEEP_LOCK(p)
  PROVE  KsInv'
<1>0. KsTypes /\ KsListed /\ KsPlaced /\ KsHeld /\ KsTold
  BY DEF KsInv
<1>1. ksPc[p] = "hard" /\ UNCHANGED ksItems
  BY DEF SLEEP_LOCK
<1>2. pn_plistp[p] = KsNone /\ ksOwner # p
  BY <1>0, <1>1 DEF KsPlaced
<1>3. CASE ~ sl_locked
  <2>1. /\ Grant(p) /\ ksPc' = [ksPc EXCEPT ![p] = "has"]
        /\ UNCHANGED <<listVars, ksPending>>
    BY <1>3 DEF SLEEP_LOCK, MustSleep
  <2>2. ksPc' = [q \in KsProcs |-> IF q = p THEN "has" ELSE ksPc[q]]
    BY <1>0, <2>1 DEF KsTypes
  <2>3. ksOwner = KsNone
    BY <1>0, <1>3 DEF KsHeld
  <2> QED BY <1>1, <2>1, <2>2, <2>3, GrantStep
<1>4. CASE sl_locked
  <2>1. PICK l \in Lists : l = "sl_plist" /\ l # "sv_plist"
    BY ListNames
  <2>2. /\ MAKE_SLEEPING(p, l) \/ MAKE_SLEEPING_signalled(p, l)
        /\ UNCHANGED lockVars
    BY <1>4, <2>1 DEF SLEEP_LOCK, MustSleep
  <2> QED BY <1>1, <1>2, <2>1, <2>2, SleepStep
<1> QED BY <1>3, <1>4

LEMMA TryStep ==
  ASSUME KsInv, NEW h \in KsProcs \cup {KsIntr}, SLEEP_TRYLOCK(h)
  PROVE  KsInv'
<1>1. ksOwner = KsNone
  BY DEF SLEEP_TRYLOCK, KsInv, KsHeld
<1> QED BY <1>1, GrantStep DEF SLEEP_TRYLOCK

LEMMA KsStep == KsInv /\ [KsNext]_ksVars /\ [DequeuesHead]_ksVars => KsInv'
<1> SUFFICES ASSUME KsInv, [KsNext]_ksVars, [DequeuesHead]_ksVars PROVE KsInv'
  OBVIOUS
<1>1. ASSUME DequeuesHead, NEW p \in KsProcs,
             \/ SLEEP_LOCK_fast(p) \/ SLEEP_LOCK(p) \/ SLEEP_LOCK_woken(p)
             \/ SLEEP_TRYLOCK(p) \/ SLEEP_UNLOCK(p)
             \/ SV_WAIT(p) \/ SignalledWake(p) \/ proc_signal(p)
      PROVE  KsInv'
  <2>1. p \in KsProcs \cup {KsIntr}
    OBVIOUS
  <2> QED BY <1>1, <2>1, FastStep, LockStep, WokenStep, TryStep, UnlockStep, WaitStep,
             InterruptedStep, SignalStep
<1>2. CASE SLEEP_TRYLOCK(KsIntr)
  BY <1>2, TryStep
<1>3. CASE SLEEP_UNLOCK(KsIntr)
  BY <1>3, UnlockStep
<1>4. CASE SV_SIGNAL
  BY <1>4, ItemStep
<1>5. CASE SV_BROADCAST
  BY <1>5, BroadcastStep
<1>6. CASE UNCHANGED ksVars
  <2>1. /\ UNCHANGED <<lockVars, listVars, ksPc, ksPending, ksItems>>
    BY <1>6 DEF ksVars, lockVars, listVars
  <2>2. KsListed' /\ \A l \in Lists : Sleepers(l)' = Sleepers(l)
    BY <2>1, ListsStay DEF KsInv
  <2>3. KsTypes' /\ KsPlaced' /\ KsHeld'
    BY <2>1 DEF KsInv, KsTypes, KsPlaced, KsHeld, lockVars, listVars
  <2>4. Woken' = Woken
    BY <2>1 DEF Woken, lockVars, listVars
  <2>5. Sleepers("sv_plist")' = Sleepers("sv_plist")
    BY <2>2, ListNames
  <2>6. KsTold'
    BY <2>1, <2>4, <2>5 DEF KsInv, KsTold
  <2> QED BY <2>2, <2>3, <2>6 DEF KsInv
<1> QED BY <1>1, <1>2, <1>3, <1>4, <1>5, <1>6 DEF KsNext

LEMMA KsHolds == KsInv => KsSound
<1> SUFFICES ASSUME KsInv PROVE KsSound
  OBVIOUS
<1>1. KsNoStranded
  BY OnListIs DEF KsInv, KsListed, KsNoStranded
<1>2. KsHolderExact
  BY DEF KsInv, KsHeld, KsPlaced, KsHolderExact
<1>3. KsNoLostSignal
  BY DEF KsInv, KsTold, KsNoLostSignal, Woken
<1> QED BY <1>1, <1>2, <1>3 DEF KsSound

\* The list from its k-th process on.
LEMMA ListSuffix ==
  ASSUME NEW f, NEW n, NEW S, NEW head, NEW next, IsList(f, n, S, head, next),
         NEW k \in 1 .. n + 1
  PROVE  \E f2, n2, S2 : /\ IsList(f2, n2, S2, Nth(f, n, k), next)
                         /\ \A q : q \in S2 <=> \E i \in 1 .. n : k <= i /\ f[i] = q
<1> DEFINE n2 == n + 1 - k
           f2 == [i \in 1 .. n2 |-> f[i + (k - 1)]]
           S2 == {q \in S : \E i \in 1 .. n : k <= i /\ f[i] = q}
<1>1. /\ n \in Nat /\ f \in [1 .. n -> KsProcs]
      /\ \A i, j \in 1 .. n : f[i] = f[j] => i = j
      /\ \A q : q \in S <=> \E i \in 1 .. n : f[i] = q
      /\ \A i \in 1 .. n : next[f[i]] = Nth(f, n, i + 1)
      /\ \A i, j \in 1 .. n : i < j => KsPri[f[j]] <= KsPri[f[i]]
  BY DEF IsList
<1>2. n2 \in Nat /\ n2 = n + 1 - k
  BY <1>1
<1>3. \A q : q \in S2 <=> \E i \in 1 .. n : k <= i /\ f[i] = q
  BY <1>1
<1>4. \A i \in 1 .. n2 : i + (k - 1) \in 1 .. n /\ k <= i + (k - 1) /\ f2[i] = f[i + (k - 1)]
  BY <1>1
<1>5. f2 \in [1 .. n2 -> KsProcs]
  BY <1>1, <1>4
<1> HIDE DEF f2, n2, S2
<1>6. \A i, j \in 1 .. n2 : f2[i] = f2[j] => i = j
  <2> SUFFICES ASSUME NEW i \in 1 .. n2, NEW j \in 1 .. n2, f2[i] = f2[j] PROVE i = j
    OBVIOUS
  <2>1. /\ i + (k - 1) \in 1 .. n /\ f2[i] = f[i + (k - 1)]
        /\ j + (k - 1) \in 1 .. n /\ f2[j] = f[j + (k - 1)]
    BY <1>4
  <2>2. f[i + (k - 1)] = f[j + (k - 1)]
    BY <2>1
  <2>3. i + (k - 1) = j + (k - 1)
    BY <1>1, <2>1, <2>2
  <2> QED BY <1>2, <2>3
<1>7. \A i \in 1 .. n : k <= i => i + 1 - k \in 1 .. n2 /\ f2[i + 1 - k] = f[i]
  <2> SUFFICES ASSUME NEW i \in 1 .. n, k <= i
               PROVE  i + 1 - k \in 1 .. n2 /\ f2[i + 1 - k] = f[i]
    OBVIOUS
  <2>1. PICK j : j = i + 1 - k
    OBVIOUS
  <2>2. j \in 1 .. n2 /\ j + (k - 1) = i
    BY <1>1, <1>2, <2>1
  <2> QED BY <1>4, <2>1, <2>2
<1>8. \A q : q \in S2 <=> \E i \in 1 .. n2 : f2[i] = q
  <2>1. \A q \in S2 : \E i \in 1 .. n2 : f2[i] = q
    BY <1>3, <1>7
  <2>2. \A i \in 1 .. n2 : f2[i] \in S2
    BY <1>3, <1>4
  <2> QED BY <2>1, <2>2
<1>9. \A i \in 1 .. n2 + 1 : Nth(f2, n2, i) = Nth(f, n, i + (k - 1))
  <2> SUFFICES ASSUME NEW i \in 1 .. n2 + 1 PROVE Nth(f2, n2, i) = Nth(f, n, i + (k - 1))
    OBVIOUS
  <2>1. CASE i \in 1 .. n2
    BY <1>4, <2>1 DEF Nth
  <2>2. CASE i \notin 1 .. n2
    <3>1. i + (k - 1) \notin 1 .. n
      BY <1>1, <1>2, <2>2
    <3> QED BY <2>2, <3>1 DEF Nth
  <2> QED BY <2>1, <2>2
<1>10. Nth(f, n, k) = Nth(f2, n2, 1)
  <2>1. 1 \in 1 .. n2 + 1 /\ 1 + (k - 1) = k
    BY <1>1, <1>2
  <2>2. Nth(f2, n2, 1) = Nth(f, n, 1 + (k - 1))
    BY <1>9, <2>1
  <2> QED BY <2>1, <2>2
<1>11. \A i \in 1 .. n2 : next[f2[i]] = Nth(f2, n2, i + 1)
  <2> SUFFICES ASSUME NEW i \in 1 .. n2 PROVE next[f2[i]] = Nth(f2, n2, i + 1)
    OBVIOUS
  <2>1. PICK j : j = i + (k - 1)
    OBVIOUS
  <2>2. next[f2[i]] = Nth(f, n, j + 1)
    BY <1>1, <1>4, <2>1
  <2>3. i + 1 \in 1 .. n2 + 1 /\ i + 1 + (k - 1) = j + 1
    BY <1>2, <2>1
  <2>4. Nth(f2, n2, i + 1) = Nth(f, n, i + 1 + (k - 1))
    BY <1>9, <2>3
  <2> QED BY <2>2, <2>3, <2>4
<1>12. \A i, j \in 1 .. n2 : i < j => KsPri[f2[j]] <= KsPri[f2[i]]
  <2> SUFFICES ASSUME NEW i \in 1 .. n2, NEW j \in 1 .. n2, i < j
               PROVE  KsPri[f2[j]] <= KsPri[f2[i]]
    OBVIOUS
  <2>1. PICK x, y : x = i + (k - 1) /\ y = j + (k - 1)
    OBVIOUS
  <2>2. x \in 1 .. n /\ y \in 1 .. n /\ f2[i] = f[x] /\ f2[j] = f[y]
    BY <1>4, <2>1
  <2>3. x < y
    BY <1>2, <2>1
  <2> QED BY <1>1, <2>2, <2>3
<1>13. IsList(f2, n2, S2, Nth(f, n, k), next)
  BY <1>2, <1>5, <1>6, <1>8, <1>10, <1>11, <1>12 DEF IsList
<1> QED BY <1>3, <1>13

\* OnListIs as a formula that can be primed.
Walked == \A l, f, n, S : IsList(f, n, S, pl_head[l], pn_next) => OnList(l) = S

LEMMA ListWalked == Walked
BY OnListIs DEF Walked

\* KERNEL_SLEEP of a process that is not the head strands those ahead of it.
LEMMA WakeStrands ==
  ASSUME KsInv, NEW p \in KsProcs, SignalledWake(p), KsNoStranded'
  PROVE  pl_head[pn_plistp[p]] = p
<1>0. KsTypes /\ KsListed
  BY DEF KsInv
<1>1. PICK l \in Lists : l = pn_plistp[p]
  BY <1>0 DEF SignalledWake, KsTypes
<1>2. /\ pl_head' = [pl_head EXCEPT ![l] = pn_next[p]]
      /\ pn_plistp' = [pn_plistp EXCEPT ![p] = KsNone]
      /\ pn_next' = pn_next
  BY <1>1 DEF SignalledWake
<1>3. PICK f, n : IsList(f, n, Sleepers(l), pl_head[l], pn_next)
  BY <1>0 DEF KsListed
<1>4. PICK h, S, next : h = pl_head[l] /\ S = Sleepers(l) /\ next = pn_next
  OBVIOUS
<1>5. IsList(f, n, S, h, next)
  BY <1>3, <1>4
<1>6. p \in S
  BY <1>1, <1>4 DEF Sleepers
<1>7. SUFFICES ASSUME h # p PROVE FALSE
  BY <1>1, <1>4
<1>8. PICK j \in 1 .. n : f[j] = p
  BY <1>5, <1>6 DEF IsList
<1>9. /\ 1 \in 1 .. n /\ h = f[1] /\ h \in S /\ n \in Nat /\ j # 1
      /\ j + 1 \in 1 .. n + 1 /\ next[p] = Nth(f, n, j + 1)
  <2>1. n \in Nat /\ 1 \in 1 .. n
    BY <1>5, <1>8 DEF IsList
  <2>2. h = f[1] /\ h \in S /\ next[p] = Nth(f, n, j + 1)
    BY <1>5, <1>8, <2>1 DEF IsList, Nth
  <2> QED BY <1>7, <1>8, <2>1, <2>2
<1>10. PICK f2, n2, S2 : /\ IsList(f2, n2, S2, Nth(f, n, j + 1), next)
                         /\ \A q : q \in S2 <=> \E i \in 1 .. n : j + 1 <= i /\ f[i] = q
  <2>1. PICK k \in 1 .. n + 1 : k = j + 1
    BY <1>9
  <2>2. \E f2, n2, S2 : /\ IsList(f2, n2, S2, Nth(f, n, k), next)
                        /\ \A q : q \in S2 <=> \E i \in 1 .. n : k <= i /\ f[i] = q
    BY <1>5, ListSuffix
  <2> QED BY <2>1, <2>2
<1>11. h \notin S2
  <2>1. \A i \in 1 .. n : f[i] = h => i = 1
    BY <1>5, <1>9 DEF IsList
  <2> QED BY <1>8, <1>10, <2>1
<1>12. OnList(l)' = S2
  <2>1. pl_head'[l] = Nth(f, n, j + 1)
    BY <1>0, <1>2, <1>4, <1>9 DEF KsTypes
  <2>2. IsList(f2, n2, S2, pl_head'[l], pn_next')
    BY <1>2, <1>4, <1>10, <2>1
  <2>3. Walked'
    BY ListWalked, PTL
  <2> QED BY <2>2, <2>3 DEF Walked
<1>13. h \in Sleepers(l)'
  BY <1>0, <1>2, <1>4, <1>7, <1>9 DEF Sleepers, KsTypes
<1>14. OnList(l)' = Sleepers(l)'
  BY DEF KsNoStranded
<1> QED BY <1>11, <1>12, <1>13, <1>14

\* So does a sleep that finds a signal, of a process that is not put first.
LEMMA SleepStrands ==
  ASSUME KsInv, NEW p \in KsProcs, NEW l \in Lists, pn_plistp[p] = KsNone,
         MAKE_SLEEPING_signalled(p, l), KsNoStranded'
  PROVE  pprev(l, p) = KsNone
<1>0. KsTypes /\ KsListed /\ KsNone \notin Lists /\ KsNone \notin KsProcs
  BY ListNames DEF KsInv
<1>1. /\ pn_next' = Linked(l, p)
      /\ pl_head' = [pl_head EXCEPT ![l] = pscan(l, p)]
      /\ pn_plistp' = pn_plistp
  BY DEF MAKE_SLEEPING_signalled
<1>2. PICK f, n : IsList(f, n, Sleepers(l), pl_head[l], pn_next)
  BY <1>0 DEF KsListed
<1>3. PICK S, head, next, a, b : /\ S = Sleepers(l) /\ head = pl_head[l] /\ next = pn_next
                                 /\ a = pscan(l, p) /\ b = pprev(l, p)
  OBVIOUS
<1>4. IsList(f, n, S, head, next) /\ p \notin S /\ S \subseteq KsProcs
  BY <1>0, <1>2, <1>3 DEF Sleepers
<1>5. PICK j : Place(j, f, n, p) /\ a = Nth(f, n, j) /\ b = Nth(f, n, j - 1)
  <2>1. IsList(f, n, S, pl_head[l], pn_next)
    BY <1>2, <1>3
  <2>2. \E j : Scanned(j, f, n, l, p)
    BY <2>1, ScanIs
  <2> QED BY <1>3, <2>2 DEF Scanned
<1>6. SUFFICES ASSUME b # KsNone PROVE FALSE
  BY <1>3
<1>7. /\ n \in Nat /\ j \in 1 .. n + 1 /\ j - 1 \in 1 .. n
      /\ b = f[j - 1] /\ b \in S /\ b \in KsProcs /\ b # p
  <2>1. j - 1 \in 1 .. n /\ b = f[j - 1]
    BY <1>5, <1>6 DEF Nth
  <2>2. n \in Nat /\ b \in S
    BY <1>4, <2>1 DEF IsList
  <2> QED BY <1>4, <1>5, <2>1, <2>2 DEF Place
<1>8. PICK f2, n2, S2 : /\ IsList(f2, n2, S2, a, next)
                        /\ \A q : q \in S2 <=> \E i \in 1 .. n : j <= i /\ f[i] = q
  <2>1. j \in 1 .. n + 1
    BY <1>7
  <2>2. \E f2, n2, S2 : /\ IsList(f2, n2, S2, Nth(f, n, j), next)
                        /\ \A q : q \in S2 <=> \E i \in 1 .. n : j <= i /\ f[i] = q
    BY <1>4, <2>1, ListSuffix
  <2> QED BY <1>5, <2>2
<1>9. b \notin S2 /\ p \notin S2 /\ S2 \subseteq KsProcs
  <2>1. \A i \in 1 .. n : f[i] \in S /\ (f[i] = b => i = j - 1)
    BY <1>4, <1>7 DEF IsList
  <2>2. ~ (j <= j - 1)
    BY <1>7
  <2> QED BY <1>4, <1>8, <2>1, <2>2
<1>10. \A q \in S2 : pn_next'[q] = next[q]
  <2>1. PICK next1 : next1 = [next EXCEPT ![p] = a]
    OBVIOUS
  <2>2. pn_next' = [next1 EXCEPT ![b] = p]
    BY <1>1, <1>3, <1>6, <2>1 DEF Linked
  <2>3. next \in [KsProcs -> KsProcs \cup {KsNone}]
    BY <1>0, <1>3 DEF KsTypes
  <2>4. \A q \in KsProcs : q # p /\ q # b => pn_next'[q] = next[q]
    BY <2>1, <2>2, <2>3
  <2> QED BY <1>9, <2>4
<1>11. OnList(l)' = S2
  <2>1. pl_head'[l] = a
    BY <1>0, <1>1, <1>3 DEF KsTypes
  <2>2. PICK next2 : next2 = pn_next'
    OBVIOUS
  <2>3. IsList(f2, n2, S2, a, next2)
    BY <1>8, <1>10, <2>2, ListFrame
  <2>4. Walked'
    BY ListWalked, PTL
  <2> QED BY <2>1, <2>2, <2>3, <2>4 DEF Walked
<1>12. b \in Sleepers(l)'
  BY <1>1, <1>3, <1>7 DEF Sleepers
<1>13. OnList(l)' = Sleepers(l)'
  BY DEF KsNoStranded
<1> QED BY <1>9, <1>11, <1>12, <1>13

LEMMA OnlyHeads == KsInv /\ KsSound' => DequeuesHead
<1> SUFFICES ASSUME KsInv, KsSound' PROVE DequeuesHead
  OBVIOUS
<1>1. KsNoStranded'
  BY DEF KsSound
<1> QED BY <1>1, WakeStrands, SleepStrands DEF DequeuesHead

(***************************************************************************)
(* Sleep locks and synchronisation variables: every process that sleeps is *)
(* found by WAKE_ONE and WAKE_ALL, the test-and-set byte and sl_holder say *)
(* which process has the lock through every hand-over of SLEEP_UNLOCK, and *)
(* no SV_SIGNAL is lost, for any processes, priorities and signals, in     *)
(* every behaviour whose steps all satisfy DequeuesHead.                   *)
(***************************************************************************)
THEOREM SynchSound == KsSpec /\ [][DequeuesHead]_ksVars => []KsSound
<1>1. KsInv /\ [KsNext]_ksVars /\ [DequeuesHead]_ksVars => KsInv'
  BY KsStep
<1> QED BY <1>1, KsBegins, KsHolds, PTL DEF KsSpec

(***************************************************************************)
(* No weaker condition will do: what KERNEL_SLEEP takes for granted of a   *)
(* signalled process is exactly what keeps the package sound.  A single    *)
(* interrupted sleeper behind another one breaks it.                       *)
(***************************************************************************)
THEOREM SynchExact == KsSpec => ([]KsSound <=> [][DequeuesHead]_ksVars)
<1>1. KsInv /\ [KsNext]_ksVars /\ [DequeuesHead]_ksVars => KsInv'
  BY KsStep
<1>2. KsInv /\ KsSound' => DequeuesHead
  BY OnlyHeads
<1>3. KsInv /\ [KsNext]_ksVars /\ KsSound' => KsInv' /\ [DequeuesHead]_ksVars
  BY <1>1, <1>2
<1> QED BY <1>1, <1>3, KsBegins, KsHolds, PTL DEF KsSpec

(***************************************************************************)
(* Whoever sleeps interruptibly does so at a priority of its own above all *)
(* others.  He is then the head of his list.                               *)
(***************************************************************************)
CatchersFirst == \A p \in KsCatch : \A q \in KsProcs \ {p} : KsPri[q] < KsPri[p]

LEMMA FirstIsHead ==
  ASSUME CatchersFirst, KsInv
  PROVE  DequeuesHead
<1>0. KsTypes /\ KsListed /\ KsPlaced
  BY DEF KsInv
<1>1. ASSUME NEW p \in KsProcs, SignalledWake(p) PROVE pl_head[pn_plistp[p]] = p
  <2>1. PICK l \in Lists : l = pn_plistp[p]
    BY <1>0, <1>1 DEF SignalledWake, KsTypes
  <2>2. p \in KsCatch
    BY <1>0, <1>1 DEF SignalledWake, KsPlaced
  <2>3. PICK f, n : IsList(f, n, Sleepers(l), pl_head[l], pn_next)
    BY <1>0 DEF KsListed
  <2>4. PICK h, S : h = pl_head[l] /\ S = Sleepers(l)
    OBVIOUS
  <2>5. p \in S /\ S \subseteq KsProcs
    BY <2>1, <2>4 DEF Sleepers
  <2>6. h # KsNone /\ h \in S /\ \A q \in S : KsPri[q] <= KsPri[h]
    BY <2>3, <2>4, <2>5, ListHead
  <2>7. h = p
    <3> SUFFICES ASSUME h # p PROVE FALSE
      OBVIOUS
    <3>1. KsPri[h] < KsPri[p] /\ KsPri[p] <= KsPri[h]
      BY <2>2, <2>5, <2>6 DEF CatchersFirst
    <3>2. KsPri[h] \in Nat /\ KsPri[p] \in Nat
      BY <2>5, <2>6, KsNumbers
    <3> QED BY <3>1, <3>2
  <2> QED BY <2>1, <2>4, <2>7
<1>2. ASSUME NEW p \in KsProcs, NEW l \in Lists, pn_plistp[p] = KsNone,
             MAKE_SLEEPING_signalled(p, l)
      PROVE  pprev(l, p) = KsNone
  <2>1. p \in KsCatch /\ KsNone \notin Lists
    BY <1>2, ListNames DEF MAKE_SLEEPING_signalled
  <2>2. PICK f, n : IsList(f, n, Sleepers(l), pl_head[l], pn_next)
    BY <1>0 DEF KsListed
  <2>3. PICK j : Scanned(j, f, n, l, p)
    <3>1. PICK S : S = Sleepers(l)
      OBVIOUS
    <3>2. IsList(f, n, S, pl_head[l], pn_next)
      BY <2>2, <3>1
    <3> QED BY <3>2, ScanIs
  <2>4. \A i \in 1 .. n : StopsScan(f[i], p)
    <3>1. \A i \in 1 .. n : f[i] \in Sleepers(l)
      BY <2>2 DEF IsList
    <3>2. \A i \in 1 .. n : f[i] \in KsProcs \ {p}
      BY <1>2, <2>1, <3>1 DEF Sleepers
    <3> QED BY <2>1, <3>2 DEF StopsScan, CatchersFirst
  <2>5. j - 1 \notin 1 .. n
    <3>1. j \in 1 .. n + 1 /\ \A i \in 1 .. n : i < j => ~ StopsScan(f[i], p)
      BY <2>3 DEF Scanned, Place
    <3>2. n \in Nat
      BY <2>2 DEF IsList
    <3>3. j - 1 < j
      BY <3>1, <3>2
    <3> QED BY <2>4, <3>1, <3>3
  <2> QED BY <2>3, <2>5 DEF Scanned, Nth
<1> QED BY <1>1, <1>2 DEF DequeuesHead

(***************************************************************************)
(* One way to be sure of DequeuesHead without looking at a behaviour: the  *)
(* priority arguments of a driver's calls.                                 *)
(***************************************************************************)
THEOREM SynchSoundFirst ==
  ASSUME CatchersFirst
  PROVE  KsSpec => []KsSound
<1>1. KsInv => DequeuesHead
  BY FirstIsHead
<1>2. KsInv /\ [KsNext]_ksVars => KsInv'
  BY <1>1, KsStep
<1> QED BY <1>2, KsBegins, KsHolds, PTL DEF KsSpec

----------------------------------------------------------------------------
(* The sleep lock implements the hand-off lock.                            *)

\* What a sleep on either list is to the hand-off lock.
LEMMA SleepMaps ==
  ASSUME KsInv, NEW p \in KsProcs, NEW l \in Lists,
         pn_plistp[p] = KsNone, ksOwner # p,
         MAKE_SLEEPING(p, l) \/ MAKE_SLEEPING_signalled(p, l),
         l = "sl_plist" => ksOwner # KsNone,
         UNCHANGED ksOwner
  PROVE  SleepLock!Wait(p) \/ UNCHANGED SleepLock!HandOffVars
<1>0. KsTypes /\ KsListed
  BY DEF KsInv
<1>1. PICK W : W = Sleepers("sl_plist")
  OBVIOUS
<1>2. p \notin W
  BY <1>1, ListNames DEF Sleepers
<1>3. CASE MAKE_SLEEPING(p, l)
  <2>1. /\ Sleepers(l)' = Sleepers(l) \cup {p}
        /\ \A m \in Lists \ {l} : Sleepers(m)' = Sleepers(m)
    BY <1>0, <1>3, SleepKeeps
  <2>2. CASE l = "sl_plist"
    <3>1. Sleepers("sl_plist")' = Sleepers("sl_plist") \cup {p}
      BY <2>1, <2>2
    <3> QED BY <1>1, <1>2, <2>2, <3>1 DEF SleepLock!Wait
  <2>3. CASE l # "sl_plist"
    <3>1. Sleepers("sl_plist")' = Sleepers("sl_plist")
      BY <2>1, <2>3, ListNames
    <3> QED BY <3>1 DEF SleepLock!HandOffVars
  <2> QED BY <2>2, <2>3
<1>4. CASE MAKE_SLEEPING_signalled(p, l)
  <2>1. Sleepers("sl_plist")' = Sleepers("sl_plist")
    BY <1>4 DEF MAKE_SLEEPING_signalled, Sleepers
  <2> QED BY <2>1 DEF SleepLock!HandOffVars
<1> QED BY <1>3, <1>4

LEMMA GrantMaps ==
  ASSUME KsInv, NEW h, Grant(h), ~ sl_locked, UNCHANGED listVars
  PROVE  SleepLock!Take(h)
<1>1. ksOwner = KsNone /\ ksOwner' = h
  BY DEF KsInv, KsHeld, Grant
<1>2. Sleepers("sl_plist")' = Sleepers("sl_plist")
  BY DEF Sleepers, listVars
<1> QED BY <1>1, <1>2 DEF SleepLock!Take

\* SLEEP_UNLOCK passes the lock to a waiter of the highest priority, or frees it.
LEMMA UnlockMaps ==
  ASSUME KsInv, NEW h \in KsProcs \cup {KsIntr}, SLEEP_UNLOCK(h)
  PROVE  SleepLock!Release \/ \E w \in KsProcs : SleepLock!Pass(w)
<1>1. PICK w, W : w = pl_head["sl_plist"] /\ W = Sleepers("sl_plist")
  OBVIOUS
<1>2. ksOwner = h /\ h # KsNone /\ ksOwner' = w
  BY <1>1, ListNames DEF SLEEP_UNLOCK
<1>3. WAKE_ONE("sl_plist") /\ KsTypes /\ KsListed
  BY DEF SLEEP_UNLOCK, KsInv
<1>4. /\ Sleepers("sl_plist")' = Sleepers("sl_plist") \ {pl_head["sl_plist"]}
      /\ pl_head["sl_plist"] = KsNone => Sleepers("sl_plist") = {}
      /\ pl_head["sl_plist"] # KsNone =>
           /\ pl_head["sl_plist"] \in Sleepers("sl_plist")
           /\ \A q \in Sleepers("sl_plist") : KsPri[q] <= KsPri[pl_head["sl_plist"]]
  BY <1>3, ListNames, WakeOneKeeps
<1>5. W \subseteq KsProcs
  BY <1>1 DEF Sleepers
<1>6. CASE w = KsNone
  <2>1. Sleepers("sl_plist") = {} /\ Sleepers("sl_plist")' = {}
    BY <1>1, <1>4, <1>6
  <2> QED BY <1>2, <1>6, <2>1 DEF SleepLock!Release
<1>7. CASE w # KsNone
  <2>1. w \in W /\ \A q \in W : KsPri[q] <= KsPri[w]
    BY <1>1, <1>4, <1>7
  <2>2. w \in KsProcs
    BY <1>5, <2>1
  <2> DEFINE Level == [x \in KsProcs \cup {KsIntr} |-> IF x = KsIntr THEN 0 ELSE KsPri[x]]
  <2>3. \A q \in KsProcs : Level[q] = KsPri[q]
    BY ListNames
  <2>4. \A q \in W : Level[q] =< Level[w]
    <3> HIDE DEF Level
    <3> QED BY <1>5, <2>1, <2>2, <2>3
  <2>5. Sleepers("sl_plist")' = W \ {w}
    BY <1>1, <1>4
  <2>6. SleepLock!Pass(w)
    BY <1>1, <1>2, <2>1, <2>4, <2>5 DEF SleepLock!Pass
  <2> QED BY <2>2, <2>6
<1> QED BY <1>6, <1>7

LEMMA HandOffMaps ==
  KsInv /\ [KsNext]_ksVars => [SleepLock!HandOffNext]_(SleepLock!HandOffVars)
<1> SUFFICES ASSUME KsInv, [KsNext]_ksVars
             PROVE  SleepLock!HandOffNext \/ UNCHANGED SleepLock!HandOffVars
  OBVIOUS
<1> DEFINE Done == SleepLock!HandOffNext \/ UNCHANGED SleepLock!HandOffVars
<1>0. KsTypes /\ KsListed /\ KsPlaced /\ KsHeld
  BY DEF KsInv
<1>1. ASSUME UNCHANGED ksOwner, UNCHANGED pn_plistp PROVE Done
  <2>1. Sleepers("sl_plist")' = Sleepers("sl_plist")
    BY <1>1 DEF Sleepers
  <2> QED BY <1>1, <2>1 DEF SleepLock!HandOffVars
<1>2. ASSUME NEW h \in KsProcs \cup {KsIntr}, SleepLock!Take(h) PROVE Done
  BY <1>2 DEF SleepLock!HandOffNext
<1>3. ASSUME NEW h \in KsProcs,
             SleepLock!Wait(h) \/ SleepLock!Abandon(h) \/ SleepLock!Pass(h)
      PROVE  Done
  BY <1>3 DEF SleepLock!HandOffNext
<1>4. ASSUME SleepLock!Release PROVE Done
  BY <1>4 DEF SleepLock!HandOffNext
<1> HIDE DEF Done
<1>5. ASSUME NEW h \in KsProcs \cup {KsIntr}, SLEEP_UNLOCK(h) PROVE Done
  BY <1>3, <1>4, <1>5, UnlockMaps
<1>6. ASSUME NEW h \in KsProcs \cup {KsIntr}, SLEEP_TRYLOCK(h) PROVE Done
  <2>1. Grant(h) /\ ~ sl_locked /\ UNCHANGED listVars
    BY <1>6 DEF SLEEP_TRYLOCK
  <2> QED BY <1>2, <2>1, GrantMaps
<1>7. ASSUME NEW p \in KsProcs, SLEEP_LOCK_fast(p) PROVE Done
  <2>0. UNCHANGED listVars /\ p \in KsProcs \cup {KsIntr}
    BY <1>7 DEF SLEEP_LOCK_fast
  <2>1. CASE sl_locked
    BY <1>1, <1>7, <2>0, <2>1 DEF SLEEP_LOCK_fast, lockVars, listVars
  <2>2. CASE ~ sl_locked
    <3>1. Grant(p)
      BY <1>7, <2>2 DEF SLEEP_LOCK_fast
    <3> QED BY <1>2, <2>0, <2>2, <3>1, GrantMaps
  <2> QED BY <2>1, <2>2
<1>8. ASSUME NEW p \in KsProcs, SLEEP_LOCK(p) PROVE Done
  <2>1. ksPc[p] = "hard" /\ pn_plistp[p] = KsNone /\ ksOwner # p
    BY <1>0, <1>8 DEF SLEEP_LOCK, KsPlaced
  <2>2. CASE ~ sl_locked
    <3>1. Grant(p) /\ UNCHANGED listVars /\ p \in KsProcs \cup {KsIntr}
      BY <1>8, <2>2 DEF SLEEP_LOCK, MustSleep
    <3> QED BY <1>2, <2>2, <3>1, GrantMaps
  <2>3. CASE sl_locked
    <3>1. PICK l \in Lists : l = "sl_plist"
      BY ListNames
    <3>2. /\ MAKE_SLEEPING(p, l) \/ MAKE_SLEEPING_signalled(p, l)
          /\ UNCHANGED ksOwner
      BY <1>8, <2>3, <3>1 DEF SLEEP_LOCK, MustSleep, lockVars
    <3>3. ksOwner # KsNone
      BY <1>0, <2>3 DEF KsHeld
    <3>4. SleepLock!Wait(p) \/ UNCHANGED SleepLock!HandOffVars
      BY <2>1, <3>2, <3>3, SleepMaps
    <3> QED BY <1>3, <3>4 DEF Done
  <2> QED BY <2>2, <2>3
<1>9. ASSUME NEW p \in KsProcs, SV_WAIT(p) PROVE Done
  <2>1. pn_plistp[p] = KsNone /\ ksOwner # p /\ UNCHANGED ksOwner
    BY <1>0, <1>9 DEF SV_WAIT, KsPlaced, lockVars
  <2>2. CASE ksItems > 0
    BY <1>1, <1>9, <2>1, <2>2 DEF SV_WAIT, listVars
  <2>3. CASE ~ (ksItems > 0)
    <3>1. PICK l \in Lists : l = "sv_plist" /\ l # "sl_plist"
      BY ListNames
    <3>2. MAKE_SLEEPING(p, l) \/ MAKE_SLEEPING_signalled(p, l)
      BY <1>9, <2>3, <3>1 DEF SV_WAIT
    <3>3. SleepLock!Wait(p) \/ UNCHANGED SleepLock!HandOffVars
      BY <2>1, <3>1, <3>2, SleepMaps
    <3> QED BY <1>3, <3>3 DEF Done
  <2> QED BY <2>2, <2>3
<1>10. ASSUME NEW p \in KsProcs, SignalledWake(p) PROVE Done
  <2>1. /\ pn_plistp' = [pn_plistp EXCEPT ![p] = KsNone] /\ UNCHANGED ksOwner
    BY <1>10 DEF SignalledWake, lockVars
  <2>2. PICK W : W = Sleepers("sl_plist")
    OBVIOUS
  <2>3. Sleepers("sl_plist")' = Sleepers("sl_plist") \ {p}
    BY <1>0, <2>1, ListNames DEF Sleepers, KsTypes
  <2>4. CASE p \in W
    <3>1. SleepLock!Abandon(p)
      BY <2>1, <2>2, <2>3, <2>4 DEF SleepLock!Abandon
    <3> QED BY <1>3, <3>1
  <2>5. CASE p \notin W
    <3>1. Sleepers("sl_plist")' = Sleepers("sl_plist")
      BY <2>2, <2>3, <2>5
    <3> QED BY <2>1, <3>1 DEF Done, SleepLock!HandOffVars
  <2> QED BY <2>4, <2>5
<1>11. ASSUME NEW p \in KsProcs, SLEEP_LOCK_woken(p) \/ proc_signal(p) PROVE Done
  BY <1>1, <1>11 DEF SLEEP_LOCK_woken, proc_signal, lockVars, listVars
<1>12. ASSUME SV_SIGNAL PROVE Done
  <2>1. /\ Sleepers("sl_plist")' = Sleepers("sl_plist")
    BY <1>0, <1>12, ListNames, WakeOneKeeps DEF SV_SIGNAL
  <2>2. UNCHANGED ksOwner
    BY <1>12 DEF SV_SIGNAL, lockVars
  <2> QED BY <2>1, <2>2 DEF Done, SleepLock!HandOffVars
<1>13. ASSUME SV_BROADCAST PROVE Done
  <2>1. /\ Sleepers("sl_plist")' = Sleepers("sl_plist")
    BY <1>0, <1>13, ListNames, WakeAllKeeps DEF SV_BROADCAST
  <2>2. UNCHANGED ksOwner
    BY <1>13 DEF SV_BROADCAST, lockVars
  <2> QED BY <2>1, <2>2 DEF Done, SleepLock!HandOffVars
<1>14. ASSUME UNCHANGED ksVars PROVE Done
  BY <1>1, <1>14 DEF ksVars
<1>15. Done
  <2>1. ASSUME NEW p \in KsProcs,
               \/ SLEEP_LOCK_fast(p) \/ SLEEP_LOCK(p) \/ SLEEP_LOCK_woken(p)
               \/ SLEEP_TRYLOCK(p) \/ SLEEP_UNLOCK(p)
               \/ SV_WAIT(p) \/ SignalledWake(p) \/ proc_signal(p)
        PROVE  Done
    <3>1. p \in KsProcs \cup {KsIntr}
      OBVIOUS
    <3> QED BY <1>5, <1>6, <1>7, <1>8, <1>9, <1>10, <1>11, <2>1, <3>1
  <2> QED BY <1>5, <1>6, <1>12, <1>13, <1>14, <2>1 DEF KsNext
<1> QED BY <1>15 DEF Done

(***************************************************************************)
(* In such behaviours the sleep lock implements the hand-off lock:         *)
(* SLEEP_UNLOCK gives it to a waiter of the highest priority, and nobody   *)
(* takes it while somebody waits.                                          *)
(***************************************************************************)
THEOREM SynchImplements == KsSpec /\ [][DequeuesHead]_ksVars => KsImplementsHandOff
<1>1. KsInv /\ [KsNext]_ksVars /\ [DequeuesHead]_ksVars => KsInv'
  BY KsStep
<1>2. KsInv /\ [KsNext]_ksVars => [SleepLock!HandOffNext]_(SleepLock!HandOffVars)
  BY HandOffMaps
<1>3. KsInit => SleepLock!HandOffInit
  BY ListNames DEF KsInit, SleepLock!HandOffInit, Sleepers
<1> QED BY <1>1, <1>2, <1>3, KsBegins, PTL DEF KsSpec, KsImplementsHandOff, SleepLock!HandOffSpec
====
