---- MODULE Sem ----
(***************************************************************************)
(* System V semaphores, conf/sem/src/sem386.c.  A call runs from one sleep *)
(* to the next without another process in between: the gate __sem_gate is  *)
(* never held across a sleep, so it never makes anybody wait and is left   *)
(* out.  What may change is everything, while usemop sleeps in semwait.    *)
(***************************************************************************)
EXTENDS Integers, Sequences, FiniteSets, Functions

CONSTANTS
  SemProcs,
  SemSets,       \* the identifiers 0 .. SEMMNI - 1
  NSEMS,         \* semaphores per set
  SEMVMX,
  SemOps,        \* the arrays a process passes: sequences of [num, op, undo, nowait]
  SemVals,       \* the values SETVAL and SETALL are called with
  SemReaders, SemAlterers,  \* the processes ipc_lack_perm lets read and alter
  SemFresh,      \* what un_aoe may hold in memory that kalloc returns
  SemFull,       \* whether kalloc may fail: a subset of BOOLEAN
  SemCtl,        \* the commands given to usemctl that change something
  MaxSets,       \* bound on the times a set is created
  MaxCalls       \* bound on the calls of usemop by a process

USHORT == 65536

ASSUME SemAssumption ==
  /\ NSEMS \in Nat \ {0} /\ SEMVMX \in Nat \ {0} /\ SEMVMX < 32768 /\ {MaxSets, MaxCalls} \subseteq Nat
  /\ IsFiniteSet(SemProcs) /\ Cardinality(SemProcs) < USHORT   \* cpid is below NPID
  /\ \A ops \in SemOps : ops \in Seq([num : Nat, op : Int, undo : BOOLEAN, nowait : BOOLEAN])
                          /\ ops # << >>
  /\ SemVals \subseteq 0 .. SEMVMX
  /\ SemFresh \subseteq Int /\ SemFull \subseteq BOOLEAN
  /\ SemCtl \subseteq {"SETVAL", "SETALL", "IPC_RMID"}

SemNums == 0 .. NSEMS - 1
Chans == SemNums \X {"n", "z"}   \* & semncnt and & semzcnt of a semaphore

VARIABLES
  semAlloc,   \* semAlloc[s]: __IPC_ALLOC
  semGen,     \* semGen[s]: how often s was created; names its sem_base
  semval, semcnt,    \* semcnt[s][n, "n"] is semncnt, semcnt[s][n, "z"] semzcnt
  semu,       \* semu[p]: the undo list, a function from <<id, num>> to un_aoe
  semPc,      \* semPc[p]: "run", "sleep", "woken" or "intr" (a signal came)
  semArg,     \* semArg[p]: what the usemop of p sleeps with
  semCalls,   \* semCalls[p]: how often p called usemop
  semPerm     \* history: the value of each semaphore without what will be undone

semVars == <<semAlloc, semGen, semval, semcnt, semu, semPc, semArg, semCalls, semPerm>>

NoArg == [set |-> 0, gen |-> 0, ops |-> << >>, chan |-> <<0, "n">>]

SemInit ==
  /\ semAlloc = [s \in SemSets |-> FALSE]
  /\ semGen = [s \in SemSets |-> 0]
  /\ semval = [s \in SemSets |-> [n \in SemNums |-> 0]]
  /\ semcnt = [s \in SemSets |-> [c \in Chans |-> 0]]
  /\ semu = [p \in SemProcs |-> << >>]
  /\ semPc = [p \in SemProcs |-> "run"]
  /\ semArg = [p \in SemProcs |-> NoArg]
  /\ semCalls = [p \in SemProcs |-> 0]
  /\ semPerm = [s \in SemSets |-> [n \in SemNums |-> 0]]

\* wakeup of the channels chans of set s, as the new state of every process.
SemWoken(s, chans, pcs) ==
  [q \in SemProcs |->
     IF /\ pcs[q] = "sleep" /\ semArg[q].set = s /\ semArg[q].gen = semGen[s]
        /\ semArg[q].chan \in chans
     THEN "woken" ELSE pcs[q]]

\* The channels of chans that somebody is counted on.
Counted(cnt, chans) == {c \in chans : cnt[c] # 0}

----------------------------------------------------------------------------
\* iSubAdj: the undo list u after v is subtracted from the entry of key, and
\* whether that worked.  A new entry starts from what the memory held.
iSubAdj(u, key, v, fresh, full) ==
  IF key \in DOMAIN u
  THEN IF u[key] - v \in -SEMVMX .. SEMVMX
       THEN [ok |-> TRUE, u |-> [u EXCEPT ![key] = @ - v]]
       ELSE [ok |-> FALSE, u |-> u]
  ELSE IF full THEN [ok |-> FALSE, u |-> u]
       ELSE [ok |-> TRUE, u |-> [k \in DOMAIN u \cup {key} |-> IF k = key THEN fresh - v ELSE u[k]]]

\* Mutant: the undo list keeps the entries of operations that were taken back.
UnAdjNot(u, s, o) == u

\* The undo list with the entry of operation o taken back.
UnAdj(u, s, o) ==
  IF o.undo THEN iSubAdj(u, <<s, o.num>>, -o.op, 0, TRUE).u ELSE u

\* semundo: takes back the first k operations.  The value changed is that of
\* the semaphore at the operation's place in the array, not of sem_num.
semundo(s, ops, k, val, u) ==
  LET back[i \in 0 .. k] ==
        IF i = 0 THEN [val |-> val, u |-> u]
        ELSE [val |-> [back[i - 1].val EXCEPT ![i - 1] = (@ - ops[i].op) % USHORT],
              u |-> UnAdj(back[i - 1].u, s, ops[i])]
  IN back[k]

\* The state of a call of usemop: its copy of the values and of the undo
\* list, the channels it woke, and whether it goes on, failed or must wait.
Going(val, u, woke) == [st |-> "go", val |-> val, u |-> u, woke |-> woke,
                        chan |-> <<0, "n">>]
Stopped(s, ops, k, a, st, chan) ==
  LET b == semundo(s, ops, k, a.val, a.u)
  IN [a EXCEPT !.val = b.val, !.u = b.u, !.st = st, !.chan = chan]
Blocked(s, ops, i, a, kind) ==
  Stopped(s, ops, i - 1, a, IF ops[i].nowait THEN "fail" ELSE "wait", <<ops[i].num, kind>>)
Denied(a) == [a EXCEPT !.st = "fail"]

\* sem_oper < 0.  When iSubAdj fails, the value is already lower and semundo
\* takes back only the operations before.
Decrement(p, s, ops, i, a, cnt, fresh, full) ==
  LET o == ops[i]
      val == [a.val EXCEPT ![o.num] = @ + o.op]
      b == [a EXCEPT !.val = val,
                     !.woke = IF val[o.num] = 0
                              THEN @ \cup Counted(cnt, {<<o.num, "z">>}) ELSE @]
      r == iSubAdj(a.u, <<s, o.num>>, o.op, fresh, full)
  IN IF p \notin SemAlterers THEN Denied(a)
     ELSE IF a.val[o.num] < -o.op THEN Blocked(s, ops, i, a, "n")
     ELSE IF ~o.undo THEN b
     ELSE IF r.ok THEN [b EXCEPT !.u = r.u]
     ELSE Stopped(s, ops, i - 1, b, "fail", a.chan)

\* sem_oper == 0.  Who may not read but may alter leaves what was done.
TestZero(p, s, ops, i, a) ==
  IF p \notin SemReaders
  THEN IF p \in SemAlterers THEN Denied(a) ELSE Stopped(s, ops, i - 1, a, "fail", a.chan)
  ELSE IF a.val[ops[i].num] # 0 THEN Blocked(s, ops, i, a, "z") ELSE a

\* sem_oper > 0.
Increment(p, s, ops, i, a, cnt, fresh, full) ==
  LET o == ops[i]
      r == iSubAdj(a.u, <<s, o.num>>, o.op, fresh, full)
      b == IF o.undo THEN [a EXCEPT !.u = r.u] ELSE a
      c == Stopped(s, ops, i - 1, b, "fail", a.chan)
  IN IF p \notin SemAlterers THEN Denied(a)
     ELSE IF o.undo /\ ~r.ok THEN Stopped(s, ops, i - 1, a, "fail", a.chan)
     ELSE IF a.val[o.num] > SEMVMX - o.op THEN [c EXCEPT !.u = UnAdj(c.u, s, o)]
     ELSE [b EXCEPT !.val[o.num] = @ + o.op,
                    !.woke = @ \cup Counted(cnt, {<<o.num, "n">>})]

\* One turn of the loop of usemop: nothing once the call has stopped.
SemStep(p, s, ops, i, a, cnt, fresh, full) ==
  IF a.st # "go" THEN a
  ELSE IF ops[i].num \notin SemNums THEN Stopped(s, ops, i - 1, a, "fail", a.chan)
  ELSE IF ops[i].op < 0 THEN Decrement(p, s, ops, i, a, cnt, fresh, full)
  ELSE IF ops[i].op = 0 THEN TestZero(p, s, ops, i, a)
  ELSE Increment(p, s, ops, i, a, cnt, fresh, full)

\* The loop of usemop over the array, from the values, counts and undo list
\* it finds.
SemTry(p, s, ops, cnt, fresh, full) ==
  LET a[i \in 0 .. Len(ops)] ==
        IF i = 0 THEN Going(semval[s], semu[p], {})
        ELSE SemStep(p, s, ops, i, a[i - 1], cnt, fresh, full)
  IN a[Len(ops)]

----------------------------------------------------------------------------
\* What a completed array leaves when all it must undo is undone.
Lasting(ops, n) ==
  SumFunctionOnSet([i \in DOMAIN ops |-> ops[i].op],
                   {i \in DOMAIN ops : ops[i].num = n /\ ~ops[i].undo})

\* One pass of usemop from TRY_AGAIN to its return or its sleep in semwait.
Attempt(p, s, ops, cnt) ==
  \E fresh \in SemFresh, full \in SemFull :
    LET r == SemTry(p, s, ops, cnt, fresh, full) IN
    /\ semval' = [semval EXCEPT ![s] = r.val]
    /\ semu' = [semu EXCEPT ![p] = r.u]
    /\ semPc' = [SemWoken(s, r.woke, semPc) EXCEPT ![p] = IF r.st = "wait" THEN "sleep" ELSE "run"]
    /\ semcnt' = [semcnt EXCEPT ![s] = IF r.st = "wait" THEN [cnt EXCEPT ![r.chan] = @ + 1] ELSE cnt]
    /\ semArg' = [semArg EXCEPT ![p] =
                    IF r.st = "wait"
                    THEN [set |-> s, gen |-> semGen[s], ops |-> ops, chan |-> r.chan]
                    ELSE NoArg]
    /\ semPerm' = IF r.st = "go"
                  THEN [semPerm EXCEPT ![s] = [n \in SemNums |-> @[n] + Lasting(ops, n)]]
                  ELSE semPerm
    /\ UNCHANGED <<semAlloc, semGen>>

usemop(p) ==
  /\ semPc[p] = "run" /\ semCalls[p] < MaxCalls
  /\ semCalls' = [semCalls EXCEPT ![p] = @ + 1]
  /\ \E s \in SemSets, ops \in SemOps :
       semAlloc[s] /\ Attempt(p, s, ops, semcnt[s])

SemSignal(p) ==
  /\ semPc[p] = "sleep"
  /\ semPc' = [semPc EXCEPT ![p] = "intr"]
  /\ UNCHANGED <<semAlloc, semGen, semval, semcnt, semu, semArg, semCalls, semPerm>>

Returns(p) ==
  /\ semPc' = [semPc EXCEPT ![p] = "run"]
  /\ semArg' = [semArg EXCEPT ![p] = NoArg]
  /\ UNCHANGED <<semAlloc, semGen, semval, semu, semCalls, semPerm>>

\* Mutant: a count is only lowered for a process that was woken.
LoweredWoken(p, s) ==
  IF semPc[p] = "intr" THEN semcnt[s]
  ELSE [semcnt[s] EXCEPT ![semArg[p].chan] = (@ - 1) % USHORT]

\* The count semwait lowers when it returns.
Lowered(p, s) == [semcnt[s] EXCEPT ![semArg[p].chan] = (@ - 1) % USHORT]

\* semwait after x_sleep: the set is gone.
semwaitGone(p) ==
  /\ semPc[p] \in {"woken", "intr"}
  /\ ~semAlloc[semArg[p].set]
  /\ Returns(p)
  /\ UNCHANGED semcnt

\* semwait after x_sleep, interrupted.  When the identifier is in use again,
\* the count is in memory that was freed, and may be part of the new set.
semwaitIntr(p) ==
  LET s == semArg[p].set IN
  /\ semPc[p] = "intr"
  /\ semAlloc[s]
  /\ \/ semcnt' = [semcnt EXCEPT ![s] = Lowered(p, s)]
     \/ semArg[p].gen # semGen[s] /\ UNCHANGED semcnt
  /\ Returns(p)

\* semwait after x_sleep, woken: usemop tries the whole array again.
semwaitRetry(p) ==
  LET s == semArg[p].set IN
  /\ semPc[p] = "woken"
  /\ semAlloc[s]
  /\ UNCHANGED semCalls
  /\ \/ Attempt(p, s, semArg[p].ops, Lowered(p, s))
     \/ semArg[p].gen # semGen[s] /\ Attempt(p, s, semArg[p].ops, semcnt[s])

----------------------------------------------------------------------------
\* usemget, when it creates a set: kalloc gives it a new sem_base.
usemget(p, s) ==
  /\ semPc[p] = "run"
  /\ ~semAlloc[s] /\ semGen[s] < MaxSets
  /\ semAlloc' = [semAlloc EXCEPT ![s] = TRUE]
  /\ semGen' = [semGen EXCEPT ![s] = @ + 1]
  /\ semval' = [semval EXCEPT ![s] = [n \in SemNums |-> 0]]
  /\ semcnt' = [semcnt EXCEPT ![s] = [c \in Chans |-> 0]]
  /\ semPerm' = [semPerm EXCEPT ![s] = [n \in SemNums |-> 0]]
  /\ UNCHANGED <<semu, semPc, semArg, semCalls>>

\* vClearAdj: the entries of the semaphores nums of s are zeroed in all lists.
vClearAdj(s, nums) ==
  [q \in SemProcs |->
     [key \in DOMAIN semu[q] |-> IF key \in {s} \X nums THEN 0 ELSE semu[q][key]]]

\* The waiters that SETVAL tells.
SetvalWakes(s, n, v) == Counted(semcnt[s], {<<n, IF v = 0 THEN "z" ELSE "n">>})

usemctlSETVAL(p, s, n, v) ==
  /\ "SETVAL" \in SemCtl /\ p \in SemAlterers
  /\ semPc[p] = "run" /\ semAlloc[s]
  /\ semval' = [semval EXCEPT ![s][n] = v]
  /\ semPerm' = [semPerm EXCEPT ![s][n] = v]
  /\ semu' = vClearAdj(s, {n})
  /\ semPc' = SemWoken(s, SetvalWakes(s, n, v), semPc)
  /\ UNCHANGED <<semAlloc, semGen, semcnt, semArg, semCalls>>

\* SETALL stops at the first value it cannot have, k, and tells nobody.
usemctlSETALL(p, s, val, k) ==
  /\ "SETALL" \in SemCtl /\ p \in SemAlterers
  /\ semPc[p] = "run" /\ semAlloc[s]
  /\ semval' = [semval EXCEPT ![s] = [n \in SemNums |-> IF n < k THEN val[n] ELSE @[n]]]
  /\ semPerm' = [semPerm EXCEPT ![s] = [n \in SemNums |-> IF n < k THEN val[n] ELSE @[n]]]
  /\ semu' = vClearAdj(s, 0 .. k - 1)
  /\ UNCHANGED <<semAlloc, semGen, semcnt, semPc, semArg, semCalls>>

RmidWakes(s) == Counted(semcnt[s], Chans)

\* IPC_RMID: everybody asleep is woken, the undo lists stay as they are.
usemctlRMID(p, s) ==
  /\ "IPC_RMID" \in SemCtl
  /\ semPc[p] = "run" /\ semAlloc[s]
  /\ semAlloc' = [semAlloc EXCEPT ![s] = FALSE]
  /\ semPc' = SemWoken(s, RmidWakes(s), semPc)
  /\ UNCHANGED <<semGen, semval, semcnt, semu, semArg, semCalls, semPerm>>

\* semAllAdjust, called by pexit: the values move without a wakeup.  What it
\* adds for a set that is gone goes to freed memory.  Another process takes
\* the place of p.
semAllAdjust(p) ==
  /\ semPc[p] = "run" /\ semu[p] # << >>
  /\ semval' = [s \in SemSets |->
                  IF ~semAlloc[s] THEN semval[s] ELSE
                  [n \in SemNums |-> IF <<s, n>> \in DOMAIN semu[p]
                                     THEN (semval[s][n] + semu[p][<<s, n>>]) % USHORT
                                     ELSE semval[s][n]]]
  /\ semu' = [semu EXCEPT ![p] = << >>]
  /\ UNCHANGED <<semAlloc, semGen, semcnt, semPc, semArg, semCalls, semPerm>>

SemNext ==
  \E p \in SemProcs :
    \/ usemop(p)
    \/ SemSignal(p)
    \/ semwaitGone(p)
    \/ semwaitIntr(p)
    \/ semwaitRetry(p)
    \/ semAllAdjust(p)
    \/ \E s \in SemSets :
         \/ usemget(p, s)
         \/ \E n \in SemNums, v \in SemVals : usemctlSETVAL(p, s, n, v)
         \/ \E val \in [SemNums -> SemVals], k \in 1 .. NSEMS : usemctlSETALL(p, s, val, k)
         \/ usemctlRMID(p, s)

SemSpec == SemInit /\ [][SemNext]_semVars

----------------------------------------------------------------------------
Sleepers(s, c) ==
  {p \in SemProcs : /\ semPc[p] # "run" /\ semArg[p].set = s
                    /\ semArg[p].gen = semGen[s] /\ semArg[p].chan = c}

\* semncnt and semzcnt, which usemop and usemctl look at before they call
\* wakeup, count exactly the processes inside semwait, through signals,
\* retries and removals.
SemCountsExact ==
  \A s \in SemSets : semAlloc[s] =>
    \A c \in Chans : semcnt[s][c] = Cardinality(Sleepers(s, c))

\* What the undo list u holds for semaphore n of s, and what all lists do.
Due(u, s, n) == IF <<s, n>> \in DOMAIN u THEN u[<<s, n>>] ELSE 0
AllDue(s, n) == SumFunctionOnSet([p \in SemProcs |-> Due(semu[p], s, n)], SemProcs)

\* What is due to be undone at exit and what semaphores hold add up to what
\* completed operations without SEM_UNDO made: arrays take effect as a whole
\* or not at all, and the undo lists record exactly what was done.
SemUndoBalance ==
  \A s \in SemSets : semAlloc[s] =>
    \A n \in SemNums : (semval[s][n] + AllDue(s, n)) % USHORT = semPerm[s][n] % USHORT

\* A process asleep on a semaphore whose set was removed is woken, so that it
\* can return EIDRM.
SemRemovedWakes ==
  \A p \in SemProcs : semPc[p] = "sleep" =>
    semAlloc[semArg[p].set] /\ semArg[p].gen = semGen[semArg[p].set]

\* Whether the first operation that held p up would still hold it up.
StillHeld(p) ==
  LET v == semval[semArg[p].set][semArg[p].chan[1]] IN
  IF semArg[p].chan[2] = "z" THEN v # 0
  ELSE \E i \in DOMAIN semArg[p].ops :
         semArg[p].ops[i].num = semArg[p].chan[1] /\ v < -semArg[p].ops[i].op

\* The counts usemop and usemctl rely on are exact, and so nobody sleeps for a
\* semaphore whose set is gone.
SemExact == SemCountsExact /\ SemRemovedWakes

\* "Wake up waiting processes": nobody sleeps for a semaphore that would let
\* it go on.  Not an invariant: SETALL and the undo of an exiting process wake
\* nobody.
SemNoLostWakeup == \A p \in SemProcs : semPc[p] = "sleep" => StillHeld(p)
====
