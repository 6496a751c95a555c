---- MODULE DdiTime ----
(***************************************************************************)
(* The DDI/DKI timeouts of coh.386/lib/ddi_time.c: the delta queue that    *)
(* CHECK_TIMEOUT counts down, RUN_TIMEOUTS that calls the expired          *)
(* functions with the queue unlocked and frees the cells, and untimeout    *)
(* with its ticket protocol.                                               *)
(*                                                                         *)
(* The queue from td_run on is a sequence of cells; td_first is the        *)
(* position after the expired ones.  The global basic lock makes           *)
(* everything between TIMEOUT_GLOBAL_LOCK and TIMEOUT_GLOBAL_UNLOCK one    *)
(* step.  The code is written for several CPUs and so is the model;        *)
(* COHERENT runs it with one, where untimeout must not be called by what   *)
(* has interrupted the function it cancels.  Identifiers are not reused.   *)
(***************************************************************************)
EXTENDS Naturals, Sequences, FiniteSets, SequencesExt, FiniteSetsExt

CONSTANTS
  TdCpus,       \* processors
  TdCells,      \* timeout cells, allocated in any order, each once
  TdLocked,     \* cells of ltimeout: a basic lock has to be acquired
  TdTicks,      \* the delays asked for
  TdCallers,    \* contexts that call untimeout
  TdNone,       \* no cell
  MaxTick,      \* bound: clock ticks
  MaxTicket     \* bound: tickets of a cell

ASSUME TdAssumption ==
  /\ IsFiniteSet(TdCpus) /\ IsFiniteSet(TdCells)
  /\ TdLocked \subseteq TdCells
  /\ TdTicks \subseteq Nat
  /\ TdNone \notin TdCells
  /\ MaxTick \in Nat
  /\ MaxTicket \in Nat

VARIABLES
  tdQueue,      \* the cells from td_run on
  tdExpired,    \* how many of them come before td_first
  t_delta,      \* t_delta[c]
  t_ticket,     \* t_ticket[c]
  t_holder,     \* t_ticket_holder[c]
  t_cpu,        \* t_cpu[c]
  tdRun,        \* tdRun[k]: the cell whose function RUN_TIMEOUTS calls on k
  tdFailed,     \* tdFailed[k]: lock_failed of the RUN_TIMEOUTS running on k
  dcRun,        \* dcRun[k]: dc_run_timeouts
  dcDefint,     \* CPUs with RUN_TIMEOUTS in their dc_defint table
  dcDefproc,    \* CPUs with RUN_TIMEOUTS in their dc_defproc table
  tdWait,       \* tdWait[u]: the cell and ticket untimeout of u waits with
  tdNow,        \* history: clock ticks so far
  tdDue,        \* history: tdDue[c], the tick c has to run at
  tdStarted,    \* history: cells whose function has been called
  tdCancelled   \* history: cells whose untimeout has returned

tdVars == <<tdQueue, tdExpired, t_delta, t_ticket, t_holder, t_cpu, tdRun,
            tdFailed, dcRun, dcDefint, dcDefproc, tdWait, tdNow, tdDue,
            tdStarted, tdCancelled>>

tdHist == <<tdNow, tdDue, tdStarted, tdCancelled>>

\* timeoutinit and the zeroed global data.
TdInit ==
  /\ tdQueue = <<>>
  /\ tdExpired = 0
  /\ t_delta = [c \in TdCells |-> 0]
  /\ t_ticket = [c \in TdCells |-> 0]
  /\ t_holder = [c \in TdCells |-> 0]
  /\ t_cpu = [c \in TdCells |-> TdNone]
  /\ tdRun = [k \in TdCpus |-> TdNone]
  /\ tdFailed = [k \in TdCpus |-> FALSE]
  /\ dcRun = [k \in TdCpus |-> FALSE]
  /\ dcDefint = {}
  /\ dcDefproc = {}
  /\ tdWait = [u \in TdCallers |-> <<>>]
  /\ tdNow = 0
  /\ tdDue = [c \in TdCells |-> 0]
  /\ tdStarted = {}
  /\ tdCancelled = {}

Queued == {tdQueue[i] : i \in DOMAIN tdQueue}

\* The ticks the cells up to position i are away from now.
Delay(i) == FoldLeft(LAMBDA sum, c : sum + t_delta[c], 0, SubSeq(tdQueue, 1, i))

\* The scan of QUEUE_TIMEOUT: the first cell that comes later than ticks.
Place(ticks) ==
  LET later == {i \in DOMAIN tdQueue : ticks < Delay(i)} IN
  IF later = {} THEN Len(tdQueue) + 1 ELSE Min(later)

\* t_delta of the cell the new one is put in front of.
Shortened(i, ticks) ==
  IF i > Len(tdQueue) THEN t_delta
  ELSE [t_delta EXCEPT ![tdQueue[i]] = Delay(i) - ticks]

(***************************************************************************)
(* QUEUE_TIMEOUT, by way of itimeout and ltimeout.  scan = td_first is the *)
(* only case in which td_first moves to the new cell.                      *)
(***************************************************************************)
QUEUE_TIMEOUT(c, n) ==
  LET ticks == IF n = 0 THEN 1 ELSE n
      i == Place(ticks)
  IN
  /\ c \notin Queued \cup tdStarted \cup tdCancelled
  /\ tdDue[c] = 0
  /\ tdQueue' = InsertAt(tdQueue, i, c)
  /\ t_delta' = [Shortened(i, ticks) EXCEPT ![c] = ticks - Delay(i - 1)]
  /\ tdDue' = [tdDue EXCEPT ![c] = tdNow + ticks]
  /\ UNCHANGED <<tdExpired, t_ticket, t_holder, t_cpu, tdRun, tdFailed, dcRun,
                 dcDefint, dcDefproc, tdWait, tdNow, tdStarted, tdCancelled>>

\* SCHEDULE_TIMEOUT for every cell in S, on the CPU k.
SCHEDULE_TIMEOUT(S, k) ==
  LET bound == [c \in TdCells |->
                  IF c \in S /\ t_cpu[c] = TdNone THEN k ELSE t_cpu[c]]
      cpus == {bound[c] : c \in S}
  IN
  /\ t_cpu' = bound
  /\ dcRun' = [d \in TdCpus |-> dcRun[d] \/ d \in cpus]
  /\ dcDefint' = dcDefint \cup {d \in cpus : ~dcRun[d]}

\* CHECK_TIMEOUT: one tick, on the CPU k.
CHECK_TIMEOUT(k) ==
  LET first == tdExpired + 1
      counted == [t_delta EXCEPT ![tdQueue[first]] = @ - 1]
      hit == {j \in first .. Len(tdQueue) :
                \A i \in first .. j : counted[tdQueue[i]] = 0}
  IN
  /\ tdNow < MaxTick
  /\ tdNow' = tdNow + 1
  /\ IF first > Len(tdQueue)
     THEN UNCHANGED <<t_delta, tdExpired, t_cpu, dcRun, dcDefint>>
     ELSE /\ t_delta' = counted
          /\ tdExpired' = tdExpired + Cardinality(hit)
          /\ SCHEDULE_TIMEOUT({tdQueue[j] : j \in hit}, k)
  /\ UNCHANGED <<tdQueue, t_ticket, t_holder, tdRun, tdFailed, dcDefproc, tdWait,
                 tdDue, tdStarted, tdCancelled>>

\* Mutant of Runnable: cells that have been cancelled are called as well.
RunnableAny(i, k) == t_cpu[tdQueue[i]] = k /\ tdQueue[i] \notin tdStarted

\* RUN_TIMEOUTS on k calls this expired cell, if its lock is free.
Runnable(i, k) == t_cpu[tdQueue[i]] = k /\ t_ticket[tdQueue[i]] = 0

\* The cell may be freed: run or cancelled, and nobody holds a ticket.
Done(i, holder) ==
  holder[tdQueue[i]] = t_ticket[tdQueue[i]] /\ t_ticket[tdQueue[i]] # 0

\* RUN_TIMEOUTS has to come again.
Again(failed, waiting) == failed \/ waiting

(***************************************************************************)
(* RUN_TIMEOUTS on the CPU k from position `from' on, with the lock held:  *)
(* up to the next function call, or to the end of the expired cells, where *)
(* the cells that are done are taken off and freed.                        *)
(***************************************************************************)
RunCall(k, from, failed, holder) ==
  \E i \in from .. tdExpired :
    /\ Runnable(i, k)
    /\ \A j \in from .. i - 1 : Runnable(j, k) => tdQueue[j] \in TdLocked
    /\ tdRun' = [tdRun EXCEPT ![k] = tdQueue[i]]
    /\ t_ticket' = [t_ticket EXCEPT ![tdQueue[i]] = 1]
    /\ t_holder' = holder
    /\ tdFailed' = [tdFailed EXCEPT ![k] =
                      failed \/ \E j \in from .. i - 1 : Runnable(j, k)]
    /\ tdStarted' = tdStarted \cup {tdQueue[i]}
    /\ UNCHANGED <<tdQueue, tdExpired, t_delta, t_cpu, dcRun, dcDefproc, tdWait,
                   tdNow, tdDue, tdCancelled>>

RunEnd(k, from, failed, holder) ==
  LET skipped == \E j \in from .. tdExpired : Runnable(j, k)
      done == {n \in 0 .. tdExpired : \A i \in 1 .. n : Done(i, holder)}
      n == Max(done)
      waiting == n < tdExpired /\ holder[tdQueue[n + 1]] # t_ticket[tdQueue[n + 1]]
      again == Again(failed \/ skipped, waiting)
  IN
  /\ \A j \in from .. tdExpired : Runnable(j, k) => tdQueue[j] \in TdLocked
  /\ tdRun' = [tdRun EXCEPT ![k] = TdNone]
  /\ tdFailed' = [tdFailed EXCEPT ![k] = FALSE]
  /\ t_holder' = holder
  /\ tdQueue' = SubSeq(tdQueue, n + 1, Len(tdQueue))
  /\ tdExpired' = tdExpired - n
  /\ dcRun' = [dcRun EXCEPT ![k] = again]
  /\ dcDefproc' = IF again THEN dcDefproc \cup {k} ELSE dcDefproc
  /\ UNCHANGED <<t_delta, t_ticket, t_cpu, tdWait, tdHist>>

\* return_from_interrupt runs RUN_TIMEOUTS from dc_defint.  Nothing runs the
\* dc_defproc tables.
RUN_TIMEOUTS(k) ==
  /\ k \in dcDefint
  /\ tdRun[k] = TdNone
  /\ dcDefint' = dcDefint \ {k}
  /\ RunCall(k, 1, FALSE, t_holder) \/ RunEnd(k, 1, FALSE, t_holder)

\* The timeout function returns to RUN_TIMEOUTS.
RunReturn(k) ==
  LET c == tdRun[k]
      holder == [t_holder EXCEPT ![c] = 1]
      next == 1 + CHOOSE i \in DOMAIN tdQueue : tdQueue[i] = c
  IN
  /\ c # TdNone
  /\ RunCall(k, next, tdFailed[k], holder) \/ RunEnd(k, next, tdFailed[k], holder)
  /\ UNCHANGED dcDefint

\* untimeout of a cell that is not at the front of the queue: its delta goes
\* to its successor and it moves to the front, among the expired.
PosOf(c) == CHOOSE i \in DOMAIN tdQueue : tdQueue[i] = c

\* Mutant of Lengthened: the delta is dropped with the cell.
LengthenedNot(i) == [t_delta EXCEPT ![tdQueue[i]] = 0]

Lengthened(i) ==
  [c \in TdCells |->
     IF c = tdQueue[i] THEN 0
     ELSE IF i < Len(tdQueue) /\ c = tdQueue[i + 1]
          THEN t_delta[c] + t_delta[tdQueue[i]] ELSE t_delta[c]]

\* untimeout of a cell that is pending or done: no waiting.
untimeout(u, c, k) ==
  LET i == PosOf(c)
      ticket == t_ticket[c]
  IN
  /\ tdWait[u] = <<>>
  /\ c \in Queued
  /\ ticket = t_holder[c]
  /\ ticket < MaxTicket
  /\ t_ticket' = [t_ticket EXCEPT ![c] = ticket + 1]
  /\ t_holder' = [t_holder EXCEPT ![c] = ticket + 1]
  /\ t_cpu' = [t_cpu EXCEPT ![c] = k]
  /\ IF ticket = 0 /\ i # 1
     THEN /\ tdQueue' = <<c>> \o RemoveAt(tdQueue, i)
          /\ tdExpired' = IF i > tdExpired THEN tdExpired + 1 ELSE tdExpired
          /\ t_delta' = Lengthened(i)
     ELSE UNCHANGED <<tdQueue, tdExpired, t_delta>>
  /\ tdCancelled' = tdCancelled \cup {c}
  /\ UNCHANGED <<tdRun, tdFailed, dcRun, dcDefint, dcDefproc, tdWait, tdNow,
                 tdDue, tdStarted>>

\* untimeout while the function runs, or while others wait: take a ticket.
untimeoutWait(u, c, k) ==
  /\ tdWait[u] = <<>>
  /\ c \in Queued
  /\ t_ticket[c] # t_holder[c]
  /\ t_ticket[c] < MaxTicket
  /\ tdWait' = [tdWait EXCEPT ![u] = <<c, t_ticket[c]>>]
  /\ t_ticket' = [t_ticket EXCEPT ![c] = @ + 1]
  /\ t_cpu' = [t_cpu EXCEPT ![c] = k]
  /\ UNCHANGED <<tdQueue, tdExpired, t_delta, t_holder, tdRun, tdFailed, dcRun,
                 dcDefint, dcDefproc, tdHist>>

\* The turn of the waiting untimeout has come.
untimeoutDone(u) ==
  /\ tdWait[u] # <<>>
  /\ t_holder[tdWait[u][1]] = tdWait[u][2]
  /\ t_holder' = [t_holder EXCEPT ![tdWait[u][1]] = tdWait[u][2] + 1]
  /\ tdCancelled' = tdCancelled \cup {tdWait[u][1]}
  /\ tdWait' = [tdWait EXCEPT ![u] = <<>>]
  /\ UNCHANGED <<tdQueue, tdExpired, t_delta, t_ticket, t_cpu, tdRun, tdFailed,
                 dcRun, dcDefint, dcDefproc, tdNow, tdDue, tdStarted>>

TdNext ==
  \/ \E c \in TdCells, n \in TdTicks : QUEUE_TIMEOUT(c, n)
  \/ \E k \in TdCpus : CHECK_TIMEOUT(k) \/ RUN_TIMEOUTS(k) \/ RunReturn(k)
  \/ \E u \in TdCallers, c \in TdCells, k \in TdCpus :
       untimeout(u, c, k) \/ untimeoutWait(u, c, k)
  \/ \E u \in TdCallers : untimeoutDone(u)

TdSpec == TdInit /\ [][TdNext]_tdVars

----
(***************************************************************************)
(* The delta queue keeps time: the deltas in front of a live cell add up   *)
(* to the ticks it still has to wait, whatever was queued before it and    *)
(* cancelled since, and td_first separates the cells that are due.         *)
(***************************************************************************)
TdExact ==
  \A i \in DOMAIN tdQueue :
    t_ticket[tdQueue[i]] = 0 =>
      IF i =< tdExpired THEN tdDue[tdQueue[i]] =< tdNow
      ELSE tdDue[tdQueue[i]] = tdNow + Delay(i)

(***************************************************************************)
(* "untimeout () will not return until the function has completed": no CPU *)
(* is inside the function of a cell whose untimeout has returned, and none *)
(* enters it later.                                                        *)
(***************************************************************************)
TdCancelFinal ==
  \A k \in TdCpus : tdRun[k] # TdNone => tdRun[k] \notin tdCancelled

(***************************************************************************)
(* No cell is freed while RUN_TIMEOUTS is inside its function or an        *)
(* untimeout waits for its ticket; tickets are handed on one by one.       *)
(***************************************************************************)
TdNoUseAfterFree ==
  /\ \A k \in TdCpus : tdRun[k] # TdNone => tdRun[k] \in Queued
  /\ \A u \in TdCallers : tdWait[u] # <<>> =>
       /\ tdWait[u][1] \in Queued
       /\ t_holder[tdWait[u][1]] =< tdWait[u][2]

\* Cells that are due and have been neither called nor cancelled, on k.
Overdue(k) == {c \in Queued : /\ t_cpu[c] = k
                              /\ t_ticket[c] = 0
                              /\ PosOf(c) =< tdExpired}

(***************************************************************************)
(* A due cell never waits for a RUN_TIMEOUTS nobody has asked for:         *)
(* dc_run_timeouts, which stops SCHEDULE_TIMEOUT from asking again, is     *)
(* set only while RUN_TIMEOUTS runs or stands in a deferred table.         *)
(***************************************************************************)
TdAsked ==
  \A k \in TdCpus :
    /\ Overdue(k) # {} => dcRun[k]
    /\ dcRun[k] => (tdRun[k] # TdNone \/ k \in dcDefint \cup dcDefproc)

(***************************************************************************)
(* A DDI/DKI timeout is called when its ticks are over: the delta queue    *)
(* keeps time, and a due cell has asked for RUN_TIMEOUTS.  And untimeout   *)
(* is final and safe against a function that runs meanwhile.               *)
(***************************************************************************)
TdKeepsTime == TdExact /\ TdAsked
TdSafe == TdCancelFinal /\ TdNoUseAfterFree

TdSound == TdKeepsTime /\ TdSafe

(***************************************************************************)
(* "Otherwise defer this function again": a due cell is called when        *)
(* RUN_TIMEOUTS comes again, so RUN_TIMEOUTS must be running or stand in a *)
(* table that is run.  Not an invariant: clock () runs the interrupt       *)
(* tables only.                                                            *)
(***************************************************************************)
TdServed ==
  \A k \in TdCpus : Overdue(k) # {} => (tdRun[k] # TdNone \/ k \in dcDefint)
====
