---- MODULE Timeout ----
(***************************************************************************)
(* The older timers: timeout and timeout2 (coh.386/timeout.c), which put a *)
(* caller's TIM on one of the hashed queues timq, and the part of          *)
(* check_clock (coh.386/clock.c) that serves them once per tick.           *)
(*                                                                         *)
(* The queues are linked as in the code, t_last pointing at the cell or    *)
(* at the queue head that points here.  check_clock runs at base level, so *)
(* no process runs beside it, but interrupts do while it calls a timer's   *)
(* function; so do they between the two halves of timeout, each of which   *)
(* is protected by sphi on its own.                                        *)
(***************************************************************************)
EXTENDS Naturals, FiniteSets

CONSTANTS
  Tims,         \* the TIM structures
  IntrTims,     \* those set by interrupt handlers, the others by processes
  TimDelays,    \* the delays asked for
  TmNull,       \* NULL
  NTIMQ,        \* number of queues, 32 in the code
  MaxLbolt      \* bound: ticks served

ASSUME TmAssumption ==
  /\ IsFiniteSet(Tims)
  /\ IntrTims \subseteq Tims
  /\ TimDelays \subseteq Nat \ {0}
  /\ NTIMQ \in Nat \ {0}
  /\ TmNull \notin Tims \cup Nat
  /\ Tims \cap (0 .. NTIMQ) = {}

Queues == 0 .. NTIMQ - 1

VARIABLES
  link,         \* link[x]: timq[x] for a queue, x->t_next for a TIM
  t_last,       \* t_last[t]
  t_lbolt,      \* t_lbolt[t]
  lbolt,        \* ticks served
  tmScan,       \* tp and np of check_clock while it calls tp's function
  tmSetting,    \* the TIM and delay of a timeout between its two halves
  tmArmed,      \* history: TIMs set and neither run nor cancelled since
  tmStray       \* history: check_clock has called a TIM that was not set

tmVars == <<link, t_last, t_lbolt, lbolt, tmScan, tmSetting, tmArmed, tmStray>>

TmInit ==
  /\ link = [x \in Queues \cup Tims |-> TmNull]
  /\ t_last = [t \in Tims |-> TmNull]
  /\ t_lbolt = [t \in Tims |-> 0]
  /\ lbolt = 0
  /\ tmScan = <<>>
  /\ tmSetting = <<>>
  /\ tmArmed = {}
  /\ tmStray = FALSE

\* The links <<link, t_last>> after t has been taken off its queue, if any.
Unlinked(l, b, t) ==
  IF b[t] = TmNull THEN <<l, b>>
  ELSE <<[l EXCEPT ![b[t]] = l[t]],
         [x \in Tims |-> IF x = t THEN TmNull
                         ELSE IF x = l[t] THEN b[t] ELSE b[x]]>>

\* ... and after t has been put at the head of the queue of tick n.
LinkedAt(l, b, t, n) ==
  LET q == n % NTIMQ IN
  <<[l EXCEPT ![t] = l[q], ![q] = t],
    [x \in Tims |-> IF x = t THEN q ELSE IF x = l[q] THEN t ELSE b[x]]>>

\* Both halves of timeout, by a caller nobody interrupts.
Set(t, n) ==
  LET off == Unlinked(link, t_last, t)
      on == LinkedAt(off[1], off[2], t, lbolt + n)
  IN
  /\ link' = on[1] /\ t_last' = on[2]
  /\ t_lbolt' = [t_lbolt EXCEPT ![t] = lbolt + n]
  /\ tmArmed' = tmArmed \cup {t}

\* timeout (tp, n, NULL, 0), timeout2 (tp, 0, f, a).
Cancel(t) ==
  LET off == Unlinked(link, t_last, t) IN
  /\ link' = off[1] /\ t_last' = off[2]
  /\ tmArmed' = tmArmed \ {t}
  /\ UNCHANGED t_lbolt

\* timeout by a process, up to the first spl (s) ...
timeoutOff(t, n) ==
  /\ tmScan = <<>> /\ tmSetting = <<>>
  /\ t \notin IntrTims
  /\ LET off == Unlinked(link, t_last, t) IN link' = off[1] /\ t_last' = off[2]
  /\ tmSetting' = <<t, n>>
  /\ tmArmed' = tmArmed \ {t}
  /\ UNCHANGED <<t_lbolt, lbolt, tmScan, tmStray>>

\* ... and from there on.
timeoutOn ==
  /\ tmSetting # <<>>
  /\ LET t == tmSetting[1]
         n == tmSetting[2]
         on == LinkedAt(link, t_last, t, lbolt + n)
     IN  /\ link' = on[1] /\ t_last' = on[2]
         /\ t_lbolt' = [t_lbolt EXCEPT ![t] = lbolt + n]
         /\ tmArmed' = tmArmed \cup {t}
  /\ tmSetting' = <<>>
  /\ UNCHANGED <<lbolt, tmScan, tmStray>>

\* A process cancels its timer.
timeoutCancel(t) ==
  /\ tmScan = <<>> /\ tmSetting = <<>>
  /\ t \in tmArmed \ IntrTims
  /\ Cancel(t)
  /\ UNCHANGED <<lbolt, tmScan, tmSetting, tmStray>>

\* An interrupt handler sets its timer, as flfsm of the floppy driver does:
\* while the timer is queued the driver's state makes it leave it alone.
timeoutIntr(t, n) ==
  /\ t \in IntrTims
  /\ t_last[t] = TmNull
  /\ Set(t, n)
  /\ UNCHANGED <<lbolt, tmScan, tmSetting, tmStray>>

\* The cells check_clock meets from np on, until the first that is due.
DueFrom(np) ==
  LET walk[k \in 0 .. Cardinality(Tims)] ==
        IF k = 0 THEN np
        ELSE IF walk[k - 1] = TmNull \/ t_lbolt[walk[k - 1]] = lbolt'
             THEN walk[k - 1] ELSE link[walk[k - 1]]
  IN  walk[Cardinality(Tims)]

(***************************************************************************)
(* One turn of the scan of check_clock, with interrupts disabled: the next *)
(* due cell comes off its queue and its function is called with the rest   *)
(* of the queue remembered in np; or the scan ends.  A cell that has been  *)
(* taken off meanwhile has a null t_last: the store through it stops the   *)
(* kernel or goes astray, and the function is called all the same.         *)
(***************************************************************************)
Scan(np) ==
  LET tp == DueFrom(np) IN
  IF tp = TmNull
  THEN /\ tmScan' = <<>>
       /\ UNCHANGED <<link, t_last, tmArmed, tmStray>>
  ELSE LET off == Unlinked(link, t_last, tp) IN
       /\ link' = off[1] /\ t_last' = off[2]
       /\ tmScan' = <<tp, link[tp]>>
       /\ tmArmed' = tmArmed \ {tp}
       /\ tmStray' = (tmStray \/ tp \notin tmArmed)

\* Mutant of TickQueue: the queue of the tick before.
TickQueueOld(n) == (n + NTIMQ - 1) % NTIMQ

TickQueue(n) == n % NTIMQ

\* check_clock serves a tick.
check_clock ==
  /\ tmScan = <<>> /\ tmSetting = <<>>
  /\ lbolt < MaxLbolt
  /\ lbolt' = lbolt + 1
  /\ Scan(link[TickQueue(lbolt + 1)])
  /\ UNCHANGED <<t_lbolt, tmSetting>>

\* A timer's function returns, and the scan goes on.
FunctionReturns ==
  /\ tmScan # <<>>
  /\ UNCHANGED <<t_lbolt, lbolt, tmSetting>>
  /\ Scan(tmScan[2])

\* A timer's function sets its own timer again before it returns.
FunctionSets(t, n) ==
  /\ tmScan # <<>>
  /\ t = tmScan[1]
  /\ Set(t, n)
  /\ UNCHANGED <<lbolt, tmScan, tmSetting, tmStray>>

TmNext ==
  \/ \E t \in Tims, n \in TimDelays :
       timeoutOff(t, n) \/ timeoutIntr(t, n) \/ FunctionSets(t, n)
  \/ \E t \in Tims : timeoutCancel(t)
  \/ timeoutOn \/ check_clock \/ FunctionReturns

TmSpec == TmInit /\ [][TmNext]_tmVars

----
\* The TIMs a walk down the queue q meets.
Chain(q) ==
  LET walk[k \in 0 .. Cardinality(Tims)] ==
        IF k = 0 THEN link[q]
        ELSE IF walk[k - 1] = TmNull THEN TmNull ELSE link[walk[k - 1]]
  IN  {walk[k] : k \in 0 .. Cardinality(Tims)} \ {TmNull}

(***************************************************************************)
(* timeout, its cancellation and check_clock keep the queues sound: the    *)
(* TIMs that have been set are the ones a walk meets, each on the queue of *)
(* its tick, with t_last pointing at what points to it.                    *)
(***************************************************************************)
TmSound ==
  /\ \A q \in Queues : Chain(q) = {t \in tmArmed : t_lbolt[t] % NTIMQ = q}
  /\ \A t \in Tims : IF t \in tmArmed THEN link[t_last[t]] = t
                     ELSE t_last[t] = TmNull

(***************************************************************************)
(* "call the function ... in `n' ticks of the clock": once a tick has been *)
(* served no timer that was due is left, to wait until lbolt comes round   *)
(* to its value again; and check_clock has called no timer that had been   *)
(* cancelled or had not been set again since it was called.                *)
(***************************************************************************)
TmOnTime ==
  /\ tmScan = <<>> => \A t \in tmArmed : t_lbolt[t] > lbolt
  /\ ~tmStray

(***************************************************************************)
(* The queues of timeout () are sound, and serve every timer in its tick.  *)
(***************************************************************************)
TmExact == TmSound /\ TmOnTime
====
