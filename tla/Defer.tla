---- MODULE Defer ----
(***************************************************************************)
(* Deferred work.  The DDI/DKI table of coh.386/lib/ddi_defer.c, served by *)
(* __RUN_INT_DEFER (coh.386/lib/ddi_run.c) on the return from interrupts,  *)
(* and the older queue of i386/defer.c, served by defend on the return to  *)
(* user level.  Both are rings that interrupt handlers and the deferred    *)
(* functions themselves fill while they are being emptied.                 *)
(***************************************************************************)
EXTENDS Naturals, Sequences, SequencesExt

CONSTANTS
  DfMax,        \* df_max, entries of the DDI/DKI table
  DEFLIM,       \* entries of the older queue
  MaxDeferred   \* bound: calls of defer

ASSUME DfAssumption ==
  /\ DfMax \in Nat \ {0, 1}
  /\ DEFLIM \in Nat \ {0}
  /\ MaxDeferred \in Nat

VARIABLES
  df_tab, df_read, df_write, df_rlock,   \* the DDI/DKI table
  dfCalls,      \* dfCalls: idx of the function __RUN_INT_DEFER is calling
  defunc, defqix, defqox, defcnt,        \* the older queue
  defCalls,     \* is defend calling a function?
  dfCount,      \* calls of defer so far; the argument that tells them apart
  dfTaken, dfRan,     \* history: accepted by DEFER, run
  defTaken, defRan    \* history: accepted by defer, run

ddiVars == <<df_tab, df_read, df_write, df_rlock, dfCalls, dfTaken, dfRan>>
oldVars == <<defunc, defqix, defqox, defcnt, defCalls, defTaken, defRan>>
dfVars == <<ddiVars, oldVars, dfCount>>

DfInit ==
  /\ df_tab = [i \in 0 .. DfMax - 1 |-> 0]
  /\ df_read = 0 /\ df_write = 0 /\ df_rlock = FALSE
  /\ dfCalls = FALSE
  /\ defunc = [i \in 0 .. DEFLIM - 1 |-> 0]
  /\ defqix = 0 /\ defqox = 0 /\ defcnt = 0
  /\ defCalls = FALSE
  /\ dfCount = 0
  /\ dfTaken = <<>> /\ dfRan = <<>> /\ defTaken = <<>> /\ defRan = <<>>

\* Mutant of Full: the table is used to the last entry.
FullAtMax(idx) == FALSE

\* The write pointer would bump into the read pointer.
Full(idx) == idx = df_read

\* DEFER: the entry is written before the table is found to be full.
DEFER ==
  LET idx == (df_write + 1) % DfMax IN
  /\ dfCount < MaxDeferred
  /\ dfCount' = dfCount + 1
  /\ df_tab' = [df_tab EXCEPT ![df_write] = dfCount + 1]
  /\ IF Full(idx)
     THEN UNCHANGED <<df_write, dfTaken>>
     ELSE /\ df_write' = idx
          /\ dfTaken' = Append(dfTaken, dfCount + 1)
  /\ UNCHANGED <<df_read, df_rlock, dfCalls, dfRan, oldVars>>

\* __RUN_INT_DEFER takes the read lock and calls the next function.  A nested
\* call finds the lock taken and returns.
RUN_INT_DEFER ==
  /\ ~dfCalls /\ ~df_rlock
  /\ df_read # df_write
  /\ df_rlock' = TRUE
  /\ dfCalls' = TRUE
  /\ dfRan' = Append(dfRan, df_tab[df_read])
  /\ UNCHANGED <<df_tab, df_read, df_write, dfTaken, oldVars, dfCount>>

\* The function returns; the entry is given back and the loop goes on, or
\* releases the lock.
RunIntReturn ==
  LET idx == (df_read + 1) % DfMax IN
  /\ dfCalls
  /\ df_read' = idx
  /\ IF idx = df_write
     THEN df_rlock' = FALSE /\ dfCalls' = FALSE /\ UNCHANGED dfRan
     ELSE dfRan' = Append(dfRan, df_tab[idx]) /\ UNCHANGED <<df_rlock, dfCalls>>
  /\ UNCHANGED <<df_tab, df_write, dfTaken, oldVars, dfCount>>

\* defer0.
defer0 ==
  /\ dfCount < MaxDeferred
  /\ dfCount' = dfCount + 1
  /\ IF defcnt < DEFLIM
     THEN /\ defunc' = [defunc EXCEPT ![defqix] = dfCount + 1]
          /\ defqix' = (defqix + 1) % DEFLIM
          /\ defcnt' = defcnt + 1
          /\ defTaken' = Append(defTaken, dfCount + 1)
     ELSE UNCHANGED <<defunc, defqix, defcnt, defTaken>>
  /\ UNCHANGED <<defqox, defCalls, defRan, ddiVars>>

\* defend calls the next function.
defend ==
  /\ ~defCalls
  /\ defcnt > 0
  /\ defCalls' = TRUE
  /\ defRan' = Append(defRan, defunc[defqox])
  /\ UNCHANGED <<defunc, defqix, defqox, defcnt, defTaken, ddiVars, dfCount>>

\* The function returns and its entry is given back.
defendReturn ==
  /\ defCalls
  /\ defqox' = (defqox + 1) % DEFLIM
  /\ defcnt' = defcnt - 1
  /\ defCalls' = FALSE
  /\ UNCHANGED <<defunc, defqix, defTaken, defRan, ddiVars, dfCount>>

DfNext ==
  \/ DEFER \/ RUN_INT_DEFER \/ RunIntReturn
  \/ defer0 \/ defend \/ defendReturn

DfSpec == DfInit /\ [][DfNext]_dfVars

----
\* The n entries of a ring of the given size from position i on.
Entries(tab, i, n, size) == [k \in 1 .. n |-> tab[(i + k - 1) % size]]

Running(calls) == IF calls THEN 1 ELSE 0

(***************************************************************************)
(* Every function DEFER has accepted runs once, in order, whatever else is *)
(* deferred while the table is full, wraps round or is being emptied: the  *)
(* functions run so far, followed by the entries still to run, are the     *)
(* functions accepted.                                                     *)
(***************************************************************************)
DfExact ==
  LET n == ((df_write + DfMax - df_read) % DfMax) - Running(dfCalls) IN
  dfTaken = dfRan \o Entries(df_tab, df_read + Running(dfCalls), n, DfMax)

(***************************************************************************)
(* The same of defer0 and defend, whose count tells full from empty: the   *)
(* entry of the function being called is not given away while it runs.     *)
(***************************************************************************)
DefExact ==
  defTaken = defRan \o Entries(defunc, defqox + Running(defCalls),
                               defcnt - Running(defCalls), DEFLIM)

(***************************************************************************)
(* Both tables of deferred functions run what they accept once, in order.  *)
(***************************************************************************)
DeferredOnce == DfExact /\ DefExact
====
