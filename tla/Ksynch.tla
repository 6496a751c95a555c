---- MODULE Ksynch ----
(***************************************************************************)
(* The sleeping half of the DDI/DKI synchronisation package: sleep locks   *)
(* and synchronisation variables (coh.386/lib/ksynch.c) over the process   *)
(* lists of coh.386/v_proc.c.  A process list is kept as the code keeps    *)
(* it, a head pointer and one pn_next per process, because the defects of  *)
(* a linked list are what can go wrong with it; pn_prev is written and     *)
(* never read, and is left out.                                            *)
(*                                                                         *)
(* PLIST_LOCK raises the interrupt level, so an operation is one step from *)
(* PLIST_LOCK to PLIST_UNLOCK or to the dispatch inside x_sleep.  The fast *)
(* test-and-set of SLEEP_LOCK is a step of its own: an interrupt may come  *)
(* between it and PLIST_LOCK.  The condition a synchronisation variable    *)
(* stands for is a number of items, produced at interrupt level and        *)
(* consumed by processes that test it under the client's basic lock.       *)
(*                                                                         *)
(* KERNEL_SLEEP stores through pn_next of an interrupted sleeper without   *)
(* testing it.  When it is null the store stops the kernel or goes to the  *)
(* first page of the process; the lists are alike in both cases.           *)
(***************************************************************************)
EXTENDS Naturals, FiniteSets, FiniteSetsExt

CONSTANTS
  KsProcs,      \* processes
  KsPri,        \* KsPri[p]: the priority argument p sleeps with
  KsCatch,      \* processes that sleep with SLEEP_LOCK_SIG / SV_WAIT_SIG
  KsIntr,       \* an interrupt handler, owner through SLEEP_TRYLOCK
  KsNone,       \* NULL
  MaxItems      \* bound: items waiting to be consumed

Lists == {"sl_plist", "sv_plist"}

ASSUME KsAssumption ==
  /\ IsFiniteSet(KsProcs)
  /\ KsPri \in [KsProcs -> Nat]
  /\ KsCatch \subseteq KsProcs
  /\ KsIntr \notin KsProcs
  /\ KsNone \notin KsProcs \cup {KsIntr} \cup Lists
  /\ MaxItems \in Nat

VARIABLES
  sl_locked,    \* the test-and-set byte of the sleep lock
  sl_holder,    \* PROC_HANDLE () when the lock was taken, or the waiter it went to
  pl_head,      \* pl_head[l]: head of the process list l
  pn_next,      \* pn_next[p]
  pn_plistp,    \* pn_plistp[p]: the list p is queued on
  ksPc,         \* ksPc[p]: where p is
  ksPending,    \* processes with a pending signal
  ksOwner,      \* history: who really owns the sleep lock
  ksItems       \* items produced and not consumed

ksVars == <<sl_locked, sl_holder, pl_head, pn_next, pn_plistp, ksPc,
            ksPending, ksOwner, ksItems>>

lockVars == <<sl_locked, sl_holder, ksOwner>>
listVars == <<pl_head, pn_next, pn_plistp>>

(***************************************************************************)
(* idle: outside; hard: the fast test-and-set failed; asleep: in x_sleep;  *)
(* ready: made runnable, not yet back in KERNEL_SLEEP; has: owns the lock. *)
(***************************************************************************)
\* SLEEP_ALLOC, SV_ALLOC.
KsInit ==
  /\ sl_locked = FALSE
  /\ sl_holder = KsNone
  /\ pl_head = [l \in Lists |-> KsNone]
  /\ pn_next = [p \in KsProcs |-> KsNone]
  /\ pn_plistp = [p \in KsProcs |-> KsNone]
  /\ ksPc = [p \in KsProcs |-> "idle"]
  /\ ksPending = {}
  /\ ksOwner = KsNone
  /\ ksItems = 0

\* The processes a walk down the list l meets, in order: Reached(l)[k] is
\* the k-th of them, or KsNone past the end.
Reached(l) ==
  LET walk[k \in 1 .. Cardinality(KsProcs)] ==
        IF k = 1 THEN pl_head[l]
        ELSE IF walk[k - 1] = KsNone THEN KsNone ELSE pn_next[walk[k - 1]]
  IN  walk

OnList(l) == {Reached(l)[k] : k \in DOMAIN Reached(l)} \ {KsNone}

\* The scan of MAKE_SLEEPING stops at a process of lower priority.
StopsScan(q, p) == KsPri[q] < KsPri[p]

\* Where the scan for p would stop in the list l, and what it has passed by.
Stopping(l, p) ==
  {k \in DOMAIN Reached(l) : Reached(l)[k] # KsNone /\ StopsScan(Reached(l)[k], p)}
Passed(l, p) ==
  {k \in DOMAIN Reached(l) : /\ Reached(l)[k] # KsNone
                             /\ \A j \in 1 .. k : ~StopsScan(Reached(l)[j], p)}

\* pscan: the first process of the list that stops the scan for p.
pscan(l, p) ==
  IF Stopping(l, p) = {} THEN KsNone ELSE Reached(l)[Min(Stopping(l, p))]

\* pprev: the process the scan passed last.
pprev(l, p) ==
  IF Passed(l, p) = {} THEN KsNone ELSE Reached(l)[Max(Passed(l, p))]

\* pn_next after MAKE_SLEEPING has linked p between pprev and pscan.
Linked(l, p) ==
  [pn_next EXCEPT ![p] = pscan(l, p),
                  ![IF pprev(l, p) = KsNone THEN p ELSE pprev(l, p)] =
                     IF pprev(l, p) = KsNone THEN pscan(l, p) ELSE p]

(***************************************************************************)
(* MAKE_SLEEPING with KERNEL_SLEEP up to the dispatch.                     *)
(***************************************************************************)
MAKE_SLEEPING(p, l) ==
  /\ ~(p \in KsCatch /\ p \in ksPending)
  /\ pn_next' = Linked(l, p)
  /\ pl_head' = [pl_head EXCEPT ![l] = IF pprev(l, p) = KsNone THEN p ELSE @]
  /\ pn_plistp' = [pn_plistp EXCEPT ![p] = l]
  /\ ksPc' = [ksPc EXCEPT ![p] = "asleep"]
  /\ UNCHANGED ksPending

\* A signal is pending already: x_sleep returns at once, and KERNEL_SLEEP
\* takes the head of the list off instead of the process it has just linked.
MAKE_SLEEPING_signalled(p, l) ==
  /\ p \in KsCatch /\ p \in ksPending
  /\ pn_next' = Linked(l, p)
  /\ pl_head' = [pl_head EXCEPT ![l] = pscan(l, p)]
  /\ ksPc' = [ksPc EXCEPT ![p] = "idle"]
  /\ ksPending' = ksPending \ {p}
  /\ UNCHANGED pn_plistp

\* KERNEL_SLEEP after x_sleep: still on the list, so a signal has ended the
\* sleep, and "dequeue us" drops whatever was linked ahead of p.
SignalledWake(p) ==
  /\ ksPc[p] = "ready"
  /\ pn_plistp[p] # KsNone
  /\ pl_head' = [pl_head EXCEPT ![pn_plistp[p]] = pn_next[p]]
  /\ pn_plistp' = [pn_plistp EXCEPT ![p] = KsNone]
  /\ ksPc' = [ksPc EXCEPT ![p] = "idle"]
  /\ ksPending' = ksPending \ {p}
  /\ UNCHANGED <<lockVars, pn_next, ksItems>>

\* proc_signal / KERNEL_SIGNAL: an interruptible sleeper is made runnable.
proc_signal(p) ==
  /\ p \in KsCatch \ ksPending
  /\ ksPc[p] \in {"idle", "hard", "asleep"}
  /\ ksPending' = ksPending \cup {p}
  /\ ksPc' = [ksPc EXCEPT ![p] = IF @ = "asleep" THEN "ready" ELSE @]
  /\ UNCHANGED <<lockVars, listVars, ksItems>>

\* KERNEL_WAKE: wakeup () moves only processes that are really asleep.
KERNEL_WAKE(S) ==
  [p \in KsProcs |-> IF p \in S /\ ksPc[p] = "asleep" THEN "ready" ELSE ksPc[p]]

\* WAKE_ONE: the head of the list is taken off.  The caller gives ksPc'.
WAKE_ONE(l) ==
  LET h == pl_head[l] IN
  /\ pl_head' = IF h = KsNone THEN pl_head
                ELSE [pl_head EXCEPT ![l] = pn_next[h]]
  /\ pn_plistp' = [p \in KsProcs |-> IF p = h THEN KsNone ELSE pn_plistp[p]]
  /\ UNCHANGED pn_next

\* WAKE_ALL: every process on the list, read through pn_next.
WAKE_ALL(l) ==
  /\ pl_head' = [pl_head EXCEPT ![l] = KsNone]
  /\ pn_plistp' = [p \in KsProcs |->
       IF p \in OnList(l) THEN KsNone ELSE pn_plistp[p]]
  /\ UNCHANGED pn_next

\* What PROC_HANDLE () may return to h: a process gets its own node, and an
\* interrupt handler that of whichever process it has interrupted.
PROC_HANDLE(h) == IF h = KsIntr THEN KsProcs ELSE {h}

\* h takes the lock.
Grant(h) ==
  /\ sl_locked' = TRUE
  /\ sl_holder' \in PROC_HANDLE(h)
  /\ ksOwner' = h

\* The test-and-set at the head of SLEEP_LOCK and SLEEP_LOCK_SIG.
SLEEP_LOCK_fast(p) ==
  /\ ksPc[p] = "idle"
  /\ IF sl_locked
     THEN /\ ksPc' = [ksPc EXCEPT ![p] = "hard"]
          /\ UNCHANGED lockVars
     ELSE /\ ksPc' = [ksPc EXCEPT ![p] = "has"]
          /\ Grant(p)
  /\ UNCHANGED <<listVars, ksPending, ksItems>>

\* Mutant of MustSleep: the lock is not tested again under PLIST_LOCK.
MustSleepAlways == TRUE

\* The second test-and-set, with the process list locked.
MustSleep == sl_locked

\* SLEEP_LOCK and SLEEP_LOCK_SIG from PLIST_LOCK on.
SLEEP_LOCK(p) ==
  /\ ksPc[p] = "hard"
  /\ \/ /\ ~MustSleep
        /\ Grant(p)
        /\ ksPc' = [ksPc EXCEPT ![p] = "has"]
        /\ UNCHANGED <<listVars, ksPending>>
     \/ /\ MustSleep
        /\ MAKE_SLEEPING(p, "sl_plist") \/ MAKE_SLEEPING_signalled(p, "sl_plist")
        /\ UNCHANGED lockVars
  /\ UNCHANGED ksItems

\* SLEEP_LOCK woken by SLEEP_UNLOCK: the lock has been left locked for p.
SLEEP_LOCK_woken(p) ==
  /\ ksPc[p] = "ready"
  /\ pn_plistp[p] = KsNone
  /\ ksOwner = p
  /\ ksPc' = [ksPc EXCEPT ![p] = "has"]
  /\ UNCHANGED <<lockVars, listVars, ksPending, ksItems>>

\* SLEEP_TRYLOCK, from a process or from an interrupt handler.
SLEEP_TRYLOCK(h) ==
  /\ ~sl_locked
  /\ h \in KsProcs => ksPc[h] = "idle"
  /\ Grant(h)
  /\ ksPc' = [p \in KsProcs |-> IF p = h THEN "has" ELSE ksPc[p]]
  /\ UNCHANGED <<listVars, ksPending, ksItems>>

\* sl_locked after SLEEP_UNLOCK has woken w.
StaysLocked(w) == w # KsNone

\* SLEEP_UNLOCK by the owner.
SLEEP_UNLOCK(h) ==
  /\ ksOwner = h
  /\ h \in KsProcs => ksPc[h] = "has"
  /\ WAKE_ONE("sl_plist")
  /\ LET w == pl_head["sl_plist"] IN
     /\ ksPc' = [p \in KsProcs |->
          IF p = h THEN "idle" ELSE KERNEL_WAKE({w})[p]]
     /\ sl_holder' = w
     /\ sl_locked' = StaysLocked(w)
     /\ ksOwner' = w
  /\ ksPending' = ksPending \ {h}
  /\ UNCHANGED <<ksItems>>

\* The client of a synchronisation variable takes an item, or waits for one:
\* LOCK (); while (nothing there) { SV_WAIT (); LOCK (); } take it; UNLOCK ().
SV_WAIT(p) ==
  /\ \/ ksPc[p] = "idle"
     \/ ksPc[p] = "ready" /\ pn_plistp[p] = KsNone /\ ksOwner # p
  /\ IF ksItems > 0
     THEN /\ ksItems' = ksItems - 1
          /\ ksPc' = [ksPc EXCEPT ![p] = "idle"]
          /\ ksPending' = ksPending \ {p}
          /\ UNCHANGED listVars
     ELSE /\ MAKE_SLEEPING(p, "sv_plist") \/ MAKE_SLEEPING_signalled(p, "sv_plist")
          /\ UNCHANGED ksItems
  /\ UNCHANGED lockVars

\* Mutant of SV_SIGNAL: no wakeup when an item was there already.
SV_SIGNAL_first ==
  /\ ksItems < MaxItems
  /\ ksItems' = ksItems + 1
  /\ IF ksItems = 0
     THEN WAKE_ONE("sv_plist") /\ ksPc' = KERNEL_WAKE({pl_head["sv_plist"]})
     ELSE UNCHANGED <<listVars, ksPc>>
  /\ UNCHANGED <<lockVars, ksPending>>

\* An interrupt produces an item and calls SV_SIGNAL.
SV_SIGNAL ==
  /\ ksItems < MaxItems
  /\ ksItems' = ksItems + 1
  /\ WAKE_ONE("sv_plist")
  /\ ksPc' = KERNEL_WAKE({pl_head["sv_plist"]})
  /\ UNCHANGED <<lockVars, ksPending>>

\* An interrupt produces several items and calls SV_BROADCAST.
SV_BROADCAST ==
  /\ ksItems < MaxItems
  /\ ksItems' = MaxItems
  /\ WAKE_ALL("sv_plist")
  /\ ksPc' = KERNEL_WAKE(OnList("sv_plist"))
  /\ UNCHANGED <<lockVars, ksPending>>

KsNext ==
  \/ \E p \in KsProcs :
       \/ SLEEP_LOCK_fast(p) \/ SLEEP_LOCK(p) \/ SLEEP_LOCK_woken(p)
       \/ SLEEP_TRYLOCK(p) \/ SLEEP_UNLOCK(p)
       \/ SV_WAIT(p) \/ SignalledWake(p) \/ proc_signal(p)
  \/ SLEEP_TRYLOCK(KsIntr) \/ SLEEP_UNLOCK(KsIntr)
  \/ SV_SIGNAL \/ SV_BROADCAST

KsSpec == KsInit /\ [][KsNext]_ksVars

----
Sleepers(l) == {p \in KsProcs : pn_plistp[p] = l}

(***************************************************************************)
(* Nobody is stranded: the processes whose pn_plistp names a list are the  *)
(* processes that a walk from its pl_head meets.  WAKE_ONE and WAKE_ALL    *)
(* see only the latter; MAKE_SLEEPING and KERNEL_SLEEP keep them alike     *)
(* while every interrupted sleeper is the head of its list.                *)
(***************************************************************************)
KsNoStranded == \A l \in Lists : OnList(l) = Sleepers(l)

(***************************************************************************)
(* The test-and-set byte says whether the lock has an owner, and sl_holder *)
(* is that owner when it is a process, through every hand-over from        *)
(* SLEEP_UNLOCK to a sleeper that has not run yet; whoever is past         *)
(* SLEEP_LOCK is the owner.  These are the assertions after MAKE_SLEEPING  *)
(* in SLEEP_LOCK and SLEEP_LOCK_SIG.  When an interrupt handler owns the   *)
(* lock sl_holder names the process it interrupted, to which               *)
(* SLEEP_LOCKOWNED would say that it has the lock; SLEEP_UNLOCK's comment  *)
(* knows of it and asserts nothing about sl_holder.                        *)
(***************************************************************************)
KsHolderExact ==
  /\ sl_locked <=> ksOwner # KsNone
  /\ ksOwner # KsIntr => sl_holder = ksOwner
  /\ \A p \in KsProcs : ksPc[p] = "has" => ksOwner = p

(***************************************************************************)
(* No signal of a synchronisation variable is lost: while items are there  *)
(* and processes still sleep for one, as many woken processes are on their *)
(* way as there are items.                                                 *)
(***************************************************************************)
KsNoLostSignal ==
  (ksItems > 0 /\ \E p \in Sleepers("sv_plist") : ksPc[p] = "asleep")
    => Cardinality({p \in KsProcs : /\ ksPc[p] = "ready"
                                    /\ pn_plistp[p] = KsNone
                                    /\ ksOwner # p}) >= ksItems

(***************************************************************************)
(* The lists, the lock's holder and the signals of a synchronisation       *)
(* variable stay exact through every wakeup, hand-over and signal.  This   *)
(* is so only while DequeuesHead below holds of every step; the run has    *)
(* one interruptible process, of the highest priority, which ensures it.   *)
(***************************************************************************)
KsSound == KsNoStranded /\ KsHolderExact /\ KsNoLostSignal

(***************************************************************************)
(* Not a property of the code: whoever a signal takes off a list is its    *)
(* head, and a process that finds a signal when it goes to sleep has been  *)
(* linked at the head.  KERNEL_SLEEP takes both for granted.  It fails as  *)
(* soon as an interruptible sleeper is behind another process, and then    *)
(* KsNoStranded fails too.                                                 *)
(***************************************************************************)
DequeuesHead ==
  \A p \in KsProcs :
    /\ SignalledWake(p) => pl_head[pn_plistp[p]] = p
    /\ \A l \in Lists :
         pn_plistp[p] = KsNone /\ MAKE_SLEEPING_signalled(p, l) => pprev(l, p) = KsNone

SleepLock == INSTANCE HandOff WITH
  Holders <- KsProcs \cup {KsIntr},
  Priority <- [h \in KsProcs \cup {KsIntr} |-> IF h = KsIntr THEN 0 ELSE KsPri[h]],
  Free <- KsNone,
  owner <- ksOwner,
  waiting <- Sleepers("sl_plist")

(***************************************************************************)
(* The sleep lock implements the hand-off lock: one owner, never free      *)
(* while somebody waits, passed on to a waiter of the highest priority.    *)
(***************************************************************************)
KsImplementsHandOff == SleepLock!HandOffSpec
====
