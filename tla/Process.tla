---- MODULE Process ----
(***************************************************************************)
(* The life of processes: pfork, pexit (coh.386/proc.c), uwait             *)
(* (coh.386/sys1.c), the sending and taking of signals                     *)
(* (lib/proc_ssig.c, curr_check_signals of coh.386/sig.c), and ptrace      *)
(* (ptset, ptret), which shares the sleep and the flags of wait.           *)
(*                                                                         *)
(* The kernel is not preempted: a step runs from one sleep to the next.    *)
(* Two signals stand for all: SIGTERM, whose action is the default, and    *)
(* SIGCHLD, ignored or caught.  A process structure is used for one        *)
(* process; pids are not reused.                                           *)
(***************************************************************************)
EXTENDS Naturals, FiniteSets

CONSTANTS
  PrProcs,      \* process structures
  PrRoot,       \* process 1, eprocp; it catches signals and does not trace
  PrKilled,     \* processes that are sent SIGTERM
  PrSetters,    \* processes that call sigset (SIGCHLD)
  PrDebuggers,  \* processes that call ptrace with another request
  PrTraced,     \* processes that call ptrace (0)
  PrNone        \* no process

ASSUME PrAssumption ==
  /\ IsFiniteSet(PrProcs)
  /\ PrRoot \in PrProcs \ (PrTraced \cup PrDebuggers \cup PrKilled)
  /\ PrNone \notin PrProcs

VARIABLES
  p_state,      \* p_state[p], or "none" while p is not in the table
  p_ppid,       \* p_ppid[p]
  p_flags,      \* p_flags[p], a subset of {"PFTRAC", "PFWAIT", "PFSTOP"}
  p_pending,    \* p_pending_signals[p]
  p_caught,     \* does p catch SIGCHLD?
  p_nocldwait,  \* is __SF_NOCLDWAIT set?
  pt,           \* the structure pts: pt_busy, pt_pid, pt_req and its gate
  prAsk,        \* prAsk[p]: the child and the request p calls ptset with
  prPc          \* prPc[p]: user, wait, exit, ptgate, ptset or ptret

prVars == <<p_state, p_ppid, p_flags, p_pending, p_caught,
            p_nocldwait, pt, prAsk, prPc>>

prSig == <<p_caught, p_nocldwait>>

\* pts while nobody has its gate.
ptsFree == [busy |-> FALSE, pid |-> PrNone, req |-> "none", gate |-> PrNone]

PrInit ==
  /\ p_state = [p \in PrProcs |-> IF p = PrRoot THEN "PSRUN" ELSE "none"]
  /\ p_ppid = [p \in PrProcs |-> PrNone]
  /\ p_flags = [p \in PrProcs |-> {}]
  /\ p_pending = [p \in PrProcs |-> {}]
  /\ p_caught = [p \in PrProcs |-> FALSE]
  /\ p_nocldwait = [p \in PrProcs |-> FALSE]
  /\ pt = ptsFree
  /\ prAsk = [p \in PrProcs |-> <<>>]
  /\ prPc = [p \in PrProcs |-> "user"]

Children(p) == {c \in PrProcs : p_state[c] # "none" /\ p_ppid[c] = p}

\* curr_signal_pending of p: SIGCHLD counts only when it is caught.
curr_signal_pending(p) ==
  p_pending[p] \ (IF p_caught[p] THEN {} ELSE {"SIGCHLD"}) # {}

\* p waits in ptset with a signal pending: x_sleep comes back at once, and
\* nobody else gets the processor.
Spins(p) ==
  prPc[p] = "ptset" /\ p_state[p] = "PSRUN" /\ pt.busy /\ curr_signal_pending(p)

\* p is where pc says and has the processor; nobody else is inside ptset.
Runs(p, pc) ==
  /\ p_state[p] = "PSRUN"
  /\ prPc[p] = pc
  /\ \A q \in PrProcs \ {p} : ~Spins(q) /\ (prPc[q] = "ptgate" => pt.gate # PrNone)

\* p_state, from s, after a wakeup of those in S who sleep in pc: in wait for
\* their own structure, in ptret for pt_req, in ptset for pt_busy.
Woken(s, pc, S) ==
  [p \in PrProcs |-> IF p \in S /\ s[p] = "PSSLSIG" /\ prPc[p] = pc
                     THEN "PSRUN" ELSE s[p]]

\* proc_send_signal: p_state after p has been sent sig.
Signalled(s, p, sig) ==
  IF s[p] = "PSSLSIG" /\ (sig = "SIGCHLD" => p_caught[p])
  THEN [s EXCEPT ![p] = "PSRUN"] ELSE s

\* pfork; new_process_init copies the signal flags and not PFTRAC.
pfork(p, c) ==
  /\ Runs(p, "user")
  /\ p_state[c] = "none" /\ p_ppid[c] = PrNone /\ c # PrRoot
  /\ p_state' = [p_state EXCEPT ![c] = "PSRUN"]
  /\ p_ppid' = [p_ppid EXCEPT ![c] = p]
  /\ p_caught' = [p_caught EXCEPT ![c] = p_caught[p]]
  /\ p_nocldwait' = [p_nocldwait EXCEPT ![c] = p_nocldwait[p]]
  /\ UNCHANGED <<p_flags, p_pending, pt, prAsk, prPc>>

\* sigset (SIGCHLD): a handler, or SIG_IGN, which sets __SF_NOCLDWAIT.
sigset(p, caught) ==
  /\ p \in PrSetters /\ Runs(p, "user")
  /\ p_caught' = [p_caught EXCEPT ![p] = caught]
  /\ p_nocldwait' = [p_nocldwait EXCEPT ![p] = ~caught]
  /\ UNCHANGED <<p_state, p_ppid, p_flags, p_pending, pt, prAsk, prPc>>

\* pexit up to fd_close_all, which may sleep.
pexitCloses(p) ==
  /\ Runs(p, "user")
  /\ p # PrRoot
  /\ prPc' = [prPc EXCEPT ![p] = "exit"]
  /\ UNCHANGED <<p_state, p_ppid, p_flags, p_pending, prSig, pt, prAsk>>

\* Mutant of Inherit: the children are handed on and nobody is woken.
InheritSilent(p, s) == s

\* "If we have any children, init will become the new parent": a dead one
\* makes pexit wake init, a traced one makes it wake the traced processes.
Inherit(p, s) ==
  LET kids == Children(p)
      init == IF \E c \in kids : p_state[c] = "PSDEAD"
              THEN Woken(s, "wait", {PrRoot}) ELSE s
  IN  IF \E c \in kids : "PFTRAC" \in p_flags[c]
      THEN Woken(init, "ptret", PrProcs) ELSE init

\* The children whose parent becomes init.
Orphans(p) == Children(p)

\* Mutant of WakesParent: only a parent that is to collect the zombie.
WakesParentCollecting(p) == p_nocldwait[p_ppid[p]] = FALSE

\* pexit wakes a parent that sleeps in wait.
WakesParent(p) == TRUE

\* The rest of pexit.
pexit(p) ==
  LET parent == p_ppid[p]
      woken == IF WakesParent(p) THEN Woken(p_state, "wait", {parent}) ELSE p_state
      free == p_nocldwait[parent]
      dead == [Inherit(p, woken) EXCEPT ![p] = IF free THEN "none" ELSE "PSDEAD"]
  IN
  /\ Runs(p, "exit")
  /\ p_ppid' = [c \in PrProcs |-> IF c \in Orphans(p) THEN PrRoot ELSE p_ppid[c]]
  /\ p_state' = IF free THEN dead ELSE Signalled(dead, parent, "SIGCHLD")
  /\ p_pending' = IF free THEN p_pending
                  ELSE [p_pending EXCEPT ![parent] = @ \cup {"SIGCHLD"}]
  /\ UNCHANGED <<p_flags, prSig, pt, prAsk, prPc>>

Zombies(p) == {c \in Children(p) : p_state[c] = "PSDEAD"}

\* Children that have stopped and have not been reported.
Stopped(p) == {c \in Children(p) : "PFWAIT" \in p_flags[c] /\ "PFSTOP" \notin p_flags[c]}

\* The zombies in Z are released.
Reaped(Z) == [c \in PrProcs |-> IF c \in Z THEN "none" ELSE p_state[c]]

(***************************************************************************)
(* uwait, entered or woken.  With __SF_NOCLDWAIT it releases the zombies   *)
(* it meets and looks again.                                               *)
(***************************************************************************)
uwaitStopped(p, c, Z) ==
  /\ Runs(p, "user") \/ Runs(p, "wait")
  /\ c \in Stopped(p)
  /\ Z \subseteq Zombies(p) /\ (Z # {} => p_nocldwait[p])
  /\ p_state' = Reaped(Z)
  /\ p_flags' = [p_flags EXCEPT ![c] = (@ \ {"PFWAIT"}) \cup {"PFSTOP"}]
  /\ prPc' = [prPc EXCEPT ![p] = "user"]
  /\ UNCHANGED <<p_ppid, p_pending, prSig, pt, prAsk>>

uwaitDead(p, c) ==
  /\ Runs(p, "user") \/ Runs(p, "wait")
  /\ ~p_nocldwait[p]
  /\ c \in Zombies(p)
  /\ p_state' = Reaped({c})
  /\ prPc' = [prPc EXCEPT ![p] = "user"]
  /\ UNCHANGED <<p_ppid, p_flags, p_pending, prSig, pt, prAsk>>

\* Nothing to report: ECHILD, EINTR, or sleep.
uwaitSleep(p) ==
  LET left == {c \in Children(p) \ Zombies(p) : "PFSTOP" \notin p_flags[c]}
      sleeps == left # {} /\ ~curr_signal_pending(p)
  IN
  /\ Runs(p, "user") \/ Runs(p, "wait")
  /\ Stopped(p) = {}
  /\ Zombies(p) # {} => p_nocldwait[p]
  /\ p_state' = [Reaped(Zombies(p)) EXCEPT ![p] = IF sleeps THEN "PSSLSIG" ELSE @]
  /\ prPc' = [prPc EXCEPT ![p] = IF sleeps THEN "wait" ELSE "user"]
  /\ UNCHANGED <<p_ppid, p_flags, p_pending, prSig, pt, prAsk>>

\* x_sleep of uwait ends with a longjmp when it finds a signal.
uwaitIntr(p) ==
  /\ Runs(p, "wait")
  /\ curr_signal_pending(p)
  /\ prPc' = [prPc EXCEPT ![p] = "user"]
  /\ UNCHANGED <<p_state, p_ppid, p_flags, p_pending, prSig, pt, prAsk>>

\* kill (), or an interrupt handler that sends a signal.
ukill(p) ==
  /\ p_state[p] \in {"PSRUN", "PSSLSIG"}
  /\ p \in PrKilled /\ prPc[p] # "exit"
  /\ "SIGTERM" \notin p_pending[p]
  /\ p_pending' = [p_pending EXCEPT ![p] = @ \cup {"SIGTERM"}]
  /\ p_state' = Signalled(p_state, p, "SIGTERM")
  /\ UNCHANGED <<p_ppid, p_flags, prSig, pt, prAsk, prPc>>

\* curr_check_signals runs the handler of SIGCHLD.
handler(p) ==
  /\ Runs(p, "user")
  /\ "SIGCHLD" \in p_pending[p] /\ p_caught[p]
  /\ p_pending' = [p_pending EXCEPT ![p] = @ \ {"SIGCHLD"}]
  /\ UNCHANGED <<p_state, p_ppid, p_flags, prSig, pt, prAsk, prPc>>

\* curr_check_signals takes SIGTERM, and p is not traced.
curr_check_signals(p) ==
  /\ Runs(p, "user")
  /\ "SIGTERM" \in p_pending[p]
  /\ "PFTRAC" \notin p_flags[p]
  /\ p_pending' = [p_pending EXCEPT ![p] = @ \ {"SIGTERM"}]
  /\ prPc' = [prPc EXCEPT ![p] = "exit"]
  /\ UNCHANGED <<p_state, p_ppid, p_flags, prSig, pt, prAsk>>

uptrace(p) ==
  /\ p \in PrTraced /\ Runs(p, "user")
  /\ "PFTRAC" \notin p_flags[p]
  /\ p_flags' = [p_flags EXCEPT ![p] = @ \cup {"PFTRAC"}]
  /\ UNCHANGED <<p_state, p_ppid, p_pending, prSig, pt, prAsk, prPc>>

\* The transaction in pts is for p.
ForMe(p) == pt.busy /\ pt.pid = p

\* The flags of a process that leaves ptret.
Resumed(p) == [p_flags EXCEPT ![p] = @ \ {"PFWAIT", "PFSTOP"}]

\* ptret ends: pc is where p goes.  Whatever else is pending is discarded.
ptretEnds(p, pc) ==
  /\ p_flags' = Resumed(p)
  /\ p_pending' = [p_pending EXCEPT ![p] = {}]
  /\ prPc' = [prPc EXCEPT ![p] = pc]

\* ptret tells a parent that sleeps in wait.
Told(p) == Woken(p_state, "wait", {p_ppid[p]})

(***************************************************************************)
(* ptret without a request, called by curr_check_signals with SIGTERM or   *)
(* woken: SIGKILL for an orphan, a return for another signal, or sleep.    *)
(***************************************************************************)
ptret(p) ==
  LET first == prPc[p] = "user"
      pending == IF first THEN p_pending[p] \ {"SIGTERM"} ELSE p_pending[p]
      another == pending \ (IF p_caught[p] THEN {} ELSE {"SIGCHLD"}) # {}
  IN
  /\ \/ Runs(p, "user") /\ "PFTRAC" \in p_flags[p] /\ "SIGTERM" \in p_pending[p]
     \/ Runs(p, "ptret")
  /\ \/ /\ p_ppid[p] = PrRoot
        /\ ptretEnds(p, "exit")
        /\ UNCHANGED p_state
     \/ /\ p_ppid[p] # PrRoot /\ ~ForMe(p) /\ another
        /\ ptretEnds(p, "user")
        /\ p_state' = Told(p)
     \/ /\ p_ppid[p] # PrRoot /\ ~ForMe(p) /\ ~another
        /\ p_state' = [Told(p) EXCEPT ![p] = "PSSLSIG"]
        /\ p_flags' = [p_flags EXCEPT ![p] = IF first THEN @ \cup {"PFWAIT"} ELSE @]
        /\ p_pending' = [p_pending EXCEPT ![p] = pending]
        /\ prPc' = [prPc EXCEPT ![p] = "ptret"]
  /\ UNCHANGED <<p_ppid, prSig, pt, prAsk>>

\* got_signal, with the signal a request has resumed p with: it is sent back
\* into ptret, stopped anew.
got_signal(p) ==
  /\ p_flags' = [p_flags EXCEPT ![p] = (@ \ {"PFSTOP"}) \cup {"PFWAIT"}]
  /\ p_pending' = [p_pending EXCEPT ![p] = {}]
  /\ UNCHANGED prPc

(***************************************************************************)
(* ptret serves a request and wakes the debugger.  Then it looks again, or *)
(* ends.  "RESUME" stands for PTRACE_RESUME and PTRACE_SSTEP without a     *)
(* signal or with a caught one, "RESUME_SIG" for the same with one whose   *)
(* action is the default, "TERM" for PTRACE_TERM and a resume with         *)
(* SIGKILL, and "RD_DAT" for all others.                                   *)
(***************************************************************************)
ptretServes(p) ==
  LET woken == Woken(Told(p), "ptset", PrProcs) IN
  /\ Runs(p, "ptret")
  /\ p_ppid[p] # PrRoot /\ ForMe(p)
  /\ pt' = [pt EXCEPT !.busy = FALSE]
  /\ p_state' = IF pt.req = "RESUME_SIG" THEN [woken EXCEPT ![p] = "PSSLSIG"] ELSE woken
  /\ CASE pt.req = "RD_DAT" -> UNCHANGED <<p_flags, p_pending, prPc>>
       [] pt.req = "RESUME" -> ptretEnds(p, "user")
       [] pt.req = "RESUME_SIG" -> got_signal(p)
       [] pt.req = "TERM" -> ptretEnds(p, "exit")
  /\ UNCHANGED <<p_ppid, prSig, prAsk>>

\* ptset: the child must be stopped and reported.  The lock of pts may have
\* to be waited for after that.
ptset(p, c, req) ==
  /\ p \in PrDebuggers /\ Runs(p, "user")
  /\ c \in Children(p) /\ "PFSTOP" \in p_flags[c]
  /\ prAsk' = [prAsk EXCEPT ![p] = <<c, req>>]
  /\ prPc' = [prPc EXCEPT ![p] = "ptgate"]
  /\ UNCHANGED <<p_state, p_ppid, p_flags, p_pending, prSig, pt>>

\* ptset makes its request, wakes the traced processes and sleeps.
ptsetLocked(p) ==
  LET woken == Woken(p_state, "ptret", PrProcs) IN
  /\ Runs(p, "ptgate")
  /\ pt.gate = PrNone
  /\ pt' = [busy |-> TRUE, pid |-> prAsk[p][1], req |-> prAsk[p][2], gate |-> p]
  /\ p_state' = IF curr_signal_pending(p) THEN woken
                ELSE [woken EXCEPT ![p] = "PSSLSIG"]
  /\ prPc' = [prPc EXCEPT ![p] = "ptset"]
  /\ UNCHANGED <<p_ppid, p_flags, p_pending, prSig, prAsk>>

\* The answer has come.  (Without it, a woken ptset has a signal and spins.)
\* What the code leaves in pt_pid and pt_req nobody looks at before it is set anew.
ptsetDone(p) ==
  /\ Runs(p, "ptset")
  /\ ~pt.busy
  /\ pt' = ptsFree
  /\ prAsk' = [prAsk EXCEPT ![p] = <<>>]
  /\ prPc' = [prPc EXCEPT ![p] = "user"]
  /\ UNCHANGED <<p_state, p_ppid, p_flags, p_pending, prSig>>

Requests == {"RD_DAT", "RESUME", "RESUME_SIG", "TERM"}

PrNext ==
  \/ \E p, c \in PrProcs : pfork(p, c) \/ uwaitDead(p, c)
  \/ \E p, c \in PrProcs : \E Z \in SUBSET Zombies(p) : uwaitStopped(p, c, Z)
  \/ \E p \in PrProcs, b \in BOOLEAN : sigset(p, b)
  \/ \E p \in PrProcs :
       \/ pexitCloses(p) \/ pexit(p)
       \/ uwaitSleep(p) \/ uwaitIntr(p)
       \/ ukill(p) \/ handler(p) \/ curr_check_signals(p)
       \/ uptrace(p) \/ ptret(p) \/ ptretServes(p)
       \/ ptsetLocked(p) \/ ptsetDone(p)
  \/ \E p, c \in PrProcs, r \in Requests : ptset(p, c, r)

PrSpec == PrInit /\ [][PrNext]_prVars

----
(***************************************************************************)
(* Every process has a living parent, so pexit never panics with "has no   *)
(* parent!" and no zombie is left to a parent that cannot wait for it.     *)
(***************************************************************************)
PrParentAlive ==
  \A p \in PrProcs \ {PrRoot} :
    p_state[p] # "none" =>
      p_ppid[p] \in PrProcs /\ p_state[p_ppid[p]] \in {"PSRUN", "PSSLSIG"}

(***************************************************************************)
(* Nobody sleeps in wait for nothing: a process asleep there has no zombie *)
(* to collect and no stopped child to report, but has a child that may     *)
(* still die or stop; this holds across inheritance by init, children that *)
(* leave no zombie, and stops that a debugger has been told of.            *)
(***************************************************************************)
PrWaitServed ==
  \A p \in PrProcs :
    (prPc[p] = "wait" /\ p_state[p] = "PSSLSIG") =>
      /\ Zombies(p) = {}
      /\ \A c \in Stopped(p) : p_state[c] = "PSRUN"
      /\ \E c \in Children(p) : "PFSTOP" \notin p_flags[c] \/ p_state[c] = "PSRUN"

(***************************************************************************)
(* A traced process whose debugger dies does not stay stopped.             *)
(***************************************************************************)
PrOrphanRuns ==
  \A p \in PrProcs :
    (prPc[p] = "ptret" /\ p_state[p] = "PSSLSIG") => p_ppid[p] # PrRoot

(***************************************************************************)
(* A debugger's request is answered: while ptset waits, the child it has   *)
(* named is in ptret, runnable, and will find the request to be its own.   *)
(***************************************************************************)
PrAnswered ==
  \A p \in PrProcs :
    (prPc[p] = "ptset" /\ pt.busy) =>
      /\ pt.gate = p
      /\ prPc[pt.pid] = "ptret" /\ p_state[pt.pid] = "PSRUN"
      /\ p_ppid[pt.pid] = p

(***************************************************************************)
(* The family of processes is kept through fork, exit, inheritance by init *)
(* and the death of a debugger.                                            *)
(***************************************************************************)
PrFamily == PrParentAlive /\ PrOrphanRuns

(***************************************************************************)
(* Whoever waits for a child is told: in wait () and in ptrace ().         *)
(***************************************************************************)
PrServed == PrWaitServed /\ PrAnswered

(***************************************************************************)
(* "Surrender CPU while awaiting some event": ptset never keeps the        *)
(* processor from the child it waits for.  Not an invariant: x_sleep       *)
(* returns at once when a signal is pending.                               *)
(***************************************************************************)
PrNoSpin == \A p \in PrProcs : ~Spins(p)
====
