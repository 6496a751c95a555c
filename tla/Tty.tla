---- MODULE Tty ----
(***************************************************************************)
(* A pseudo terminal: the line discipline conf/tty/src/tty.c between slave *)
(* processes, which read and write the terminal, and the driver            *)
(* conf/pty/src/pty.c, whose interrupts are the reads and writes of master *)
(* processes.                                                              *)
(*                                                                         *)
(* Everything but ptycycle and the VTIME timer, both called by             *)
(* check_clock, is done by processes; they are not preempted, so a step    *)
(* runs from one sleep to the next.  The line discipline is either         *)
(* canonical, with the interrupt character, or raw with VMIN and VTIME.    *)
(* Editing characters, the expansion of output, tandem mode, calls that    *)
(* may not sleep, and the exhaustion of clists are left out.               *)
(***************************************************************************)
EXTENDS Naturals, Sequences, FiniteSets, SequencesExt

CONSTANTS
  TtSlaves,     \* processes that open the terminal
  TtReaders, TtWriters,   \* those of them that read, write
  TtMasters,    \* processes that share the master side
  TtLeaders,    \* those that lead a process group without a terminal
  TtModes,      \* those that TCSETAF sets, of TtModeSet
  TtModesNow,   \* those that TCSETA sets
  TtVeof,       \* c_cc [VEOF], which is also c_cc [VMIN]
  TtSizes,      \* sizes of reads and writes
  TtInputs,     \* strings the masters write, of TtChars
  IHILIM, ILOLIM, OHILIM, OLOLIM, NCIB,
  TtNone,       \* no process
  TtMaxCalls     \* bound: reads and writes

TtChars == {"c", "nl", "intr"}
TtModeSet == [canon : BOOLEAN, echo : BOOLEAN, vmin : Nat, vtime : BOOLEAN]

ASSUME TtAssumption ==
  /\ IsFiniteSet(TtSlaves) /\ IsFiniteSet(TtMasters)
  /\ TtSlaves \cap TtMasters = {}
  /\ TtReaders \cup TtWriters \cup TtLeaders \subseteq TtSlaves
  /\ TtSizes \subseteq Nat \ {0}
  /\ \A s \in TtInputs : s \in Seq(TtChars) /\ s # << >>
  /\ TtModes \cup TtModesNow \subseteq TtModeSet /\ TtVeof \in Nat
  /\ IHILIM \in Nat \ {0} /\ ILOLIM \in 0 .. IHILIM - 1
  /\ OHILIM \in Nat \ {0} /\ OLOLIM \in 0 .. OHILIM - 1
  /\ NCIB \in Nat \ {0}
  /\ TtNone \notin TtSlaves
  /\ TtMaxCalls \in Nat

VARIABLES
  tt,        \* the PTY with its TTY: flags, the queues iq, oq (a length) and
             \* ib, open, group, mopen, asleep, ttwr
  ttCycle,   \* is ptycycle's timer pending?
  ttVtime,   \* whose setting of t_vtime is pending
  ttMode,
  ttOp,      \* ttOp[p]: the call p is in
  ttArg,     \* ttArg[p]: what is left of it
  ttPc,      \* ttPc[p]: "user", "asleep", "woken" or "signal"
  ttCount     \* reads and writes so far

ttTimers == <<ttCycle, ttVtime>>
ttCalls == <<ttOp, ttArg, ttPc>>
ttVars == <<tt, ttTimers, ttMode, ttCalls, ttCount>>

TtProcs == TtSlaves \cup TtMasters
NoArg == [ioc |-> 0]

\* The mode ptyopen sets.
DefaultMode(first) ==
  [canon |-> ~first, echo |-> ~first, vmin |-> TtVeof, vtime |-> TRUE]

TtInit ==
  /\ tt = [flags |-> {}, iq |-> << >>, oq |-> 0, ib |-> << >>, open |-> 0,
           group |-> FALSE, mopen |-> 0, asleep |-> FALSE, ttwr |-> FALSE,
           wake |-> {}]
  /\ ttCycle = FALSE /\ ttVtime = TtNone
  /\ ttMode = DefaultMode(TRUE)
  /\ ttOp = [p \in TtProcs |-> IF p \in TtSlaves THEN "closed" ELSE "none"]
  /\ ttArg = [p \in TtProcs |-> NoArg]
  /\ ttPc = [p \in TtProcs |-> "user"]
  /\ ttCount = 0

-----------------------------------------------------------------------------
(* The functions called with a terminal t, as operators that return what   *)
(* becomes of it.  t.wake collects what they wake: t_iq, t_oq, t_open and  *)
(* p_mopen, and "group" for a signal to the process group.                 *)

Waking(t, w) == [t EXCEPT !.wake = @ \cup w]
Flags(t, on, off) == [t EXCEPT !.flags = (@ \cup on) \ off]

Min2(a, b) == IF a <= b THEN a ELSE b

\* Mutant: does not wake the readers.
ttinflush_quiet(t) == [t EXCEPT !.iq = << >>, !.ib = << >>]

ttinflush(t) ==
  Waking([t EXCEPT !.iq = << >>, !.ib = << >>],
         IF "T_INPUT" \in t.flags THEN {"t_iq"} ELSE {})

ttoutflush(t) ==
  Waking([t EXCEPT !.oq = 0],
         IF t.flags \cap {"T_DRAIN", "T_HILIM"} # {} THEN {"t_oq"} ELSE {})

ttflush(t) == ttoutflush(ttinflush(t))

ttsignal(t) == IF t.group THEN Waking(ttflush(t), {"group"}) ELSE t

\* The start routine, called by ttstart, is ptystart.
ptystart(t) == IF t.ttwr THEN Waking(t, {"p_mopen"}) ELSE t

ttstart(t) ==
  IF "T_STOP" \in t.flags THEN t
  ELSE IF "T_DRAIN" \in t.flags /\ t.oq = 0
  THEN Waking(Flags(t, {}, {"T_DRAIN"}), {"t_oq"})
  ELSE IF t.oq <= OLOLIM /\ "T_HILIM" \in t.flags
  THEN Waking(Flags(ptystart(t), {}, {"T_HILIM"}), {"t_oq"})
  ELSE ptystart(t)

\* Input has arrived in t_iq.
InputReady(t) ==
  IF "T_INPUT" \in t.flags THEN Waking(Flags(t, {}, {"T_INPUT"}), {"t_iq"}) ELSE t

ttstash(t, c) ==
  IF c = "nl" THEN InputReady([t EXCEPT !.iq = @ \o t.ib \o <<c>>, !.ib = << >>])
  ELSE IF Len(t.ib) < NCIB - 1 THEN [t EXCEPT !.ib = Append(@, c)]
  ELSE t

Echoed(t) == IF ttMode.echo THEN ttstart([t EXCEPT !.oq = @ + 1]) ELSE t

ttin(t, c) ==
  IF ttMode.canon /\ c = "intr" THEN ttsignal(t)
  ELSE IF "T_ISTOP" \in t.flags THEN t
  ELSE LET u == Echoed(IF ttMode.canon THEN ttstash(t, c)
                       ELSE InputReady([t EXCEPT !.iq = Append(@, c)]))
       IN  IF Len(u.iq) >= IHILIM THEN Flags(u, {"T_ISTOP"}, {}) ELSE u

-----------------------------------------------------------------------------
(* Processes.                                                              *)

SleepsOn(p) ==
  IF p \in TtMasters THEN "p_mopen"
  ELSE IF ttOp[p] = "open" THEN "t_open"
  ELSE IF ttOp[p] = "read" THEN "t_iq"
  ELSE "t_oq"

\* Signals to the group come after the wakeups.
Roused(p, wake) ==
  IF ttPc[p] \in {"asleep", "woken"} /\ p \in TtSlaves /\ "group" \in wake THEN "signal"
  ELSE IF ttPc[p] = "asleep" /\ SleepsOn(p) \in wake THEN "woken"
  ELSE ttPc[p]

\* p's call has run to t: it sleeps with the call op at args, or is done.
TtSleep(p, op, args, t) ==
  /\ tt' = [t EXCEPT !.wake = {}]
  /\ ttOp' = [ttOp EXCEPT ![p] = op]
  /\ ttArg' = [ttArg EXCEPT ![p] = args]
  /\ ttPc' = [q \in TtProcs |-> IF q = p THEN "asleep" ELSE Roused(q, t.wake)]

TtEnds(p, op, t) ==
  /\ tt' = [t EXCEPT !.wake = {}]
  /\ ttOp' = [ttOp EXCEPT ![p] = op]
  /\ ttArg' = [ttArg EXCEPT ![p] = NoArg]
  /\ ttPc' = [q \in TtProcs |-> IF q = p THEN "user" ELSE Roused(q, t.wake)]

TtReturns(p, t) == TtEnds(p, "none", t)

AtUser(p) == ttPc[p] = "user" /\ ttOp[p] = "none"
Resumes(p, op) == ttOp[p] = op /\ ttPc[p] = "woken"
Interrupted(p, op) == ttOp[p] = op /\ ttPc[p] = "signal"
Calls == ttCount < TtMaxCalls /\ ttCount' = ttCount + 1

\* What func1 and func2 of ttread0 and ttwrite0 do.
TellMaster(t) == Waking(t, {"p_mopen"})

(***************************************************************************)
(* ttread0 from one sleep to the next: it takes what is there, up to a     *)
(* newline in canonical mode.  a.late says that VTIME is over since the    *)
(* timer was last set, which is done again after every character.          *)
(***************************************************************************)
Line(iq) == IF "nl" \in ToSet(iq) THEN SelectInSeq(iq, LAMBDA c : c = "nl") ELSE Len(iq)

Taken(a) == Min2(a.ioc, IF ttMode.canon THEN Line(tt.iq) ELSE Len(tt.iq))

AfterTaking(n) ==
  LET t == [tt EXCEPT !.iq = SubSeq(@, n + 1, Len(@))]
  IN  IF n > 0 /\ Len(t.iq) <= ILOLIM THEN Flags(t, {}, {"T_ISTOP"}) ELSE t

Enough(a, t, timing, late) ==
  \/ "T_CARR" \notin t.flags
  \/ /\ ~ttMode.canon
     /\ IF a.vmin > 0 THEN a.sioc - a.ioc >= a.vmin ELSE a.got \/ ~a.vtime
  \/ timing /\ late

ttread0(p, a, first, t0) ==
  LET n == Taken(a)
      t == [t0 EXCEPT !.iq = AfterTaking(n).iq, !.flags = AfterTaking(n).flags]
      b == [a EXCEPT !.ioc = @ - n, !.got = @ \/ n > 0]
      full == b.ioc = 0 \/ (ttMode.canon /\ n > 0 /\ tt.iq[n] = "nl")
      sets == /\ ~ttMode.canon /\ a.vtime
              /\ n > 0 \/ (first /\ a.vmin = 0)
      timing == b.timing \/ sets
      late == b.late /\ ~sets
  IN  IF full \/ Enough(b, t, timing, late)
      THEN /\ TtReturns(p, TellMaster(t))
           /\ ttVtime' = IF timing THEN TtNone ELSE ttVtime
      ELSE /\ TtSleep(p, "read", [b EXCEPT !.timing = timing, !.late = late],
                    TellMaster(Flags(t, {"T_INPUT"}, {})))
           /\ ttVtime' = IF sets THEN p ELSE ttVtime

NewRead(n) ==
  [ioc |-> n, sioc |-> n, got |-> FALSE, timing |-> FALSE, late |-> FALSE,
   vmin |-> ttMode.vmin, vtime |-> ttMode.vtime]

\* read by a slave.
ptyread(p) ==
  /\ p \in TtReaders
  /\ UNCHANGED <<ttCycle, ttMode>>
  /\ \/ /\ AtUser(p) /\ Calls
        /\ \E n \in TtSizes : ttread0(p, NewRead(n), TRUE, [tt EXCEPT !.asleep = FALSE])
     \/ /\ Resumes(p, "read")
        /\ ttread0(p, ttArg[p], FALSE, tt)
        /\ UNCHANGED ttCount
     \/ /\ Interrupted(p, "read")   \* x_sleep does not return
        /\ TtReturns(p, tt)
        /\ UNCHANGED <<ttVtime, ttCount>>

\* The clock: VTIME is over for p.
VtimeOver(p) ==
  /\ ttOp[p] = "read" /\ ttPc[p] \in {"asleep", "woken"}
  /\ ttArg[p].timing /\ ~ttArg[p].late
  /\ ttArg' = [ttArg EXCEPT ![p].late = TRUE]
  /\ IF ttVtime = p
     THEN /\ ttVtime' = TtNone
          /\ ttPc' = [q \in TtProcs |-> Roused(q, {"t_iq"})]
     ELSE UNCHANGED <<ttVtime, ttPc>>
  /\ UNCHANGED <<tt, ttCycle, ttMode, ttOp, ttCount>>

-----------------------------------------------------------------------------
(* ttwrite0 with k characters left, one of them in hand if it has slept:   *)
(* that one is written whether or not there is still a carrier.            *)
ttwrite0(p, k, held, t0) ==
  LET room == IF t0.oq < OHILIM THEN OHILIM - t0.oq ELSE 0
      carrier == "T_CARR" \in t0.flags
      n == IF carrier THEN Min2(k, room) ELSE IF held THEN Min2(1, room) ELSE 0
      t == [t0 EXCEPT !.oq = @ + n]
      returned(u) == [u EXCEPT !.ttwr = FALSE]
  IN  IF n = k THEN TtReturns(p, returned(TellMaster(ttstart(t))))
      ELSE IF ~carrier /\ ~(held /\ n = 0) THEN TtReturns(p, returned(t))   \* EIO
      ELSE TtSleep(p, "write", [ioc |-> k - n],
                   TellMaster(Flags(ttstart(t), {"T_HILIM"}, {})))

\* write by a slave.
ptywrite(p) ==
  /\ p \in TtWriters
  /\ UNCHANGED <<ttTimers, ttMode>>
  /\ \/ /\ AtUser(p) /\ Calls
        /\ \E k \in TtSizes : ttwrite0(p, k, FALSE, [tt EXCEPT !.ttwr = TRUE])
     \/ /\ Resumes(p, "write")
        /\ ttwrite0(p, ttArg[p].ioc, TRUE, tt)
        /\ UNCHANGED ttCount
     \/ /\ Interrupted(p, "write")
        /\ TtReturns(p, [tt EXCEPT !.ttwr = FALSE])
        /\ UNCHANGED ttCount

(***************************************************************************)
(* ttioctl: a new mode, a wait for the output to drain, which a signal     *)
(* ends, and the flushing of queues.                                       *)
(***************************************************************************)
Flushed(t, queues) ==
  LET i == IF "in" \in queues THEN ttinflush(t) ELSE t
  IN  IF "out" \in queues THEN ttoutflush(i) ELSE i

Draining(p, op, args, t) == TtSleep(p, op, args, Flags(t, {"T_DRAIN"}, {}))

\* Leaving canonical mode passes on the unfinished line.
ttrtp(t) == [t EXCEPT !.iq = @ \o t.ib, !.ib = << >>]

ttdrain(p, queues) ==
  IF tt.oq # 0 THEN Draining(p, "drain", [ioc |-> 0, queues |-> queues], tt)
  ELSE TtReturns(p, Flushed(tt, queues))

ttioctl(p) ==
  /\ UNCHANGED <<ttTimers, ttCount>>
  /\ \/ /\ AtUser(p)
        /\ \/ /\ UNCHANGED ttMode
              /\ ttdrain(p, {})                          \* TCSBRK
           \/ /\ UNCHANGED ttMode                        \* TCFLSH
              /\ \E queues \in SUBSET {"in", "out"} : TtReturns(p, Flushed(tt, queues))
           \/ /\ ttMode' \in TtModes                     \* TCSETAF
              /\ ttdrain(p, {"in"})
           \/ /\ ttMode' \in TtModesNow                  \* TCSETA
              /\ TtReturns(p, IF ttMode.canon /\ ~ttMode'.canon THEN ttrtp(tt) ELSE tt)
     \/ /\ Resumes(p, "drain")
        /\ ttdrain(p, ttArg[p].queues)
        /\ UNCHANGED ttMode
     \/ /\ Interrupted(p, "drain")
        /\ TtReturns(p, Flushed(tt, ttArg[p].queues))
        /\ UNCHANGED ttMode

-----------------------------------------------------------------------------
(* open and close of the slave.  T_STOP is set while an open waits for the *)
(* master.                                                                 *)
Opened(p) ==
  /\ ttMode' = DefaultMode(tt.open = 0)
  /\ TtReturns(p, [Flags(tt, {"T_CARR"}, {"T_STOP"}) EXCEPT
                     !.open = @ + 1, !.group = @ \/ p \in TtLeaders, !.mopen = 2])

ptyopen(p) ==
  /\ UNCHANGED <<ttTimers, ttCount>>
  /\ \/ /\ (ttOp[p] = "closed" /\ ttPc[p] = "user") \/ Resumes(p, "open")
        /\ IF tt.mopen # 0 THEN Opened(p)
           ELSE /\ TtSleep(p, "open", NoArg,
                           IF ttOp[p] = "closed" THEN Flags(tt, {"T_STOP"}, {}) ELSE tt)
                /\ UNCHANGED ttMode
     \/ /\ Interrupted(p, "open")
        /\ TtEnds(p, "closed", Flags(tt, {}, {"T_STOP"}))
        /\ UNCHANGED ttMode

\* The end of ttclose, and what ptyclose does then.
Closed(p, t) ==
  TtEnds(p, "closed",
         Waking([ttflush(t) EXCEPT !.flags = {}, !.group = FALSE,
                                   !.mopen = IF @ = 2 THEN 3 ELSE @], {"p_mopen"}))

ttclose(p, t) == IF t.oq # 0 THEN Draining(p, "close", NoArg, t) ELSE Closed(p, t)

ptyclose(p) ==
  /\ UNCHANGED <<ttTimers, ttMode, ttCount>>
  /\ \/ /\ AtUser(p)
        /\ LET t == [tt EXCEPT !.open = @ - 1]
           IN  IF t.open = 0 THEN ttclose(p, t) ELSE TtEnds(p, "closed", t)
     \/ Resumes(p, "close") /\ ttclose(p, tt)
     \/ Interrupted(p, "close") /\ Closed(p, tt)

-----------------------------------------------------------------------------
(* The masters share one open file.                                        *)

\* Wake whoever sleeps: called by ptyopen and ten times a second.
ptycycle(t) == IF t.asleep \/ t.ttwr THEN Waking(t, {"p_mopen"}) ELSE t

Cycle ==
  /\ ttCycle
  /\ ttCycle' = (tt.mopen # 0)
  /\ ttPc' = [q \in TtProcs |-> Roused(q, ptycycle(tt).wake)]
  /\ UNCHANGED <<tt, ttVtime, ttMode, ttOp, ttArg, ttCount>>

masterOpen(m) ==
  /\ AtUser(m) /\ tt.mopen = 0
  /\ TtReturns(m, ptycycle(Waking([tt EXCEPT !.mopen = IF tt.open > 0 THEN 2 ELSE 1],
                                  {"t_open"})))
  /\ ttCycle' = TRUE
  /\ UNCHANGED <<ttVtime, ttMode, ttCount>>

\* tthup flushes and signals the group.
masterClose(m) ==
  /\ \A n \in TtMasters : AtUser(n)
  /\ tt.mopen # 0
  /\ TtReturns(m, [ttsignal(ttflush(Flags(tt, {}, {"T_CARR"}))) EXCEPT !.mopen = 0])
  /\ UNCHANGED <<ttTimers, ttMode, ttCount>>

\* A read that is satisfied does not call ttstart.
ttout(m, k) ==
  LET n == Min2(k, tt.oq)
      t == [tt EXCEPT !.oq = @ - n]
  IN  IF n = k THEN TtReturns(m, t)
      ELSE IF n > 0 THEN TtReturns(m, ttstart(t))
      ELSE IF tt.mopen = 3 THEN TtReturns(m, t)   \* EIO
      ELSE TtSleep(m, "read", [ioc |-> k], [ttstart(t) EXCEPT !.asleep = TRUE])

masterRead(m) ==
  /\ UNCHANGED <<ttTimers, ttMode>>
  /\ \/ /\ AtUser(m) /\ tt.mopen # 0 /\ Calls
        /\ \E k \in TtSizes : ttout(m, k)
     \/ /\ Resumes(m, "read")
        /\ ttout(m, ttArg[m].ioc)
        /\ UNCHANGED ttCount

\* What ttin is given of the string s, and what it is not.
Fed(t, s) ==
  FoldLeft(LAMBDA a, c : IF a.rest # << >> \/ "T_ISTOP" \in a.t.flags
                         THEN [a EXCEPT !.rest = Append(@, c)]
                         ELSE [a EXCEPT !.t = ttin(@, c)],
           [t |-> t, rest |-> << >>], s)

Writes(m, f) ==
  IF f.rest = << >> THEN TtReturns(m, Waking(f.t, {"p_mopen"}))
  ELSE IF f.t.mopen = 3 THEN TtReturns(m, f.t)   \* EIO
  ELSE TtSleep(m, "write", [ioc |-> Len(f.rest), s |-> f.rest],
               [f.t EXCEPT !.asleep = TRUE])

\* After the sleep ttinp is not asked again.
masterWrite(m) ==
  /\ UNCHANGED <<ttTimers, ttMode>>
  /\ \/ /\ AtUser(m) /\ tt.mopen # 0 /\ Calls
        /\ \E s \in TtInputs : Writes(m, Fed(tt, s))
     \/ /\ Resumes(m, "write")
        /\ Writes(m, Fed(ttin(tt, Head(ttArg[m].s)), Tail(ttArg[m].s)))
        /\ UNCHANGED ttCount

masterInterrupted(m) ==
  /\ \E op \in {"read", "write"} : Interrupted(m, op)
  /\ TtReturns(m, tt)
  /\ UNCHANGED <<ttTimers, ttMode, ttCount>>

\* A signal for p, from elsewhere.
TtSignal(p) ==
  /\ ttPc[p] \in {"asleep", "woken"}
  /\ ttPc' = [ttPc EXCEPT ![p] = "signal"]
  /\ UNCHANGED <<tt, ttTimers, ttMode, ttOp, ttArg, ttCount>>

TtNext ==
  \/ \E p \in TtSlaves : \/ ptyread(p) \/ ptywrite(p) \/ ttioctl(p) \/ ptyopen(p)
                         \/ ptyclose(p) \/ VtimeOver(p)
  \/ \E m \in TtMasters : \/ masterOpen(m) \/ masterClose(m) \/ masterRead(m)
                          \/ masterWrite(m) \/ masterInterrupted(m)
  \/ \E p \in TtProcs : TtSignal(p)
  \/ Cycle

TtSpec == TtInit /\ [][TtNext]_ttVars

-----------------------------------------------------------------------------
(* Properties.                                                             *)

TtAsleep(p, op) == ttPc[p] = "asleep" /\ ttOp[p] = op

\* A slave sleeps in read only while there is nothing to read, the master is
\* there, and T_INPUT tells ttin to wake it; if VTIME runs for it, so does the
\* timer (with one reader: the terminal has only one timer).  Whatever input,
\* interrupt, hangup, flush or change of mode comes, none leaves it behind.
TtReaderServed ==
  \A p \in TtSlaves : TtAsleep(p, "read") =>
    /\ tt.iq = << >>
    /\ {"T_CARR", "T_INPUT"} \subseteq tt.flags
    /\ ttArg[p].timing /\ ~ttArg[p].late => ttVtime = p \/ TtReaders # {p}

\* The flag that makes ttstart and ttoutflush wake a slave that waits for the
\* output queue is set, although any of those that sleep there, ttclose () and
\* an interrupted neighbour clear flags.
TtWriterServed ==
  \A p \in TtSlaves :
    /\ TtAsleep(p, "write") => "T_HILIM" \in tt.flags
    /\ TtAsleep(p, "drain") \/ TtAsleep(p, "close") => "T_DRAIN" \in tt.flags

\* A master sleeps in write only while T_ISTOP is set, and in read only while
\* there is a slave and no output, except for the output of a write that ends
\* with EIO after a hangup and of an echo, which the cycle must find: its timer
\* runs and p_asleep or p_ttwr, which slaves reset, is set.
TtMasterServed ==
  \A m \in TtMasters :
    /\ TtAsleep(m, "write") => "T_ISTOP" \in tt.flags
    /\ TtAsleep(m, "read") => /\ tt.mopen # 3
                              /\ tt.oq = 0 \/ (ttCycle /\ (tt.asleep \/ tt.ttwr))

TtServed == TtReaderServed /\ TtWriterServed /\ TtMasterServed

\* Not an invariant.  T_ISTOP "is cleared when the input queue is sufficiently
\* empty" (tty.c:28), but only by a read that takes a character: after a flush
\* of a full queue (an interrupt, TCFLSH) it stays set, no character is
\* accepted, and no read ever finds one.
TtStopsForInput == "T_ISTOP" \in tt.flags => tt.iq # << >>

\* Not an action property.  A master that sleeps because of T_ISTOP is woken by
\* every cycle and writes its next character without asking ttinp again; ttin
\* discards it.
TtNothingLost ==
  [][\A m \in TtMasters :
       ttOp[m] = "write" /\ ttPc[m] = "woken" /\ ttPc'[m] \in {"user", "asleep"}
       => "T_ISTOP" \notin tt.flags]_ttVars
====
