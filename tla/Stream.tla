---- MODULE Stream ----
(***************************************************************************)
(* One stream: the queues of its head, read and written by processes       *)
(* (conf/streams/src/struser.c, strhead.c), over the queues of the echo    *)
(* driver (conf/echo/src/echo.c), which sends back what it gets.  What is  *)
(* between them is strmlib.c's putq, getq, putbq, rmvq with flow control   *)
(* and back-enabling, and strmisc.c's schedule of service procedures.      *)
(*                                                                         *)
(* Nothing here runs at interrupt level but RUN_STREAMS, which is deferred *)
(* and runs when an interrupt returns to base level, beside a process that *)
(* has not raised the level, and lets no process run until it is done.  A  *)
(* process step is therefore what happens between two moments of base      *)
(* level; a step of RUN_STREAMS is one turn of the loop of one service     *)
(* procedure.                                                              *)
(*                                                                         *)
(* Only data messages of band 0; a message is an interval <<from, to>> of  *)
(* the bytes ever written.  Read and write locks (SH_RWLOCKING) are off,   *)
(* as they are unless asked for.                                           *)
(***************************************************************************)
EXTENDS Integers, Sequences, FiniteSets, SequencesExt

CONSTANTS
  SmReaders, SmWriters,   \* processes
  SmSizes,      \* the lengths of writes, and of the buffers of reads
  SmHiwat, SmLowat,   \* of every queue
  SmNone,       \* NULL
  SmMaxSent     \* bound: bytes written

\* The queues of the head, hr and hw, and the write queue of the driver.  Its
\* read queue never holds a message; it would be enabled from hr, see getq.
SmQueues == {"hr", "hw", "dw"}

ASSUME SmAssumption ==
  /\ IsFiniteSet(SmReaders) /\ IsFiniteSet(SmWriters)
  /\ SmReaders \cap SmWriters = {}
  /\ SmSizes \subseteq Nat \ {0}
  /\ SmHiwat \in Nat /\ SmLowat \in 0 .. SmHiwat
  /\ SmMaxSent \in Nat
  /\ SmNone \notin SmQueues \cup (Int \X Int)

SmProcs == SmReaders \cup SmWriters

VARIABLES
  sm,          \* q: messages, flag: q_flag of every queue; sched: the schedule;
               \* run: dg_run_strsched, RUN_STREAMS is deferred
  smRunning,   \* RUN_STREAMS has not returned
  smSrv,       \* the queue whose service procedure runs
  sh_lock_mask,  \* "read": SH_READ_WAIT, "write": SH_WRITE_WAIT
  smPc,        \* smPc[p]
  smLen,       \* smLen[p]: bytes p still wants to read or write
  smHeld,      \* smHeld[p]: the message p has taken off the read queue
  smPanic,     \* the kernel has panicked
  smSent, smGot   \* history: bytes written and read so far

smVars == <<sm, smRunning, smSrv, sh_lock_mask, smPc, smLen, smHeld, smPanic,
            smSent, smGot>>

SmInit ==
  /\ sm = [q |-> [x \in SmQueues |-> << >>], flag |-> [x \in SmQueues |-> {"QWANTR"}],
           sched |-> << >>, run |-> FALSE]
  /\ smRunning = FALSE /\ smSrv = SmNone
  /\ sh_lock_mask = {}
  /\ smPc = [p \in SmProcs |-> "user"]
  /\ smLen = [p \in SmProcs |-> 0]
  /\ smHeld = [p \in SmProcs |-> SmNone]
  /\ smPanic = FALSE
  /\ smSent = 0 /\ smGot = 0

-----------------------------------------------------------------------------
(* Queues: functions from a state of the stream to the next one.           *)

\* QUEUE_NEXT.
Below(x) == IF x = "hw" THEN "dw" ELSE "hr"

q_count(s, x) == SumFunction([i \in DOMAIN s.q[x] |-> s.q[x][i][2] - s.q[x][i][1] + 1])

Flagged(s, x, f) == [s EXCEPT !.flag[x] = @ \cup {f}]
Unflagged(s, x, f) == [s EXCEPT !.flag[x] = @ \ {f}]

QUEUE_TRYSCHED(s, x) ==
  IF "QENAB" \in s.flag[x] THEN s
  ELSE [Flagged(s, x, "QENAB") EXCEPT !.sched = Append(@, x), !.run = TRUE]

\* What putq and putbq have in common; s already has the message.
QUEUE_CHECK_SCHED(s, x) ==
  LET t == IF "QWANTR" \in s.flag[x] THEN QUEUE_TRYSCHED(s, x) ELSE s
  IN  IF q_count(s, x) > SmHiwat THEN Flagged(t, x, "QFULL") ELSE t

putq(s, x, m) == QUEUE_CHECK_SCHED([s EXCEPT !.q[x] = Append(@, m)], x)

\* Mutant of putbq: the message goes where putq would put it.
putbq_last(s, x, m) == QUEUE_CHECK_SCHED([s EXCEPT !.q[x] = Append(@, m)], x)

putbq(s, x, m) == QUEUE_CHECK_SCHED([s EXCEPT !.q[x] = <<m>> \o @], x)

\* Mutant of rmvq: it clears QWANTR, so that putbq does not schedule the queue
\* again; what strmlib.c:82 has of the band of the last message, for one band.
rmvq_asked(s, x) ==
  LET t == Unflagged([s EXCEPT !.q[x] = Tail(@)], x, "QWANTR")
  IN  IF ~("QFULL" \in s.flag[x] /\ q_count(t, x) <= SmLowat) THEN t
      ELSE IF "QWANTW" \in s.flag[x]
      THEN Flagged(Unflagged(Unflagged(t, x, "QFULL"), x, "QWANTW"), x, "QBACK")
      ELSE Unflagged(t, x, "QFULL")

\* rmvq of the first message: QUEUE_REDUCE leaves a note, QBACK, that the
\* queue behind is to be enabled.
rmvq(s, x) ==
  LET t == [s EXCEPT !.q[x] = Tail(@)]
  IN  IF ~("QFULL" \in s.flag[x] /\ q_count(t, x) <= SmLowat) THEN t
      ELSE IF "QWANTW" \in s.flag[x]
      THEN Flagged(Unflagged(Unflagged(t, x, "QFULL"), x, "QWANTW"), x, "QBACK")
      ELSE Unflagged(t, x, "QFULL")

\* getq, and QUEUE_BACKENAB when QBACK is set: of the queues that
\* refuse a sender only the write queue of the driver is read with getq, and
\* behind it is that of the head.  hr is read by processes with rmvq and then
\* QUNFREEZE_TRACE, which leave QBACK set (struser.c:5988, 5997), so the read
\* queue of the driver behind it, which could pass this on, is not enabled.
getq(s, x) ==
  IF s.q[x] = << >> THEN Flagged(s, x, "QWANTR")
  ELSE LET t == rmvq(s, x)
       IN  IF "QBACK" \in t.flag[x] THEN QUEUE_TRYSCHED(Unflagged(t, x, "QBACK"), "hw")
           ELSE t

\* canputnext: QBAND_CANPUT notes a sender who was refused.
canput(s, x) == "QFULL" \notin s.flag[x]
Refused(s, x) == Flagged(s, x, "QWANTW")

-----------------------------------------------------------------------------
(* The lock of the head and sleeping.                                      *)

\* A process between QUNFREEZE_TRACE (.., plbase) and the unlocking of the
\* head in SHEAD_READ_DATA: locked, and at base level.
HeadLocked == \E p \in SmProcs : smPc[p] = "thawed"

\* SHEAD_WAKE: all that sleep at the head are on one synchronisation
\* variable.  A basic lock that is busy panics.
SHEAD_WAKE(c) ==
  /\ smPanic' = HeadLocked
  /\ IF c \in sh_lock_mask /\ ~HeadLocked
     THEN /\ sh_lock_mask' = sh_lock_mask \ {c}
          /\ smPc' = [p \in SmProcs |-> IF smPc[p] = "asleep" THEN "go" ELSE smPc[p]]
     ELSE UNCHANGED <<sh_lock_mask, smPc>>

-----------------------------------------------------------------------------
(* Service procedures.                                                     *)

Serving(x) == ~smPanic /\ smRunning /\ smSrv = x

RUN_STREAMS ==
  /\ ~smPanic /\ sm.run /\ ~smRunning
  /\ smRunning' = TRUE
  /\ sm' = [sm EXCEPT !.run = FALSE]
  /\ UNCHANGED <<smSrv, sh_lock_mask, smPc, smLen, smHeld, smPanic, smSent, smGot>>

QSCHED_GETFIRST ==
  /\ Serving(SmNone) /\ sm.sched # << >>
  /\ smSrv' = Head(sm.sched)
  /\ sm' = [Unflagged(sm, Head(sm.sched), "QENAB") EXCEPT !.sched = Tail(@)]
  /\ UNCHANGED <<smRunning, sh_lock_mask, smPc, smLen, smHeld, smPanic, smSent, smGot>>

RunStreamsEnd ==
  /\ Serving(SmNone) /\ sm.sched = << >>
  /\ smRunning' = FALSE
  /\ UNCHANGED <<sm, smSrv, sh_lock_mask, smPc, smLen, smHeld, smPanic, smSent, smGot>>

headrsrv ==
  /\ Serving("hr")
  /\ smSrv' = SmNone
  /\ IF sm.q["hr"] # << >> THEN SHEAD_WAKE("read")
     ELSE UNCHANGED <<sh_lock_mask, smPc, smPanic>>
  /\ UNCHANGED <<sm, smRunning, smLen, smHeld, smSent, smGot>>

\* headwsrv and echowsrv pass a message on, or put it back and stop.
Forward(x) ==
  /\ Serving(x) /\ sm.q[x] # << >>
  /\ LET m == Head(sm.q[x])
         s == getq(sm, x)
     IN  IF canput(s, Below(x))
         THEN sm' = putq(s, Below(x), m) /\ smSrv' = smSrv
         ELSE sm' = putbq(Refused(s, Below(x)), x, m) /\ smSrv' = SmNone
  /\ UNCHANGED <<smRunning, sh_lock_mask, smPc, smLen, smHeld, smPanic, smSent, smGot>>

headwsrvDone ==
  /\ Serving("hw") /\ sm.q["hw"] = << >>
  /\ sm' = getq(sm, "hw")
  /\ smSrv' = SmNone
  /\ SHEAD_WAKE("write")
  /\ UNCHANGED <<smRunning, smLen, smHeld, smSent, smGot>>

echowsrvDone ==
  /\ Serving("dw") /\ sm.q["dw"] = << >>
  /\ sm' = getq(sm, "dw")
  /\ smSrv' = SmNone
  /\ UNCHANGED <<smRunning, sh_lock_mask, smPc, smLen, smHeld, smPanic, smSent, smGot>>

-----------------------------------------------------------------------------
(* read () and write ().                                                   *)

\* No service procedure and no other process is in between.
SmRuns(p) ==
  /\ ~smPanic /\ ~smRunning
  /\ \A o \in SmProcs \ {p} : smPc[o] \in {"user", "asleep", "go"}

Begin(p) ==
  /\ SmRuns(p) /\ smPc[p] = "user"
  /\ \E n \in SmSizes : smLen' = [smLen EXCEPT ![p] = n]
  /\ smPc' = [smPc EXCEPT ![p] = "go"]
  /\ UNCHANGED <<sm, smRunning, smSrv, sh_lock_mask, smHeld, smPanic, smSent, smGot>>

\* SHEAD_WAIT.
Sleeps(p, c) ==
  /\ sh_lock_mask' = sh_lock_mask \cup {c}
  /\ smPc' = [smPc EXCEPT ![p] = "asleep"]

\* The test is for the queue of the driver, the message goes to that of the
\* head.  Writes block, reads may not (O_NDELAY).
SHEAD_WRITE_TEST(p) ==
  /\ SmRuns(p) /\ p \in SmWriters /\ smPc[p] = "go" /\ smSent + smLen[p] <= SmMaxSent
  /\ IF canput(sm, Below("hw"))
     THEN /\ smPc' = [smPc EXCEPT ![p] = "put"]
          /\ UNCHANGED <<sm, sh_lock_mask>>
     ELSE /\ sm' = Refused(sm, Below("hw"))
          /\ Sleeps(p, "write")
  /\ UNCHANGED <<smRunning, smSrv, smLen, smHeld, smPanic, smSent, smGot>>

STREAMS_WRITE(p) ==
  /\ SmRuns(p) /\ smPc[p] = "put"
  /\ sm' = putq(sm, "hw", <<smSent + 1, smSent + smLen[p]>>)
  /\ smSent' = smSent + smLen[p]
  /\ smPc' = [smPc EXCEPT ![p] = "user"]
  /\ UNCHANGED <<smRunning, smSrv, sh_lock_mask, smLen, smHeld, smPanic, smGot>>

SHEAD_READ_DATA(p) ==
  /\ SmRuns(p) /\ p \in SmReaders /\ smPc[p] = "go"
  /\ IF sm.q["hr"] = << >>
     THEN sm' = Flagged(sm, "hr", "QWANTR") /\ UNCHANGED smHeld
     ELSE /\ sm' = rmvq(sm, "hr")
          /\ smHeld' = [smHeld EXCEPT ![p] = Head(sm.q["hr"])]
  /\ smPc' = [smPc EXCEPT ![p] = "thawed"]
  /\ UNCHANGED <<smRunning, smSrv, sh_lock_mask, smLen, smPanic, smSent, smGot>>

\* It unlocks the head, or sleeps, or returns EAGAIN.
Unlocks(p) ==
  /\ SmRuns(p) /\ smPc[p] = "thawed"
  /\ \/ /\ smHeld[p] # SmNone
        /\ smPc' = [smPc EXCEPT ![p] = "move"]
        /\ UNCHANGED sh_lock_mask
     \/ smHeld[p] = SmNone /\ Sleeps(p, "read")
     \/ /\ smHeld[p] = SmNone
        /\ smPc' = [smPc EXCEPT ![p] = "user"]
        /\ UNCHANGED sh_lock_mask
  /\ UNCHANGED <<sm, smRunning, smSrv, smLen, smHeld, smPanic, smSent, smGot>>

\* Bytes are copied; what is left of the message is put back, and so is all
\* of it after a fault.  A read goes on until it has all it asked for.
SHEAD_READ_MOVE(p) ==
  /\ SmRuns(p) /\ smPc[p] = "move"
  /\ LET m == smHeld[p]
         size == m[2] - m[1] + 1
         n == IF size <= smLen[p] THEN size ELSE smLen[p]
     IN  \/ /\ smGot' = m[1] + n - 1
            /\ sm' = IF n < size THEN putbq(sm, "hr", <<m[1] + n, m[2]>>) ELSE sm
            /\ smLen' = [smLen EXCEPT ![p] = @ - n]
            /\ smPc' = [smPc EXCEPT ![p] = IF n < smLen[p] THEN "go" ELSE "user"]
         \/ /\ sm' = putbq(sm, "hr", m)
            /\ smPc' = [smPc EXCEPT ![p] = "user"]
            /\ UNCHANGED <<smLen, smGot>>
  /\ smHeld' = [smHeld EXCEPT ![p] = SmNone]
  /\ UNCHANGED <<smRunning, smSrv, sh_lock_mask, smPanic, smSent>>

\* A signal ends a sleep: EINTR.
SmSignal(p) ==
  /\ ~smPanic /\ ~smRunning /\ smPc[p] = "asleep"
  /\ smPc' = [smPc EXCEPT ![p] = "user"]
  /\ UNCHANGED <<sm, smRunning, smSrv, sh_lock_mask, smLen, smHeld, smPanic, smSent, smGot>>

SmNext ==
  \/ RUN_STREAMS \/ QSCHED_GETFIRST \/ RunStreamsEnd
  \/ headrsrv \/ headwsrvDone \/ echowsrvDone
  \/ \E x \in {"hw", "dw"} : Forward(x)
  \/ \E p \in SmProcs : Begin(p) \/ SmSignal(p)
  \/ \E p \in SmWriters : SHEAD_WRITE_TEST(p) \/ STREAMS_WRITE(p)
  \/ \E p \in SmReaders : SHEAD_READ_DATA(p) \/ Unlocks(p) \/ SHEAD_READ_MOVE(p)

SmSpec == SmInit /\ [][SmNext]_smVars

-----------------------------------------------------------------------------
(* Properties.                                                             *)

SmScheduled ==
  /\ \A x \in SmQueues :
       "QENAB" \in sm.flag[x] <=> \E i \in DOMAIN sm.sched : sm.sched[i] = x
  /\ IsInjective(sm.sched)
  /\ sm.sched # << >> => sm.run \/ smRunning

\* A reader who sleeps beside a message has a service procedure coming that
\* will wake it.
SmReaderTold ==
  \A p \in SmReaders :
    smPc[p] = "asleep" /\ sm.q["hr"] # << >> =>
      "read" \in sh_lock_mask /\ ("QENAB" \in sm.flag["hr"] \/ smSrv = "hr")

\* A refused sender is remembered until there is room: the queue is full, so the
\* message that makes room turns the note of the refusal into QBACK; and QBACK
\* is acted on before anybody else sees the queue.  The readers of hr would not,
\* but they never find it with a note, see SmHangs.
SmRefusedTold ==
  \A x \in SmQueues :
    /\ "QWANTW" \in sm.flag[x] => "QFULL" \in sm.flag[x] /\ q_count(sm, x) > SmLowat
    /\ "QBACK" \notin sm.flag[x]

\* A message waits for a service procedure that runs or will, or for the room
\* that the queue below has noted is wanted.
SmMessageTold ==
  \A x \in {"hw", "dw"} :
    sm.q[x] # << >> =>
      "QENAB" \in sm.flag[x] \/ smSrv = x \/ "QWANTW" \in sm.flag[Below(x)]

\* No writer sleeps: RUN_STREAMS leaves the queue of the driver empty, or does not
\* return, so that no process finds it full and is refused.
SmWriterUnblocked == \A p \in SmWriters : smPc[p] # "asleep"

\* The schedule of strmisc.c loses no queue, no sleeping reader is left with
\* data and no message without a service procedure or a note to come, flow
\* control remembers those it has refused, and never puts a writer to sleep.
SmServed ==
  smPanic \/ /\ SmScheduled /\ SmReaderTold /\ SmRefusedTold
             /\ SmMessageTold /\ SmWriterUnblocked

\* Once hr has refused the driver, RUN_STREAMS runs for ever and no process with
\* it: the message is put back, which schedules the queue of the driver, which
\* is refused by a queue that only a process can empty.
SmHangs == []("QWANTW" \in sm.flag["hr"] => []smRunning)

SmTransit == sm.q["hr"] \o sm.q["dw"] \o sm.q["hw"]

\* The stream is a channel: what was taken, what is queued at the three
\* queues from the reader's to the writer's and what was written make up the
\* bytes in order, also after a message was put back by putbq in part.
SmInOrder ==
  LET held == {p \in SmProcs : smHeld[p] # SmNone}
      all == IF held = {} THEN SmTransit
             ELSE <<smHeld[CHOOSE p \in held : TRUE]>> \o SmTransit
  IN  /\ Cardinality(held) <= 1
      /\ \A i \in DOMAIN all : all[i][1] = 1 + IF i = 1 THEN smGot ELSE all[i - 1][2]
      /\ smSent = IF all = << >> THEN smGot ELSE Last(all)[2]

\* "If the last message retrieved is returned to the queue because of a
\* flow-control blockage, putq () ... will know not to enable the queue"
\* (strmlib.c:87): a service procedure that was refused is not scheduled
\* until there is room, or RUN_STREAMS would call it for ever.  Not an
\* invariant: QUEUE_CHECK_SCHED looks at QWANTR, which nothing clears.
SmBlockedRests == "QWANTW" \in sm.flag["hr"] => "QENAB" \notin sm.flag["dw"]

\* No service procedure finds the basic lock of the head busy.  Not an
\* invariant: SHEAD_READ_DATA unfreezes the queue to the base level with it.
SmNoPanic == ~smPanic
====
