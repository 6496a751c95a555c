---- MODULE Poll ----
(***************************************************************************)
(* poll (): upoll (coh.386/sys6.c) over the pollwait structures of         *)
(* coh.386/lib/ddi_poll.c, for channels of both kinds: those of the older  *)
(* drivers (ttpoll, pollopen, pollwake) and those of DDI/DKI drivers       *)
(* (_forward_poll, pollwakeup).  Timeouts are itimeout and untimeout, the  *)
(* sleep is SV_WAIT_SIG.                                                   *)
(*                                                                         *)
(* The kernel is not preempted and no poll routine sleeps, so one process  *)
(* at a time is between its sleeps; interrupts come between its steps.     *)
(***************************************************************************)
EXTENDS Naturals, FiniteSets

CONSTANTS
  PlProcs,      \* processes; also the identifiers of their timeouts
  PlChans,      \* channels, all polled by every process
  PlNew,        \* channels of DDI/DKI drivers
  PlGarbage,    \* values a fresh pw_timeout may hold
  PlNone        \* 0, NULL

ASSUME PlAssumption ==
  /\ IsFiniteSet(PlProcs)
  /\ PlNew \subseteq PlChans
  /\ PlNone \notin PlProcs
  /\ PlGarbage \subseteq PlProcs \cup {PlNone}

VARIABLES
  pw_state,     \* pw_state[p]
  pw_timeout,   \* pw_timeout[p]
  plQueued,     \* plQueued[p]: the channels p's event cells are queued on
  e_procp,      \* e_procp[c]: the flag of an older channel
  dc_pollwait,  \* the process whose pollwait the CPU refers to
  plTimers,     \* processes whose POLL_TIME is pending
  plReady,      \* channels with the awaited event
  plMsec,       \* plMsec[p]: 0, "some" or "inf"
  plTodo,       \* plTodo[p]: channels still to be looked at
  plNew,        \* plNew[p]: the state computed after the sleep
  plPc          \* plPc[p]: where p is

plVars == <<pw_state, pw_timeout, plQueued, e_procp, dc_pollwait, plTimers,
            plReady, plMsec, plTodo, plNew, plPc>>

PlInit ==
  /\ pw_state = [p \in PlProcs |-> "POLLING"]
  /\ pw_timeout = [p \in PlProcs |-> PlNone]
  /\ plQueued = [p \in PlProcs |-> {}]
  /\ e_procp = [c \in PlChans |-> FALSE]
  /\ dc_pollwait = PlNone
  /\ plTimers = {}
  /\ plReady = {}
  /\ plMsec = [p \in PlProcs |-> "zero"]
  /\ plTodo = [p \in PlProcs |-> {}]
  /\ plNew = [p \in PlProcs |-> "POLLING"]
  /\ plPc = [p \in PlProcs |-> "idle"]

\* p may run: nobody else is between two sleeps.
Runs(p) == \A q \in PlProcs \ {p} : plPc[q] \in {"idle", "asleep", "woken", "signalled"}

\* pwalloc.
upoll(p, msec, garbage) ==
  /\ plPc[p] = "idle" /\ Runs(p)
  /\ pw_state' = [pw_state EXCEPT ![p] = "POLLING"]
  /\ pw_timeout' = [pw_timeout EXCEPT ![p] = IF msec = "some" THEN p ELSE garbage]
  /\ plTimers' = IF msec = "some" THEN plTimers \cup {p} ELSE plTimers
  /\ plMsec' = [plMsec EXCEPT ![p] = msec]
  /\ dc_pollwait' = p
  /\ plTodo' = [plTodo EXCEPT ![p] = PlChans]
  /\ plPc' = [plPc EXCEPT ![p] = "scan"]
  /\ UNCHANGED <<plQueued, e_procp, plReady, plNew>>

\* The channel is done with; an event makes the rest of the scan a query.
Looked(p, c, found) ==
  /\ plTodo' = [plTodo EXCEPT ![p] = @ \ {c}]
  /\ plMsec' = [plMsec EXCEPT ![p] = IF found THEN "zero" ELSE @]

\* The first look of ttpoll; or all of _forward_poll, which holds the global
\* lock from get_next_phpp to install_phpp.
look(p, c) ==
  /\ plPc[p] = "scan" /\ Runs(p)
  /\ c \in plTodo[p]
  /\ LET found == c \in plReady
         queue == plMsec[p] # "zero"
     IN  \/ /\ c \notin PlNew
            /\ ~found /\ queue
            /\ plPc' = [plPc EXCEPT ![p] = "open"]
            /\ plTodo' = [plTodo EXCEPT ![p] = @ \ {c}]
            /\ plNew' = [plNew EXCEPT ![p] = c]
            /\ UNCHANGED <<plQueued, plMsec>>
         \/ /\ c \in PlNew \/ found \/ ~queue
            /\ Looked(p, c, found)
            /\ plQueued' = [plQueued EXCEPT ![p] =
                              IF c \in PlNew /\ queue THEN @ \cup {c} ELSE @]
            /\ UNCHANGED <<plPc, plNew>>
  /\ UNCHANGED <<pw_state, pw_timeout, e_procp, dc_pollwait, plTimers, plReady>>

\* Mutant of Second: no second look.
SecondNot(c) == FALSE

\* "Second look to avoid interrupt race."
Second(c) == c \in plReady

\* pollopen, and the second look of ttpoll.
pollopen(p) ==
  LET c == plNew[p] IN
  /\ plPc[p] = "open"
  /\ plQueued' = [plQueued EXCEPT ![p] = @ \cup {c}]
  /\ e_procp' = [e_procp EXCEPT ![c] = TRUE]
  /\ Looked(p, c, Second(c))
  /\ plPc' = [plPc EXCEPT ![p] = "scan"]
  /\ UNCHANGED <<pw_state, pw_timeout, dc_pollwait, plTimers, plReady, plNew>>

\* upoll after the scan, without anything to wait for.
scanDone(p) ==
  /\ plPc[p] = "scan" /\ Runs(p)
  /\ plTodo[p] = {}
  /\ plMsec[p] = "zero"
  /\ plPc' = [plPc EXCEPT ![p] = "free"]
  /\ UNCHANGED <<pw_state, pw_timeout, plQueued, e_procp, dc_pollwait, plTimers,
                 plReady, plMsec, plTodo, plNew>>

\* POLL_TIME has run already.
Expired(p) == plMsec[p] = "some" /\ pw_timeout[p] = PlNone

MaySleep(p) == pw_state[p] = "POLLING"

\* pollsleep, up to SV_WAIT_SIG or to the cleaning of the event cells.
pollsleep(p) ==
  /\ plPc[p] = "scan" /\ Runs(p)
  /\ plTodo[p] = {}
  /\ plMsec[p] # "zero"
  /\ \/ /\ MaySleep(p)
        /\ Expired(p)
        /\ plPc' = [plPc EXCEPT ![p] = "free"]
        /\ UNCHANGED <<pw_state, dc_pollwait>>
     \/ /\ MaySleep(p)
        /\ ~Expired(p)
        /\ pw_state' = [pw_state EXCEPT ![p] = "SLEEPING"]
        /\ dc_pollwait' = PlNone
        /\ plPc' = [plPc EXCEPT ![p] = "asleep"]
     \/ /\ ~MaySleep(p)
        /\ pw_state' = [pw_state EXCEPT ![p] = "POLLING"]
        /\ plPc' = [plPc EXCEPT ![p] = "clean"]
        /\ UNCHANGED dc_pollwait
  /\ UNCHANGED <<pw_timeout, plQueued, e_procp, plTimers, plReady, plMsec, plTodo,
                 plNew>>

\* pollsleep after SV_WAIT_SIG reads pw_state without the lock ...
awake(p) ==
  /\ plPc[p] \in {"woken", "signalled"} /\ Runs(p)
  /\ plNew' = [plNew EXCEPT ![p] = IF pw_state[p] = "EVENT" THEN "POLLING"
                                   ELSE IF plPc[p] = "woken" THEN "TIMEOUT"
                                   ELSE "SIGNALLED"]
  /\ plPc' = [plPc EXCEPT ![p] = "store"]
  /\ UNCHANGED <<pw_state, pw_timeout, plQueued, e_procp, dc_pollwait, plTimers,
                 plReady, plMsec, plTodo>>

\* ... and writes it.
store(p) ==
  /\ plPc[p] = "store"
  /\ pw_state' = [pw_state EXCEPT ![p] = plNew[p]]
  /\ dc_pollwait' = p
  /\ plPc' = [plPc EXCEPT ![p] = "clean"]
  /\ UNCHANGED <<pw_timeout, plQueued, e_procp, plTimers, plReady, plMsec, plTodo,
                 plNew>>

\* The end of pollsleep; upoll scans again unless a timeout or a signal came.
clean(p) ==
  LET again == pw_state[p] \notin {"TIMEOUT", "SIGNALLED"} IN
  /\ plPc[p] = "clean"
  /\ plQueued' = [plQueued EXCEPT ![p] = {}]
  /\ plTodo' = [plTodo EXCEPT ![p] = IF again THEN PlChans ELSE {}]
  /\ plPc' = [plPc EXCEPT ![p] = IF again THEN "scan" ELSE "free"]
  /\ UNCHANGED <<pw_state, pw_timeout, e_procp, dc_pollwait, plTimers, plReady,
                 plMsec, plNew>>

\* Mutant of Cancelled: the timeout is left to run out.
CancelledNot(p) == {}

\* The timeout pwfree cancels.
Cancelled(p) == {pw_timeout[p]}

\* pwfree.
pwfree(p) ==
  /\ plPc[p] = "free"
  /\ plQueued' = [plQueued EXCEPT ![p] = {}]
  /\ plTimers' = plTimers \ Cancelled(p)
  /\ pw_timeout' = [pw_timeout EXCEPT ![p] = PlNone]
  /\ dc_pollwait' = PlNone
  /\ plPc' = [plPc EXCEPT ![p] = "idle"]
  /\ UNCHANGED <<pw_state, e_procp, plReady, plMsec, plTodo, plNew>>

\* SV_SIGNAL for the processes in S.
SvSignal(S) ==
  plPc' = [p \in PlProcs |-> IF p \in S /\ plPc[p] = "asleep" THEN "woken" ELSE plPc[p]]

\* POLL_WAKE for every process in S.
POLL_WAKE(S) ==
  /\ SvSignal({p \in S : pw_state[p] = "SLEEPING"})
  /\ pw_state' = [p \in PlProcs |-> IF p \in S THEN "EVENT" ELSE pw_state[p]]

\* An event on an older channel: pollwake.
pollwake(c) ==
  /\ c \notin PlNew
  /\ plReady' = plReady \cup {c}
  /\ e_procp' = [e_procp EXCEPT ![c] = FALSE]
  /\ POLL_WAKE({p \in PlProcs : e_procp[c] /\ c \in plQueued[p]})
  /\ UNCHANGED <<pw_timeout, plQueued, dc_pollwait, plTimers, plMsec, plTodo, plNew>>

\* An event on a DDI/DKI channel: pollwakeup takes the cells off as well.
pollwakeup(c) ==
  /\ c \in PlNew
  /\ plReady' = plReady \cup {c}
  /\ POLL_WAKE({p \in PlProcs : c \in plQueued[p]})
  /\ plQueued' = [p \in PlProcs |-> plQueued[p] \ {c}]
  /\ UNCHANGED <<pw_timeout, e_procp, dc_pollwait, plTimers, plMsec, plTodo, plNew>>

\* The event is used up by a process that reads or writes the channel.
consume(c) ==
  /\ c \in plReady
  /\ \A p \in PlProcs : plPc[p] \in {"idle", "asleep", "woken", "signalled"}
  /\ plReady' = plReady \ {c}
  /\ UNCHANGED <<pw_state, pw_timeout, plQueued, e_procp, dc_pollwait, plTimers,
                 plMsec, plTodo, plNew, plPc>>

\* The timeout function.
POLL_TIME(p) ==
  /\ p \in plTimers
  /\ plTimers' = plTimers \ {p}
  /\ pw_timeout' = [pw_timeout EXCEPT ![p] = PlNone]
  /\ IF pw_state[p] = "SLEEPING"
     THEN SvSignal({p}) /\ pw_state' = [pw_state EXCEPT ![p] = "TIMEOUT"]
     ELSE UNCHANGED <<pw_state, plPc>>
  /\ UNCHANGED <<plQueued, e_procp, dc_pollwait, plReady, plMsec, plTodo, plNew>>

\* A signal ends the sleep.
signal(p) ==
  /\ plPc[p] = "asleep"
  /\ plPc' = [plPc EXCEPT ![p] = "signalled"]
  /\ UNCHANGED <<pw_state, pw_timeout, plQueued, e_procp, dc_pollwait, plTimers,
                 plReady, plMsec, plTodo, plNew>>

PlNext ==
  \/ \E p \in PlProcs, m \in {"zero", "some", "inf"}, g \in PlGarbage : upoll(p, m, g)
  \/ \E p \in PlProcs, c \in PlChans : look(p, c)
  \/ \E p \in PlProcs :
       \/ pollopen(p) \/ scanDone(p) \/ pollsleep(p) \/ awake(p) \/ store(p)
       \/ clean(p) \/ pwfree(p) \/ POLL_TIME(p) \/ signal(p)
  \/ \E c \in PlChans : pollwake(c) \/ pollwakeup(c) \/ consume(c)

PlSpec == PlInit /\ [][PlNext]_plVars

----
(***************************************************************************)
(* No event is lost: a process that sleeps in pollsleep and has not been   *)
(* woken polls no channel whose event has come, whether it came during the *)
(* scan, between the two looks of ttpoll, while the cells were cleaned or  *)
(* after another process had cleared e_procp.                              *)
(***************************************************************************)
PlNoLostEvent == \A p \in PlProcs : plPc[p] = "asleep" => plReady = {}

(***************************************************************************)
(* A poll with a time limit ends: its sleep always has POLL_TIME pending.  *)
(***************************************************************************)
PlTimerKept ==
  \A p \in PlProcs : (plPc[p] = "asleep" /\ plMsec[p] = "some") => p \in plTimers

(***************************************************************************)
(* "Now there is no way that an interrupt-level context could try and      *)
(* access the pollwait structure": when pwfree has freed it no timeout and *)
(* no event cell refers to it, and the CPU refers to the structure of the  *)
(* process that is scanning.                                               *)
(***************************************************************************)
PlNoDangling ==
  \A p \in PlProcs :
    /\ plPc[p] = "idle" => p \notin plTimers /\ plQueued[p] = {}
    /\ plPc[p] \in {"scan", "open", "clean", "free"} => dc_pollwait = p

(***************************************************************************)
(* A poll leaves nothing pending behind it and has a timeout while it      *)
(* sleeps with a limit.                                                    *)
(***************************************************************************)
PlSafe == PlTimerKept /\ PlNoDangling
====
