---- MODULE Msg ----
(***************************************************************************)
(* System V message queues, conf/msg/src/msg386.c.  As in module Sem a     *)
(* call runs from one sleep to the next.  Senders and receivers of a queue *)
(* sleep on the same event, the queue header.  The gate of a queue is not  *)
(* held across a sleep; it matters because umsgsnd has a return that keeps *)
(* it.  Calls that fail without a change (IPC_NOWAIT, no memory, a bad      *)
(* address) are left out.                                                  *)
(***************************************************************************)
EXTENDS Integers, Sequences, FiniteSets, FiniteSetsExt, SequencesExt

CONSTANTS
  MsgProcs,
  NMSQID, NMSG,  \* queues, and messages per queue
  NMSQB,         \* bytes per queue
  MsgTypes,      \* the types messages are sent with
  MsgSizes,      \* the sizes messages are sent with
  MsgWants,      \* the msgtyp arguments of umsgrcv
  MsgRooms,      \* the buffer sizes umsgrcv is called with
  MsgSupers,     \* the processes for which super () holds
  MsgMaps,       \* the contents msg_map may have after msginit
  MsgSetSizes,   \* the sizes IPC_SET asks for
  MaxSent,       \* bound on the messages sent
  MaxRemoved     \* bound on the removals of a queue

Queues == 0 .. NMSQID - 1
Spots == 0 .. NMSQID * NMSG - 1

ASSUME MsgAssumption ==
  /\ NMSQID \in Nat \ {0} /\ NMSG \in Nat \ {0} /\ NMSQB \in Nat
  /\ MsgTypes \subseteq Nat \ {0} /\ MsgSizes \subseteq Nat
  /\ MsgRooms \subseteq Nat /\ MsgWants \subseteq Int
  /\ MsgSupers \subseteq MsgProcs
  /\ MsgMaps \subseteq SUBSET Spots /\ MsgSetSizes \subseteq Nat
  /\ {MaxSent, MaxRemoved} \subseteq Nat

VARIABLES
  msgAlloc,   \* msgAlloc[q]: __IPC_ALLOC
  msgRemoved, \* msgRemoved[q]: how often q was removed; seq is q + 50 * msgRemoved
  msgq,       \* msgq[q]: the list, of records [id, type, ts, spot]
  cbytes, qnum, qbytes,  \* the header of each queue
  nmsqb,      \* NMSQB, which IPC_SET changes
  rwait, wwait,  \* MSG_RWAIT and MSG_WWAIT of each queue
  msg_map,    \* the entries of the map that are not NULL
  msgStale,   \* history: the entries that were not NULL to begin with
  msgGate,    \* the queues whose gate was left locked
  msgPc,      \* msgPc[p]: "run", "sleep", "woken" or "intr"
  msgArg,     \* msgArg[p]: the call p sleeps in
  msgSent     \* how many messages were sent; gives each its id

queueVars == <<msgAlloc, msgRemoved, msgq, cbytes, qnum, qbytes, nmsqb, rwait, wwait,
               msg_map, msgGate, msgSent>>
msgVars == <<queueVars, msgStale, msgPc, msgArg>>

NoCall == [op |-> "none", q |-> 0, rem |-> 0, type |-> 0, sz |-> 0, noerr |-> FALSE]

\* umsgget's msginit: the memset that should clear the map has its arguments
\* in the wrong order.
MsgInit ==
  /\ msgAlloc = [q \in Queues |-> FALSE]
  /\ msgRemoved = [q \in Queues |-> 0]
  /\ msgq = [q \in Queues |-> << >>]
  /\ cbytes = [q \in Queues |-> 0] /\ qnum = [q \in Queues |-> 0]
  /\ qbytes = [q \in Queues |-> NMSQB] /\ nmsqb = NMSQB
  /\ rwait = [q \in Queues |-> FALSE] /\ wwait = [q \in Queues |-> FALSE]
  /\ msg_map \in MsgMaps /\ msgStale = msg_map
  /\ msgGate = {}
  /\ msgPc = [p \in MsgProcs |-> "run"]
  /\ msgArg = [p \in MsgProcs |-> NoCall]
  /\ msgSent = 0

\* wakeup (qp), as the new state of every process.
MsgWoken(q, pcs) ==
  [p \in MsgProcs |-> IF pcs[p] = "sleep" /\ msgArg[p].q = q THEN "woken" ELSE pcs[p]]

\* x_sleep (qp): the call c of p goes to sleep.
MsgSleep(p, c) ==
  /\ msgPc' = [msgPc EXCEPT ![p] = "sleep"]
  /\ msgArg' = [msgArg EXCEPT ![p] = c]

\* A call ends, with or without a wakeup of the queue.
MsgDone(p, q, wake) ==
  LET pcs == [msgPc EXCEPT ![p] = "run"] IN
  /\ msgPc' = IF wake THEN MsgWoken(q, pcs) ELSE pcs
  /\ msgArg' = [msgArg EXCEPT ![p] = NoCall]

----------------------------------------------------------------------------
\* The condition of umsgsnd's while loop.
NoRoom(q, sz) == qnum[q] >= NMSG \/ qbytes[q] < cbytes[q] + sz

umsgsndWait(p, c) ==
  /\ c.op = "snd" /\ c.q \notin msgGate
  /\ NoRoom(c.q, c.sz)
  /\ wwait' = [wwait EXCEPT ![c.q] = TRUE]
  /\ MsgSleep(p, c)
  /\ UNCHANGED <<msgAlloc, msgRemoved, msgq, cbytes, qnum, qbytes, nmsqb, rwait, msg_map,
                 msgGate, msgSent>>

\* No entry of the map is NULL: the call returns with the gate locked.
umsgsndNoSpot(p, c) ==
  /\ c.op = "snd" /\ c.q \notin msgGate
  /\ ~NoRoom(c.q, c.sz)
  /\ msg_map = Spots
  /\ msgGate' = msgGate \cup {c.q}
  /\ MsgDone(p, c.q, FALSE)
  /\ UNCHANGED <<msgAlloc, msgRemoved, msgq, cbytes, qnum, qbytes, nmsqb, rwait, wwait,
                 msg_map, msgSent>>

\* Mutant: MSG_RWAIT is cleared before it is looked at.
SndWakesNot(q) == FALSE

SndWakes(q) == rwait[q]

umsgsndPut(p, c) ==
  LET spot == Min(Spots \ msg_map)
      m == [id |-> msgSent, type |-> c.type, ts |-> c.sz, spot |-> spot]
  IN
  /\ c.op = "snd" /\ c.q \notin msgGate
  /\ ~NoRoom(c.q, c.sz)
  /\ msg_map # Spots
  /\ msgSent < MaxSent
  /\ msgSent' = msgSent + 1
  /\ msg_map' = msg_map \cup {spot}
  /\ msgq' = [msgq EXCEPT ![c.q] = Append(@, m)]
  /\ cbytes' = [cbytes EXCEPT ![c.q] = @ + c.sz]
  /\ qnum' = [qnum EXCEPT ![c.q] = @ + 1]
  /\ rwait' = [rwait EXCEPT ![c.q] = FALSE]
  /\ MsgDone(p, c.q, SndWakes(c.q))
  /\ UNCHANGED <<msgAlloc, msgRemoved, qbytes, nmsqb, wwait, msgGate>>

----------------------------------------------------------------------------
\* Mutant: among several messages of the type the last one is taken.
FindLast(q, typ) ==
  LET ok == {i \in DOMAIN msgq[q] : typ = 0 \/ msgq[q][i].type = typ \/ msgq[q][i].type <= -typ}
  IN IF ok = {} THEN 0 ELSE Max(ok)

\* The place of the message umsgrcv takes, or 0: the first of the lowest type
\* not above -typ, the first of type typ, or the first of all.
Find(q, typ) ==
  LET type(i) == msgq[q][i].type
      low == {i \in DOMAIN msgq[q] : type(i) <= -typ}
      same == {i \in DOMAIN msgq[q] : typ = 0 \/ type(i) = typ}
      ok == IF typ < 0 THEN {i \in low : \A j \in low : type(i) <= type(j)} ELSE same
  IN IF ok = {} THEN 0 ELSE Min(ok)

umsgrcvWait(p, c) ==
  /\ c.op = "rcv" /\ c.q \notin msgGate
  /\ Find(c.q, c.type) = 0
  /\ rwait' = [rwait EXCEPT ![c.q] = TRUE]
  /\ MsgSleep(p, c)
  /\ UNCHANGED <<msgAlloc, msgRemoved, msgq, cbytes, qnum, qbytes, nmsqb, wwait, msg_map,
                 msgGate, msgSent>>

\* E2BIG: the message stays.
umsgrcvTooBig(p, c) ==
  /\ c.op = "rcv" /\ c.q \notin msgGate
  /\ Find(c.q, c.type) # 0
  /\ c.sz < msgq[c.q][Find(c.q, c.type)].ts /\ ~c.noerr
  /\ MsgDone(p, c.q, FALSE)
  /\ UNCHANGED queueVars

\* Mutant: the bytes asked for are accounted, not those of the message.
RcvBytesAsked(m, c) == c.sz

\* What msg_cbytes goes down by.
RcvBytes(m, c) == m.ts

umsgrcvGet(p, c) ==
  LET i == Find(c.q, c.type)
      m == msgq[c.q][i]
  IN
  /\ c.op = "rcv" /\ c.q \notin msgGate
  /\ i # 0
  /\ c.sz >= m.ts \/ c.noerr
  /\ msgq' = [msgq EXCEPT ![c.q] = RemoveAt(@, i)]
  /\ cbytes' = [cbytes EXCEPT ![c.q] = @ - RcvBytes(m, c)]
  /\ qnum' = [qnum EXCEPT ![c.q] = @ - 1]
  /\ msg_map' = msg_map \ {m.spot}
  /\ wwait' = [wwait EXCEPT ![c.q] = FALSE]
  /\ MsgDone(p, c.q, wwait[c.q])
  /\ UNCHANGED <<msgAlloc, msgRemoved, qbytes, nmsqb, rwait, msgGate, msgSent>>

MsgStep(p, c) ==
  \/ umsgsndWait(p, c)
  \/ umsgsndNoSpot(p, c)
  \/ umsgsndPut(p, c)
  \/ umsgrcvWait(p, c)
  \/ umsgrcvTooBig(p, c)
  \/ umsgrcvGet(p, c)

\* The calls that pass the checks at their beginning.  umsgsnd finds the queue
\* by its number only: the permission check of a queue that does not exist
\* lets the super user through.
SndCalls(p) ==
  {c \in [op : {"snd"}, q : Queues, rem : 0 .. MaxRemoved, type : MsgTypes, sz : MsgSizes,
         noerr : {FALSE}] :
     /\ c.rem = msgRemoved[c.q]
     /\ msgAlloc[c.q] \/ p \in MsgSupers
     /\ c.sz <= nmsqb}
RcvCalls ==
  {c \in [op : {"rcv"}, q : Queues, rem : 0 .. MaxRemoved, type : MsgWants, sz : MsgRooms,
         noerr : BOOLEAN] :
     c.rem = msgRemoved[c.q] /\ msgAlloc[c.q]}

umsgsys(p) ==
  /\ msgPc[p] = "run"
  /\ \E c \in SndCalls(p) \cup RcvCalls : MsgStep(p, c)

MsgSignal(p) ==
  /\ msgPc[p] = "sleep"
  /\ msgPc' = [msgPc EXCEPT ![p] = "intr"]
  /\ UNCHANGED <<queueVars, msgArg>>

\* After x_sleep: a signal, or another queue under the header, ends the call.
MsgAbort(p) ==
  /\ \/ msgPc[p] = "intr"
     \/ msgPc[p] = "woken" /\ msgArg[p].rem # msgRemoved[msgArg[p].q]
  /\ MsgDone(p, msgArg[p].q, FALSE)
  /\ UNCHANGED queueVars

MsgRetry(p) ==
  /\ msgPc[p] = "woken"
  /\ msgArg[p].rem = msgRemoved[msgArg[p].q]
  /\ MsgStep(p, msgArg[p])

----------------------------------------------------------------------------
\* umsgget, when it creates a queue.  The list and msg_cbytes are not reset.
umsgget(p, q) ==
  /\ msgPc[p] = "run" /\ ~msgAlloc[q]
  /\ msgAlloc' = [msgAlloc EXCEPT ![q] = TRUE]
  /\ qnum' = [qnum EXCEPT ![q] = 0]
  /\ rwait' = [rwait EXCEPT ![q] = FALSE] /\ wwait' = [wwait EXCEPT ![q] = FALSE]
  /\ UNCHANGED <<msgRemoved, msgq, cbytes, qbytes, nmsqb, msg_map, msgGate, msgSent,
                 msgPc, msgArg>>

\* IPC_SET: the size becomes the default of all queues; nobody is told.
umsgctlSET(p, q, size) ==
  /\ msgPc[p] = "run" /\ msgAlloc[q]
  /\ size <= qbytes[q] \/ p \in MsgSupers
  /\ qbytes' = [qbytes EXCEPT ![q] = size] /\ nmsqb' = size
  /\ UNCHANGED <<msgAlloc, msgRemoved, msgq, cbytes, qnum, rwait, wwait, msg_map, msgGate,
                 msgSent, msgPc, msgArg>>

\* The map entries IPC_RMID gives back.
RmidFrees(q) == {msgq[q][i].spot : i \in DOMAIN msgq[q]}

\* IPC_RMID: clears the flags with the mode; the sleepers are not woken.
umsgctlRMID(p, q) ==
  /\ msgPc[p] = "run" /\ msgAlloc[q] /\ msgRemoved[q] < MaxRemoved
  /\ msg_map' = msg_map \ RmidFrees(q)
  /\ msgq' = [msgq EXCEPT ![q] = << >>]
  /\ cbytes' = [cbytes EXCEPT ![q] = 0] /\ qnum' = [qnum EXCEPT ![q] = 0]
  /\ rwait' = [rwait EXCEPT ![q] = FALSE] /\ wwait' = [wwait EXCEPT ![q] = FALSE]
  /\ msgAlloc' = [msgAlloc EXCEPT ![q] = FALSE]
  /\ msgRemoved' = [msgRemoved EXCEPT ![q] = @ + 1]
  /\ UNCHANGED <<qbytes, nmsqb, msgGate, msgSent, msgPc, msgArg>>

MsgNext ==
  /\ UNCHANGED msgStale
  /\ \E p \in MsgProcs :
       \/ umsgsys(p)
       \/ MsgSignal(p)
       \/ MsgAbort(p)
       \/ MsgRetry(p)
       \/ \E q \in Queues :
            \/ umsgget(p, q)
            \/ \E size \in MsgSetSizes : umsgctlSET(p, q, size)
            \/ umsgctlRMID(p, q)

MsgSpec == MsgInit /\ [][MsgNext]_msgVars

----------------------------------------------------------------------------
\* The header of a queue says what its list holds, no queue holds more than
\* NMSG messages, every message has a place of its own in msg_map, and what
\* is in msg_map belongs to a message or was there from the beginning.
MsgAccounting ==
  /\ \A q \in Queues :
       /\ cbytes[q] = SumFunction([i \in DOMAIN msgq[q] |-> msgq[q][i].ts])
       /\ qnum[q] = Len(msgq[q]) /\ qnum[q] <= NMSG
  /\ \A q, r \in Queues : \A i \in DOMAIN msgq[q], j \in DOMAIN msgq[r] :
       msgq[q][i].spot = msgq[r][j].spot => q = r /\ i = j
  /\ msg_map = msgStale \cup UNION {{msgq[q][i].spot : i \in DOMAIN msgq[q]} : q \in Queues}

\* Messages of one type leave a queue in the order in which they were sent,
\* whatever types the receivers ask for, unless the queue is removed.
MsgOrder ==
  [][\A q \in Queues :
       msgRemoved'[q] = msgRemoved[q] =>
         \A i, j \in DOMAIN msgq[q] :
           /\ i < j /\ msgq[q][i].type = msgq[q][j].type
           /\ ~Contains(msgq'[q], msgq[q][j])
           => ~Contains(msgq'[q], msgq[q][i])]_msgVars

\* Nobody sleeps in umsgsnd whose message would fit, or in umsgrcv while a
\* message it would take is there, as long as the queue is the one it means.
MsgNoLostWakeup ==
  \A p \in MsgProcs :
    msgPc[p] = "sleep" /\ msgArg[p].rem = msgRemoved[msgArg[p].q] =>
      IF msgArg[p].op = "snd" THEN NoRoom(msgArg[p].q, msgArg[p].sz)
      ELSE Find(msgArg[p].q, msgArg[p].type) = 0

\* "It cannot happen when we do not have empty entry in map": no call returns
\* with a gate locked, behind which all others would wait for ever.  Not an
\* invariant when msgStale is not empty, as msginit leaves it.
MsgNoLeakedGate == msgGate = {}

\* "Abort if the message queue was removed.": nobody goes on sleeping for a
\* queue that is gone.  Not an invariant: IPC_RMID wakes nobody.
MsgRemovedWakes ==
  \A p \in MsgProcs : msgPc[p] = "sleep" => msgArg[p].rem = msgRemoved[msgArg[p].q]
====
