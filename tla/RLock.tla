---- MODULE RLock ----
(***************************************************************************)
(* Record locks, coh.386/rlock.c: fcntl's F_SETLK, F_SETLKW and F_UNLCK    *)
(* and the removal of all locks by fd_close.  rlgate is taken and given    *)
(* back between two sleeps, so nobody ever waits for it and it is left     *)
(* out.  F_GETLK, and calls refused for their arguments or for the mode    *)
(* the file was opened with, change nothing and are left out.              *)
(***************************************************************************)
EXTENDS Integers, Sequences, FiniteSets, FiniteSetsExt, SequencesExt

CONSTANTS
  RlProcs, RlFiles,
  RLOCKS,      \* lock structures in the system
  RlLast,      \* bytes are 0 .. RlLast
  RlRanges     \* the ranges <<start, end>> asked for; end -1 is EOF

ASSUME RlAssumption ==
  /\ IsFiniteSet(RlProcs) /\ IsFiniteSet(RlFiles)
  /\ RLOCKS \in Nat /\ RlLast \in Nat
  /\ \A r \in RlRanges : /\ r[1] \in 0 .. RlLast /\ r[2] \in -1 .. RlLast - 1
                         /\ r[2] = -1 \/ r[1] <= r[2]

VARIABLES
  i_rl,      \* i_rl[f]: the list of locks of a file, [type, start, end, proc]
  freerl,    \* the number of structures on the free list
  p_prl,     \* p_prl[p]: the lock p waits for with the file it is for
  rlPc       \* rlPc[p]: "run", "sleep", "woken" or "intr"

rlVars == <<i_rl, freerl, p_prl, rlPc>>

EOF == -1
Nothing == [file |-> "none"]

RlInit ==
  /\ i_rl = [f \in RlFiles |-> << >>]
  /\ freerl = RLOCKS
  /\ p_prl = [p \in RlProcs |-> Nothing]
  /\ rlPc = [p \in RlProcs |-> "run"]

----------------------------------------------------------------------------
\* The test of nextmeet: l and k have a byte in common.
nextmeet(l, k) ==
  /\ l.end = EOF \/ l.end >= k.start
  /\ k.end = EOF \/ k.end >= l.start

\* The test of nextblock: k keeps the owner of l from having l.
nextblock(l, k) ==
  /\ nextmeet(l, k)
  /\ l.proc # k.proc
  /\ l.type = 1 \/ k.type = 1

Blockers(f, l) == {i_rl[f][i].proc : i \in {j \in DOMAIN i_rl[f] : nextblock(l, i_rl[f][j])}}

\* Mutant: the end of a lock that is cut in the middle is forgotten.
extractHead(old, new) ==
  IF new.start > old.start THEN <<[old EXCEPT !.end = new.start - 1]>>
  ELSE IF new.end # EOF /\ (old.end = EOF \/ new.end < old.end)
       THEN <<[old EXCEPT !.start = new.end + 1]>> ELSE << >>

\* extract: what is left of old when new is cut out, in list order.
extract(old, new) ==
  (IF new.start > old.start THEN <<[old EXCEPT !.end = new.start - 1]>> ELSE << >>)
  \o (IF new.end # EOF /\ (old.end = EOF \/ new.end < old.end)
      THEN <<[old EXCEPT !.start = new.end + 1]>> ELSE << >>)

\* remlock goes on from a with the lock k: what is left of it stays on the
\* list, as long as there is a structure for a second piece.
remlockStep(a, k, l) ==
  LET rest == extract(k, l)
      more == a.free + 1 - Len(rest)
  IN IF ~a.ok \/ ~nextmeet(l, k) \/ k.proc # l.proc
     THEN [a EXCEPT !.list = Append(@, k)]
     ELSE IF more < 0 THEN [a EXCEPT !.list = Append(@, k), !.ok = FALSE]
     ELSE [a EXCEPT !.list = @ \o rest, !.free = more]

\* remlock: cuts l out of the owner's locks on a list, with free structures
\* left over.  It stops at the first lock that it cannot split.
remlock(list, l, free) ==
  LET upto[n \in 0 .. Len(list)] ==
        IF n = 0 THEN [list |-> << >>, free |-> free, ok |-> TRUE]
        ELSE remlockStep(upto[n - 1], list[n], l)
  IN upto[Len(list)]

\* The list after freelock of the elements at the places in S.
freelock(list, S) ==
  LET upto[n \in 0 .. Len(list)] ==
        IF n = 0 THEN << >>
        ELSE IF n \in S THEN upto[n - 1] ELSE Append(upto[n - 1], list[n])
  IN upto[Len(list)]

\* The lock of addlock after it was combined with its neighbours near.
Combined(l, near) ==
  [l EXCEPT !.start = Min({@} \cup {k.start : k \in near}),
            !.end = IF EOF \in {@} \cup {k.end : k \in near} THEN EOF
                    ELSE Max({@} \cup {k.end : k \in near})]

\* addlock: neighbours and overlapping locks of the same type and owner are
\* combined with l; of the other type they are cut, as far as remlock gets.
addlock(list, l, free) ==
  LET wide == [l EXCEPT !.start = IF @ = 0 THEN 0 ELSE @ - 1,
                        !.end = IF @ = EOF THEN EOF ELSE @ + 1]
      near == {i \in DOMAIN list : /\ nextmeet(wide, list[i]) /\ list[i].proc = l.proc
                                   /\ list[i].type = l.type}
      new == Combined(l, {list[i] : i \in near})
      room == free + Cardinality(near)
      r == remlock(freelock(list, near), new, room - 1)
  IN IF room = 0 THEN [list |-> list, free |-> free]  \* ENOLCK
     ELSE [list |-> <<new>> \o r.list, free |-> r.free]

\* Whom p waits for.
WaitsFor(p) == IF p_prl[p] = Nothing THEN {} ELSE Blockers(p_prl[p].file, p_prl[p].lock)

\* waiting: q waits for self, directly or through others.
waiting(q, self) ==
  LET reach[n \in 0 .. Cardinality(RlProcs)] ==
        IF n = 0 THEN WaitsFor(q)
        ELSE reach[n - 1] \cup UNION {WaitsFor(r) : r \in reach[n - 1] \ {self}}
  IN self \in reach[Cardinality(RlProcs)]

----------------------------------------------------------------------------
\* wakeup (org) at the end of rlock, as the new state of every process.
rlWoken(f, pcs) ==
  [p \in RlProcs |-> IF pcs[p] = "sleep" /\ p_prl[p].file = f THEN "woken" ELSE pcs[p]]

Result(f, r) ==
  /\ i_rl' = [i_rl EXCEPT ![f] = r.list]
  /\ freerl' = r.free

\* F_UNLCK; it may fail half way with ENOLCK.
rlockUNLCK(p, f, l) ==
  /\ rlPc[p] = "run"
  /\ Result(f, remlock(i_rl[f], l, freerl))
  /\ rlPc' = rlWoken(f, rlPc)
  /\ UNCHANGED p_prl

\* fd_close removes all locks of the process on a file that has any.
fd_close(p, f) ==
  /\ i_rl[f] # << >>
  /\ rlockUNLCK(p, f, [type |-> 1, start |-> 0, end |-> EOF, proc |-> p])

\* F_SETLK, and F_SETLKW when nothing is in the way.
rlockSETLK(p, f, l) ==
  /\ rlPc[p] = "run"
  /\ Blockers(f, l) = {}
  /\ Result(f, addlock(i_rl[f], l, freerl))
  /\ rlPc' = rlWoken(f, rlPc)
  /\ UNCHANGED p_prl

\* F_SETLK that is in conflict, and F_SETLKW when no structure is left to
\* wait with: an error, but rlock calls wakeup.
rlockRefused(p, f, l) ==
  /\ rlPc[p] = "run"
  /\ Blockers(f, l) # {}
  /\ rlPc' = rlWoken(f, rlPc)
  /\ UNCHANGED <<i_rl, freerl, p_prl>>

\* Mutant: the test for a deadlock looks at the first lock in the way only.
DeadlyFirst(p, f, l) ==
  \E i \in DOMAIN i_rl[f] :
    /\ nextblock(l, i_rl[f][i]) /\ waiting(i_rl[f][i].proc, p)
    /\ \A j \in 1 .. i - 1 : ~nextblock(l, i_rl[f][j])

\* waitlock tests for a deadlock with every process in its way.
Deadly(p, f, l) == \E q \in Blockers(f, l) : waiting(q, p)

\* F_SETLKW that must wait.  A deadlock gives the structure back at once.
waitlock(p, f, l) ==
  /\ rlPc[p] = "run"
  /\ Blockers(f, l) # {} /\ freerl > 0
  /\ IF Deadly(p, f, l)
     THEN /\ rlPc' = rlWoken(f, rlPc)
          /\ UNCHANGED <<freerl, p_prl>>
     ELSE /\ rlPc' = [rlPc EXCEPT ![p] = "sleep"]
          /\ freerl' = freerl - 1
          /\ p_prl' = [p_prl EXCEPT ![p] = [file |-> f, lock |-> l]]
  /\ UNCHANGED i_rl

RlSignal(p) ==
  /\ rlPc[p] = "sleep"
  /\ rlPc' = [rlPc EXCEPT ![p] = "intr"]
  /\ UNCHANGED <<i_rl, freerl, p_prl>>

\* The macro cleanup of waitlock, and the return to rlock's wakeup.
cleanup(p) == p_prl' = [p_prl EXCEPT ![p] = Nothing] /\ freerl' = freerl + 1

\* waitlock after x_sleep: EINTR, or EDEADLK when another lock came in the way.
waitlockFails(p) ==
  LET f == p_prl[p].file
      l == p_prl[p].lock
  IN /\ \/ rlPc[p] = "intr"
        \/ rlPc[p] = "woken" /\ Deadly(p, f, l)
     /\ cleanup(p)
     /\ rlPc' = rlWoken(f, [rlPc EXCEPT ![p] = "run"])
     /\ UNCHANGED i_rl

waitlockAgain(p) ==
  LET f == p_prl[p].file
      l == p_prl[p].lock
  IN /\ rlPc[p] = "woken"
     /\ Blockers(f, l) # {} /\ ~Deadly(p, f, l)
     /\ rlPc' = [rlPc EXCEPT ![p] = "sleep"]
     /\ UNCHANGED <<i_rl, freerl, p_prl>>

waitlockGets(p) ==
  LET f == p_prl[p].file
      l == p_prl[p].lock
  IN /\ rlPc[p] = "woken"
     /\ Blockers(f, l) = {}
     /\ p_prl' = [p_prl EXCEPT ![p] = Nothing]
     /\ Result(f, addlock(i_rl[f], l, freerl + 1))
     /\ rlPc' = rlWoken(f, [rlPc EXCEPT ![p] = "run"])

RlRequest(p, t, r) == [type |-> t, start |-> r[1], end |-> r[2], proc |-> p]

RlNext ==
  \E p \in RlProcs :
    \/ \E f \in RlFiles :
         \/ fd_close(p, f)
         \/ \E r \in RlRanges : rlockUNLCK(p, f, RlRequest(p, 1, r))
         \/ \E t \in {0, 1}, r \in RlRanges :
              \/ rlockSETLK(p, f, RlRequest(p, t, r))
              \/ rlockRefused(p, f, RlRequest(p, t, r))
              \/ waitlock(p, f, RlRequest(p, t, r))
    \/ RlSignal(p)
    \/ waitlockFails(p)
    \/ waitlockAgain(p)
    \/ waitlockGets(p)

RlSpec == RlInit /\ [][RlNext]_rlVars

----------------------------------------------------------------------------
\* Every lock structure is on one list: in use, waited with, or free.
\* getlock, freelock, extract and cleanup move them one at a time, with
\* error returns in between.
RlConserved ==
  freerl + SumFunction([f \in RlFiles |-> Len(i_rl[f])])
    + Cardinality({p \in RlProcs : p_prl[p] # Nothing}) = RLOCKS

\* No cycle of processes that wait for each other's locks ever forms, on one
\* file or over several: waitlock refuses the request that would close one.
\* This is also what makes the recursion of waiting () end.
RlNoCycle == \A p \in RlProcs : ~waiting(p, p)

\* "Sleep until possible to install rl in list": who sleeps is in conflict
\* with a lock, whatever was unlocked, split, combined or refused since.
RlNoLostWakeup ==
  \A p \in RlProcs : rlPc[p] = "sleep" => WaitsFor(p) # {}

\* Lock structures are conserved, waits form no cycle, and every wait is for
\* somebody.
RlSound == RlConserved /\ RlNoCycle /\ RlNoLostWakeup

\* The lists as bytes: EOF is the last byte.
RlBytes(l) == l.start .. (IF l.end = EOF THEN RlLast ELSE l.end)
RlHeld ==
  [f \in RlFiles |->
     UNION {{i_rl[f][i].proc} \X RlBytes(i_rl[f][i]) \X {i_rl[f][i].type} : i \in DOMAIN i_rl[f]}]

ByteTable == INSTANCE ByteLocks WITH
  Procs <- RlProcs, Files <- RlFiles, Bytes <- 0 .. RlLast, held <- RlHeld

\* The lists with their combining, cutting and shortages implement a table
\* of bytes: no step gives a byte away that is held in conflict, and none
\* releases a byte but those it was asked to, of the process that asked.
RlImplementsBytes == ByteTable!BytesSpec
====
