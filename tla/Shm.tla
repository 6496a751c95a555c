---- MODULE Shm ----
(***************************************************************************)
(* The life of shared memory segments, conf/shm/src/shm1.c and             *)
(* i386/shm0.c.  A segment is freed when its identifier is removed and the *)
(* last attachment goes, whichever comes later.  Attachments come and go   *)
(* by shmat, shmdt, fork, exec and exit.  No call here sleeps.  What the   *)
(* memory management unit is told (shmLoad, pdCheck) is left out, and so   *)
(* are calls refused without a change.  sys_id = SHMMNI, which ushmat      *)
(* takes and reads behind its arrays for, is left out too.                 *)
(***************************************************************************)
EXTENDS Integers, FiniteSets, FiniteSetsExt

CONSTANTS
  ShmProcs, ShmSegs,
  SHMMNI,      \* identifiers
  NSHMSEG,     \* attachments of a process
  ShmFresh,    \* what shm_nattch may hold in memory that shminit gets
  ShmNull,     \* what s_urefc may read as at the address 0 of a process
  NoSeg,       \* the NULL pointer
  MaxGets      \* bound on the segments ever made

ASSUME ShmAssumption ==
  /\ SHMMNI \in Nat \ {0} /\ NSHMSEG \in Nat \ {0} /\ MaxGets \in Nat
  /\ NoSeg \notin ShmSegs /\ ShmFresh \subseteq Nat /\ ShmNull \subseteq Nat

ShmIds == 0 .. SHMMNI - 1
SlotIdx == 0 .. NSHMSEG - 1

VARIABLES
  shmAlloc,    \* shmAlloc[i]: __IPC_ALLOC
  shmsegs,     \* shmsegs[i]: the segment of identifier i, or NoSeg
  shm_nattch,  \* shm_nattch[i]
  s_urefc,     \* s_urefc[s]; s_lrefc is always the same.  0: s is free memory
  SRFBERM,     \* the segments to be removed with their last attachment
  p_shmsr,     \* p_shmsr[p][k]: the segment attached in place k, or NoSeg
  shmProc,     \* the processes that exist
  shmGets      \* how many segments were made

shmVars == <<shmAlloc, shmsegs, shm_nattch, s_urefc, SRFBERM, p_shmsr, shmProc, shmGets>>

ShmInit ==
  /\ shmAlloc = [i \in ShmIds |-> FALSE]
  /\ shmsegs = [i \in ShmIds |-> NoSeg]
  /\ shm_nattch \in [ShmIds -> ShmFresh]
  /\ s_urefc = [s \in ShmSegs |-> 0]
  /\ SRFBERM = {}
  /\ p_shmsr = [p \in ShmProcs |-> [k \in SlotIdx |-> NoSeg]]
  /\ shmProc = {CHOOSE p \in ShmProcs : TRUE}
  /\ shmGets = 0

\* ushmget, when it makes a segment: shm_nattch keeps what the slot had.  Of
\* the free slots the one with the oldest shm_ctime is taken; times are in
\* seconds, so it may be any.
ushmget(p, i, s) ==
  /\ p \in shmProc
  /\ ~shmAlloc[i] /\ s_urefc[s] = 0 /\ shmGets < MaxGets
  /\ shmGets' = shmGets + 1
  /\ shmAlloc' = [shmAlloc EXCEPT ![i] = TRUE]
  /\ shmsegs' = [shmsegs EXCEPT ![i] = s]
  /\ s_urefc' = [s_urefc EXCEPT ![s] = 1]
  /\ SRFBERM' = SRFBERM \ {s}
  /\ UNCHANGED <<shm_nattch, p_shmsr, shmProc>>

\* segp->s_urefc - 1 after shmAttach.
AttachCount(s) == s_urefc[s]

\* ushmat takes the first free place.  It asks for seq = sys_id, which a made
\* identifier has.
ushmat(p, i, k) ==
  /\ p \in shmProc /\ shmAlloc[i]
  /\ p_shmsr[p][k] = NoSeg /\ \A j \in 0 .. k - 1 : p_shmsr[p][j] # NoSeg
  /\ p_shmsr' = [p_shmsr EXCEPT ![p][k] = shmsegs[i]]
  /\ s_urefc' = [s_urefc EXCEPT ![shmsegs[i]] = @ + 1]
  /\ shm_nattch' = [shm_nattch EXCEPT ![i] = AttachCount(shmsegs[i])]
  /\ UNCHANGED <<shmAlloc, shmsegs, SRFBERM, shmProc, shmGets>>

\* ushmat of an identifier that is not allocated.  Only 0 passes for one, whose
\* seq is then 0 as well, and only to the super user.  It has no segment: the
\* place written stays free, the counts are raised in the caller's own memory
\* at address 0, and shm_nattch is set from what was there.
ushmatNull(p) ==
  /\ p \in shmProc /\ ~shmAlloc[0]
  /\ \E k \in SlotIdx : p_shmsr[p][k] = NoSeg
  /\ \E n \in ShmNull : shm_nattch' = [shm_nattch EXCEPT ![0] = n]
  /\ UNCHANGED <<shmAlloc, shmsegs, s_urefc, SRFBERM, p_shmsr, shmProc, shmGets>>

\* The references that the places ks of p make to segment s.
Refs(p, ks, s) == Cardinality({k \in ks : p_shmsr[p][k] = s})

\* shmFree at the end of shmDetachP.
Freed(s, urefc) == IF s \in SRFBERM /\ urefc = 1 THEN 0 ELSE urefc

\* shmDetachP of the places ks of p: shmSetDs writes the count of attachments
\* where the segment still has its identifier.
shmDetach(p, ks) ==
  LET gone == {p_shmsr[p][k] : k \in ks} \ {NoSeg}
      urefc == [s \in ShmSegs |-> s_urefc[s] - Refs(p, ks, s)]
  IN /\ p_shmsr' = [p_shmsr EXCEPT ![p] = [k \in SlotIdx |-> IF k \in ks THEN NoSeg ELSE @[k]]]
     /\ shm_nattch' = [i \in ShmIds |->
                         IF shmsegs[i] \in gone THEN urefc[shmsegs[i]] - 1 ELSE shm_nattch[i]]
     /\ s_urefc' = [s \in ShmSegs |-> IF s \in gone THEN Freed(s, urefc[s]) ELSE s_urefc[s]]
     /\ UNCHANGED <<shmAlloc, shmsegs, SRFBERM, shmGets>>

ushmdt(p, k) ==
  /\ p \in shmProc /\ p_shmsr[p][k] # NoSeg
  /\ shmDetach(p, {k})
  /\ UNCHANGED shmProc

\* shmAllDt, called by exec, which keeps the process, and by exit.
shmAllDt(p) ==
  /\ p \in shmProc
  /\ shmDetach(p, SlotIdx)
  /\ shmProc' \in {shmProc, shmProc \ {p}}

\* Mutant: fork copies the attachments without counting them.
DupRefsNot(p) == s_urefc

DupRefs(p) == [s \in ShmSegs |-> s_urefc[s] + Refs(p, SlotIdx, s)]

\* shmDup, called by fork: shm_nattch is not told.
shmDup(p, c) ==
  /\ p \in shmProc /\ c \notin shmProc
  /\ shmProc' = shmProc \cup {c}
  /\ p_shmsr' = [p_shmsr EXCEPT ![c] = p_shmsr[p]]
  /\ s_urefc' = DupRefs(p)
  /\ UNCHANGED <<shmAlloc, shmsegs, shm_nattch, SRFBERM, shmGets>>

\* IPC_RMID frees the segment at once when the slot says nobody has it.
RmidFreesNow(i) == shm_nattch[i] = 0 /\ s_urefc[shmsegs[i]] = 1

ushmctlRMID(p, i) ==
  LET s == shmsegs[i] IN
  /\ p \in shmProc /\ shmAlloc[i]
  /\ shmAlloc' = [shmAlloc EXCEPT ![i] = FALSE]
  /\ shmsegs' = [shmsegs EXCEPT ![i] = NoSeg]
  /\ SRFBERM' = IF shm_nattch[i] > 0 THEN SRFBERM \cup {s} ELSE SRFBERM
  /\ s_urefc' = IF RmidFreesNow(i) THEN [s_urefc EXCEPT ![s] = 0] ELSE s_urefc
  /\ UNCHANGED <<shm_nattch, p_shmsr, shmProc, shmGets>>

ShmNext ==
  \E p \in ShmProcs :
    \/ \E i \in ShmIds : \/ \E s \in ShmSegs : ushmget(p, i, s)
                         \/ \E k \in SlotIdx : ushmat(p, i, k)
                         \/ ushmctlRMID(p, i)
    \/ ushmatNull(p)
    \/ \E k \in SlotIdx : ushmdt(p, k)
    \/ shmAllDt(p)
    \/ \E c \in ShmProcs : shmDup(p, c)

ShmSpec == ShmInit /\ [][ShmNext]_shmVars

----------------------------------------------------------------------------
Attached(s) == {x \in ShmProcs \X SlotIdx : p_shmsr[x[1]][x[2]] = s}

\* A segment that is attached or has an identifier is not free memory, and
\* only dead processes have no claim: it never goes while somebody can reach
\* it, in whatever order it is removed, forked, detached and exited.
ShmNoDangling ==
  /\ \A s \in ShmSegs : Attached(s) # {} => s_urefc[s] > 0
  /\ \A i \in ShmIds : shmAlloc[i] => shmsegs[i] # NoSeg /\ s_urefc[shmsegs[i]] > 0
  /\ \A i, j \in ShmIds : shmsegs[i] = shmsegs[j] /\ shmsegs[i] # NoSeg => i = j

\* "The reference counts s_urefc and s_lrefc for a shm segment are 1 at the
\* time of allocation.  Each attachment to a new process and each fork of an
\* already attached process will increment these."
ShmRefsExact ==
  \A s \in ShmSegs : s_urefc[s] > 0 => s_urefc[s] = 1 + Cardinality(Attached(s))

\* fork does not raise shm_nattch, so it is no count; but it is 0 only for a
\* segment nobody has attached, which is what IPC_RMID relies on.
ShmNattchTells ==
  \A i \in ShmIds : shmAlloc[i] /\ shm_nattch[i] = 0 => Attached(shmsegs[i]) = {}

\* Segments live as long as somebody can reach them, and both counts tell who
\* that is.
ShmExact == ShmNoDangling /\ ShmRefsExact /\ ShmNattchTells

\* "If it was last attachment and segment was marked to be removed, remove
\* it": memory nobody can reach by an identifier or an address is freed.  Not
\* an invariant: an identifier made anew keeps the shm_nattch of the segment it
\* had, and its IPC_RMID then leaves the new one to a detach that never comes.
ShmNoLeak ==
  \A s \in ShmSegs :
    s_urefc[s] > 0 => Attached(s) # {} \/ \E i \in ShmIds : shmsegs[i] = s
====
