---- MODULE IpcProofs ----
(***************************************************************************)
(* Proofs about System V IPC: the life of shared memory segments, and the  *)
(* order, the wakeups and the accounts of message queues, for any number   *)
(* of processes, segments, queues and messages.                            *)
(***************************************************************************)
EXTENDS Shm, Msg, SumProofs

----------------------------------------------------------------------------
(* Shared memory.                                                          *)

\* The attachments to segment s, when f tells what is attached where.
Att(f, s) == {x \in ShmProcs \X SlotIdx : f[x[1]][x[2]] = s}

Places(f, p, ks, s) == {k \in ks : f[p][k] = s}

LEMMA AttachedAre ==
  \A s : Attached(s) = Att(p_shmsr, s)
BY DEF Attached, Att

Shares == [ShmProcs -> [SlotIdx -> ShmSegs \cup {NoSeg}]]

Counted(f) == f \in Shares /\ \A s \in ShmSegs : IsFiniteSet(Att(f, s))

\* p gives up the places ks.
Drops(f, g, p, ks) ==
  /\ Counted(f) /\ p \in ShmProcs /\ ks \subseteq SlotIdx
  /\ g = [f EXCEPT ![p] = [k \in SlotIdx |-> IF k \in ks THEN NoSeg ELSE @[k]]]

LEMMA AttLess ==
  ASSUME NEW f, NEW g, NEW p, NEW ks, Drops(f, g, p, ks), NEW s \in ShmSegs
  PROVE  /\ IsFiniteSet(Att(g, s)) /\ g \in Shares
         /\ Cardinality(Places(f, p, ks, s)) \in Nat
         /\ Cardinality(Att(g, s)) = Cardinality(Att(f, s)) - Cardinality(Places(f, p, ks, s))
         /\ Places(f, p, ks, s) = {} => Att(g, s) = Att(f, s)
<1> USE ShmAssumption DEF Shares, Counted, Drops
<1> DEFINE K == Places(f, p, ks, s)
           gone == {p} \X K
<1>0. g \in Shares
  OBVIOUS
<1>1. gone \subseteq Att(f, s)
  BY DEF Att, Places
<1>2. Att(g, s) = Att(f, s) \ gone
  <2>1. ASSUME NEW x \in ShmProcs \X SlotIdx
        PROVE  g[x[1]][x[2]] = s <=> f[x[1]][x[2]] = s /\ x \notin gone
    <3>1. PICK q \in ShmProcs, k \in SlotIdx : x = <<q, k>>
      OBVIOUS
    <3>2. g[q][k] = IF q = p /\ k \in ks THEN NoSeg ELSE f[q][k]
      OBVIOUS
    <3>3. x \in gone <=> q = p /\ k \in ks /\ f[p][k] = s
      BY <3>1 DEF Places
    <3> QED BY <3>1, <3>2, <3>3
  <2> QED BY <2>1 DEF Att
<1>3. IsFiniteSet(SlotIdx)
  BY FS_Interval DEF SlotIdx
<1>4. IsFiniteSet(K) /\ Cardinality(K) \in Nat
  BY <1>3, FS_Subset, FS_CardinalityType DEF Places
<1>5. Cardinality(gone) = Cardinality(K)
  <2>1. IsFiniteSet({p}) /\ Cardinality({p}) = 1
    BY FS_Singleton
  <2>2. Cardinality(gone) = Cardinality({p}) * Cardinality(K)
    BY <1>4, <2>1, FS_Product
  <2> QED BY <1>4, <2>1, <2>2
<1>6. Att(f, s) \cap gone = gone
  BY <1>1
<1> HIDE DEF K, gone
<1>7. /\ IsFiniteSet(Att(g, s))
      /\ Cardinality(Att(g, s)) = Cardinality(Att(f, s)) - Cardinality(K)
  <2>1. /\ IsFiniteSet(Att(f, s) \ gone)
        /\ Cardinality(Att(f, s) \ gone)
             = Cardinality(Att(f, s)) - Cardinality(Att(f, s) \cap gone)
    BY FS_Difference
  <2> QED BY <1>2, <1>5, <1>6, <2>1
<1>8. K = {} => gone = {}
  BY DEF gone
<1> QED BY <1>0, <1>2, <1>4, <1>7, <1>8 DEF K

\* c, which had nothing attached, takes over what p has.
Copies(f, g, p, c) ==
  /\ Counted(f) /\ p \in ShmProcs /\ c \in ShmProcs /\ c # p
  /\ \A k \in SlotIdx : f[c][k] = NoSeg
  /\ g = [f EXCEPT ![c] = f[p]]

LEMMA AttMore ==
  ASSUME NEW f, NEW g, NEW p, NEW c, Copies(f, g, p, c), NEW s \in ShmSegs
  PROVE  /\ IsFiniteSet(Att(g, s)) /\ g \in Shares
         /\ Cardinality(Places(f, p, SlotIdx, s)) \in Nat
         /\ Cardinality(Att(g, s)) = Cardinality(Att(f, s)) + Cardinality(Places(f, p, SlotIdx, s))
         /\ Att(f, s) = {} => Att(g, s) = {}
<1> USE ShmAssumption DEF Shares, Counted, Copies
<1> DEFINE K == Places(f, p, SlotIdx, s)
           new == {c} \X K
<1>0. g \in Shares
  OBVIOUS
<1>1. Att(f, s) \cap new = {}
  BY DEF Att, Places
<1>2. Att(g, s) = Att(f, s) \cup new
  <2>1. ASSUME NEW x \in ShmProcs \X SlotIdx
        PROVE  g[x[1]][x[2]] = s <=> f[x[1]][x[2]] = s \/ x \in new
    <3>1. PICK q \in ShmProcs, k \in SlotIdx : x = <<q, k>>
      OBVIOUS
    <3>2. g[q][k] = IF q = c THEN f[p][k] ELSE f[q][k]
      OBVIOUS
    <3>3. x \in new <=> q = c /\ f[p][k] = s
      BY <3>1 DEF Places
    <3> QED BY <3>1, <3>2, <3>3
  <2>2. new \subseteq ShmProcs \X SlotIdx
    BY DEF Places
  <2> QED BY <2>1, <2>2 DEF Att
<1>3. IsFiniteSet(SlotIdx)
  BY FS_Interval DEF SlotIdx
<1>4. IsFiniteSet(K) /\ Cardinality(K) \in Nat
  BY <1>3, FS_Subset, FS_CardinalityType DEF Places
<1>5. Cardinality(new) = Cardinality(K) /\ IsFiniteSet(new)
  <2>1. IsFiniteSet({c}) /\ Cardinality({c}) = 1
    BY FS_Singleton
  <2>2. Cardinality(new) = Cardinality({c}) * Cardinality(K) /\ IsFiniteSet(new)
    BY <1>4, <2>1, FS_Product
  <2> QED BY <1>4, <2>1, <2>2
<1>6. Att(f, s) = {} => K = {} /\ new = {}
  <2>1. ASSUME NEW k \in K PROVE <<p, k>> \in Att(f, s)
    BY DEF Att, Places
  <2> QED BY <2>1
<1> HIDE DEF K, new
<1>7. /\ IsFiniteSet(Att(g, s))
      /\ Cardinality(Att(g, s)) = Cardinality(Att(f, s)) + Cardinality(K)
  <2>1. /\ IsFiniteSet(Att(f, s) \cup new)
        /\ Cardinality(Att(f, s) \cup new)
             = Cardinality(Att(f, s)) + Cardinality(new) - Cardinality(Att(f, s) \cap new)
    BY <1>5, FS_Union
  <2>2. Cardinality(Att(f, s) \cap new) = 0
    BY <1>1, FS_EmptySet
  <2>3. Cardinality(Att(f, s)) \in Nat
    BY FS_CardinalityType
  <2>4. Cardinality(Att(f, s) \cup new) = Cardinality(Att(f, s)) + Cardinality(K)
    BY <1>4, <1>5, <2>1, <2>2, <2>3
  <2> QED BY <1>2, <2>1, <2>4
<1>8. Att(f, s) = {} => Att(g, s) = {}
  BY <1>2, <1>6
<1> QED BY <1>0, <1>4, <1>7, <1>8 DEF K

\* p attaches s in the free place k.
Attaches(f, g, p, k, s) ==
  /\ Counted(f) /\ p \in ShmProcs /\ k \in SlotIdx /\ s \in ShmSegs
  /\ f[p][k] = NoSeg
  /\ g = [f EXCEPT ![p][k] = s]

LEMMA AttOne ==
  ASSUME NEW f, NEW g, NEW p, NEW k, NEW s, Attaches(f, g, p, k, s), NEW t \in ShmSegs
  PROVE  /\ IsFiniteSet(Att(g, t)) /\ g \in Shares
         /\ Cardinality(Att(g, t)) = Cardinality(Att(f, t)) + (IF t = s THEN 1 ELSE 0)
         /\ t # s => Att(g, t) = Att(f, t)
<1> USE ShmAssumption DEF Shares, Counted, Attaches
<1>0. g \in Shares
  OBVIOUS
<1>1. Att(g, t) = IF t = s THEN Att(f, t) \cup {<<p, k>>} ELSE Att(f, t)
  <2>1. ASSUME NEW x \in ShmProcs \X SlotIdx
        PROVE  g[x[1]][x[2]] = t <=> f[x[1]][x[2]] = t \/ (t = s /\ x = <<p, k>>)
    <3>1. PICK q \in ShmProcs, j \in SlotIdx : x = <<q, j>>
      OBVIOUS
    <3>2. g[q][j] = IF q = p /\ j = k THEN s ELSE f[q][j]
      OBVIOUS
    <3> QED BY <3>1, <3>2
  <2> QED BY <2>1 DEF Att
<1>2. <<p, k>> \notin Att(f, t)
  BY DEF Att
<1>3. Cardinality(Att(f, t)) \in Nat
  BY FS_CardinalityType
<1>4. CASE t = s
  <2>1. /\ IsFiniteSet(Att(f, t) \cup {<<p, k>>})
        /\ Cardinality(Att(f, t) \cup {<<p, k>>}) = Cardinality(Att(f, t)) + 1
    BY <1>2, FS_AddElement
  <2> QED BY <1>0, <1>1, <1>4, <2>1
<1> QED BY <1>0, <1>1, <1>3, <1>4

----
ShmTypes ==
  /\ shmAlloc \in [ShmIds -> BOOLEAN]
  /\ shmsegs \in [ShmIds -> ShmSegs \cup {NoSeg}]
  /\ shm_nattch \in [ShmIds -> Nat]
  /\ s_urefc \in [ShmSegs -> Nat]
  /\ p_shmsr \in Shares

\* Only processes that exist have anything attached.
ShmOwned ==
  /\ \A p \in ShmProcs \ shmProc : \A k \in SlotIdx : p_shmsr[p][k] = NoSeg
  /\ \A s \in ShmSegs : IsFiniteSet(Att(p_shmsr, s))

\* A segment with an identifier is in use and not to be removed.
ShmKnown ==
  /\ \A i \in ShmIds :
       /\ shmAlloc[i] <=> shmsegs[i] # NoSeg
       /\ shmAlloc[i] => s_urefc[shmsegs[i]] > 0 /\ shmsegs[i] \notin SRFBERM
  /\ \A i, j \in ShmIds : shmsegs[i] = shmsegs[j] /\ shmsegs[i] # NoSeg => i = j

\* s_urefc counts the attachments, with one for the segment itself; what is
\* free memory nobody has attached.
ShmCounted ==
  \A s \in ShmSegs :
    /\ s_urefc[s] > 0 => s_urefc[s] = 1 + Cardinality(Att(p_shmsr, s))
    /\ s_urefc[s] = 0 => Att(p_shmsr, s) = {}

ShmTells ==
  \A i \in ShmIds : shmAlloc[i] /\ shm_nattch[i] = 0 => Att(p_shmsr, shmsegs[i]) = {}

ShmInv == ShmTypes /\ ShmOwned /\ ShmKnown /\ ShmCounted /\ ShmTells

LEMMA ShmInitInv == ShmInit => ShmInv
<1> SUFFICES ASSUME ShmInit PROVE ShmInv
  OBVIOUS
<1> USE ShmAssumption DEF ShmInit
<1>1. ShmTypes
  BY DEF ShmTypes, Shares
<1>2. ASSUME NEW s \in ShmSegs PROVE Att(p_shmsr, s) = {} /\ IsFiniteSet(Att(p_shmsr, s))
  <2>1. Att(p_shmsr, s) = {}
    BY DEF Att
  <2> QED BY <2>1, FS_EmptySet
<1>3. ShmOwned /\ ShmKnown /\ ShmCounted /\ ShmTells
  BY <1>2 DEF ShmOwned, ShmKnown, ShmCounted, ShmTells
<1> QED BY <1>1, <1>3 DEF ShmInv

LEMMA ShmGet ==
  ASSUME ShmInv, NEW p \in ShmProcs, NEW i \in ShmIds, NEW s \in ShmSegs, ushmget(p, i, s)
  PROVE  ShmInv'
<1> USE ShmAssumption DEF ShmInv, ushmget
<1>1. ShmTypes'
  BY DEF ShmTypes
<1>2. ShmOwned'
  BY DEF ShmOwned
<1>3. Att(p_shmsr, s) = {} /\ Cardinality(Att(p_shmsr, s)) = 0
  BY FS_EmptySet DEF ShmCounted
<1>4. ASSUME NEW j \in ShmIds, shmAlloc[j] PROVE shmsegs[j] # s /\ s_urefc[shmsegs[j]] > 0
  BY <1>4 DEF ShmKnown
<1>5. ShmKnown'
  BY <1>4 DEF ShmKnown, ShmTypes
<1>6. ShmCounted'
  <2>1. s_urefc' = [s_urefc EXCEPT ![s] = 1] /\ p_shmsr' = p_shmsr
    OBVIOUS
  <2>2. ASSUME NEW t \in ShmSegs, t # s PROVE s_urefc'[t] = s_urefc[t]
    BY <2>1, <2>2 DEF ShmTypes
  <2>3. s_urefc'[s] = 1
    BY <2>1 DEF ShmTypes
  <2> QED BY <1>3, <2>1, <2>2, <2>3 DEF ShmCounted
<1>7. ShmTells'
  BY <1>3, <1>4 DEF ShmTells, ShmTypes
<1> QED BY <1>1, <1>2, <1>5, <1>6, <1>7

LEMMA ShmAt ==
  ASSUME ShmInv, NEW p \in ShmProcs, NEW i \in ShmIds, NEW k \in SlotIdx, ushmat(p, i, k)
  PROVE  ShmInv'
<1> USE ShmAssumption DEF ShmInv, ushmat
<1> DEFINE s == shmsegs[i]
<1>1. s \in ShmSegs /\ s_urefc[s] > 0
  BY DEF ShmKnown, ShmTypes
<1>2. /\ p_shmsr \in Shares /\ p_shmsr[p][k] = NoSeg
      /\ p_shmsr' = [p_shmsr EXCEPT ![p][k] = s]
  BY DEF ShmTypes
<1>3. ASSUME NEW t \in ShmSegs
      PROVE  /\ IsFiniteSet(Att(p_shmsr', t)) /\ p_shmsr' \in Shares
             /\ Cardinality(Att(p_shmsr', t))
                  = Cardinality(Att(p_shmsr, t)) + (IF t = s THEN 1 ELSE 0)
             /\ t # s => Att(p_shmsr', t) = Att(p_shmsr, t)
  <2>1. Attaches(p_shmsr, p_shmsr', p, k, s)
    BY <1>1, <1>2 DEF Attaches, Counted, ShmOwned
  <2> QED BY <2>1, AttOne
<1>4. ASSUME NEW t \in ShmSegs PROVE Cardinality(Att(p_shmsr, t)) \in Nat
  BY FS_CardinalityType DEF ShmOwned
<1>5. ShmTypes'
  <2>1. p_shmsr' \in Shares
    BY <1>1, <1>3
  <2>2. s_urefc[s] + 1 \in Nat /\ AttachCount(s) \in Nat
    BY <1>1 DEF ShmTypes, AttachCount
  <2> QED BY <1>1, <2>1, <2>2 DEF ShmTypes
<1>6. ShmOwned'
  BY <1>3 DEF ShmOwned, ShmTypes, Shares
<1>7. ShmKnown'
  BY <1>1 DEF ShmKnown, ShmTypes
<1>8. ShmCounted'
  <2>1. ASSUME NEW t \in ShmSegs, t # s
        PROVE  s_urefc'[t] = s_urefc[t] /\ Att(p_shmsr', t) = Att(p_shmsr, t)
    BY <1>3, <2>1 DEF ShmTypes
  <2>2. s_urefc'[s] = 1 + Cardinality(Att(p_shmsr', s)) /\ s_urefc'[s] > 0
    <3>1. s_urefc'[s] = s_urefc[s] + 1
      BY <1>1 DEF ShmTypes
    <3>2. s_urefc[s] = 1 + Cardinality(Att(p_shmsr, s)) /\ s_urefc[s] \in Nat
      BY <1>1 DEF ShmCounted, ShmTypes
    <3>3. Cardinality(Att(p_shmsr', s)) = Cardinality(Att(p_shmsr, s)) + 1
      BY <1>1, <1>3
    <3> HIDE DEF s
    <3> QED BY <1>1, <1>4, <3>1, <3>2, <3>3
  <2>3. ASSUME NEW t \in ShmSegs
        PROVE  /\ s_urefc'[t] > 0 => s_urefc'[t] = 1 + Cardinality(Att(p_shmsr', t))
               /\ s_urefc'[t] = 0 => Att(p_shmsr', t) = {}
    <3>1. CASE t = s
      BY <2>2, <3>1
    <3>2. CASE t # s
      BY <2>1, <3>2 DEF ShmCounted
    <3> QED BY <3>1, <3>2
  <2> QED BY <2>3 DEF ShmCounted
<1>9. ShmTells'
  <2>1. ASSUME NEW j \in ShmIds, shmAlloc[j], j # i, shm_nattch[j] = 0
        PROVE  Att(p_shmsr', shmsegs[j]) = {}
    <3>1. shmsegs[j] \in ShmSegs /\ shmsegs[j] # s
      BY <1>1, <2>1 DEF ShmKnown, ShmTypes
    <3> QED BY <1>3, <2>1, <3>1 DEF ShmTells
  <2>2. shm_nattch'[i] # 0
    BY <1>1 DEF AttachCount, ShmTypes
  <2> QED BY <2>1, <2>2 DEF ShmTells, ShmTypes
<1> QED BY <1>5, <1>6, <1>7, <1>8, <1>9

LEMMA ShmAtNull ==
  ASSUME ShmInv, NEW p \in ShmProcs, ushmatNull(p)
  PROVE  ShmInv'
<1> USE ShmAssumption DEF ShmInv, ushmatNull
<1>1. ShmTypes'
  BY DEF ShmTypes
<1>2. ShmOwned' /\ ShmKnown' /\ ShmCounted'
  BY DEF ShmOwned, ShmKnown, ShmCounted
<1>3. ShmTells'
  BY DEF ShmTells, ShmTypes
<1> QED BY <1>1, <1>2, <1>3

\* What shmDetachP leaves of the attachments and of the counts.
LEMMA DetachCounts ==
  ASSUME ShmInv, NEW p \in ShmProcs, NEW ks \in SUBSET SlotIdx, shmDetach(p, ks),
         NEW s \in ShmSegs
  PROVE  /\ p_shmsr' \in Shares /\ IsFiniteSet(Att(p_shmsr', s))
         /\ s \notin {p_shmsr[p][k] : k \in ks} \ {NoSeg} =>
              s_urefc'[s] = s_urefc[s] /\ Att(p_shmsr', s) = Att(p_shmsr, s)
         /\ s \in {p_shmsr[p][k] : k \in ks} =>
              /\ s_urefc[s] - Refs(p, ks, s) = 1 + Cardinality(Att(p_shmsr', s))
              /\ s_urefc'[s] = Freed(s, s_urefc[s] - Refs(p, ks, s))
              /\ Cardinality(Att(p_shmsr', s)) \in Nat
<1> USE ShmAssumption
<1> DEFINE gone == {p_shmsr[p][k] : k \in ks} \ {NoSeg}
<1>0. ShmTypes /\ ShmOwned /\ ShmCounted
  BY DEF ShmInv
<1>1. Drops(p_shmsr, p_shmsr', p, ks)
  BY <1>0 DEF shmDetach, Drops, Counted, ShmTypes, ShmOwned
<1>2. /\ IsFiniteSet(Att(p_shmsr', s)) /\ p_shmsr' \in Shares
      /\ Cardinality(Places(p_shmsr, p, ks, s)) \in Nat
      /\ Cardinality(Att(p_shmsr', s))
           = Cardinality(Att(p_shmsr, s)) - Cardinality(Places(p_shmsr, p, ks, s))
      /\ Places(p_shmsr, p, ks, s) = {} => Att(p_shmsr', s) = Att(p_shmsr, s)
  BY <1>1, AttLess
<1>3. Refs(p, ks, s) = Cardinality(Places(p_shmsr, p, ks, s))
  BY DEF Refs, Places
<1>4. s_urefc'[s] = IF s \in gone THEN Freed(s, s_urefc[s] - Refs(p, ks, s)) ELSE s_urefc[s]
  BY DEF shmDetach
<1>5. s # NoSeg
  OBVIOUS
<1>6. ASSUME s \notin gone
      PROVE  s_urefc'[s] = s_urefc[s] /\ Att(p_shmsr', s) = Att(p_shmsr, s)
  <2>1. Places(p_shmsr, p, ks, s) = {}
    BY <1>5, <1>6 DEF Places
  <2> HIDE DEF gone
  <2> QED BY <1>2, <1>4, <1>6, <2>1
<1>7. ASSUME s \in {p_shmsr[p][k] : k \in ks}
      PROVE  /\ s_urefc[s] - Refs(p, ks, s) = 1 + Cardinality(Att(p_shmsr', s))
             /\ s_urefc'[s] = Freed(s, s_urefc[s] - Refs(p, ks, s))
             /\ Cardinality(Att(p_shmsr', s)) \in Nat
  <2>1. PICK k \in ks : p_shmsr[p][k] = s
    BY <1>7
  <2>2. Att(p_shmsr, s) # {}
    <3>1. <<p, k>> \in Att(p_shmsr, s)
      BY <2>1 DEF Att
    <3> QED BY <3>1
  <2>3. s_urefc[s] = 1 + Cardinality(Att(p_shmsr, s))
    BY <1>0, <2>2 DEF ShmCounted, ShmTypes
  <2>4. /\ Cardinality(Att(p_shmsr, s)) \in Nat /\ Cardinality(Att(p_shmsr', s)) \in Nat
    BY <1>0, <1>2, FS_CardinalityType DEF ShmOwned
  <2>5. s_urefc'[s] = Freed(s, s_urefc[s] - Refs(p, ks, s))
    BY <1>4, <1>5, <1>7
  <2>6. s_urefc[s] - Refs(p, ks, s) = 1 + Cardinality(Att(p_shmsr', s))
    BY <1>2, <1>3, <2>3, <2>4
  <2> QED BY <2>4, <2>5, <2>6
<1> QED BY <1>2, <1>6, <1>7

LEMMA ShmDetachInv ==
  ASSUME ShmInv, NEW p \in ShmProcs, p \in shmProc, NEW ks \in SUBSET SlotIdx,
         shmDetach(p, ks), shmProc' = shmProc \/ (ks = SlotIdx /\ shmProc' = shmProc \ {p})
  PROVE  ShmInv'
<1> USE ShmAssumption
<1> DEFINE gone == {p_shmsr[p][k] : k \in ks} \ {NoSeg}
<1>0. ShmTypes /\ ShmOwned /\ ShmCounted /\ ShmKnown /\ ShmTells
  BY DEF ShmInv
<1>1. gone \subseteq ShmSegs /\ \A s \in gone : s \in {p_shmsr[p][k] : k \in ks}
  BY <1>0 DEF ShmTypes, Shares
<1>2. UNCHANGED <<shmAlloc, shmsegs, SRFBERM>>
  BY DEF shmDetach
<1>3. ASSUME NEW s \in gone
      PROVE  /\ s \in ShmSegs /\ s_urefc[s] - Refs(p, ks, s) = 1 + Cardinality(Att(p_shmsr', s))
             /\ s_urefc'[s] = Freed(s, 1 + Cardinality(Att(p_shmsr', s)))
             /\ Cardinality(Att(p_shmsr', s)) \in Nat
             /\ IsFiniteSet(Att(p_shmsr', s))
             /\ Cardinality(Att(p_shmsr', s)) = 0 => Att(p_shmsr', s) = {}
  <2>1. s \in ShmSegs /\ s \in {p_shmsr[p][k] : k \in ks}
    BY <1>1
  <2>2. /\ s_urefc[s] - Refs(p, ks, s) = 1 + Cardinality(Att(p_shmsr', s))
        /\ s_urefc'[s] = Freed(s, s_urefc[s] - Refs(p, ks, s))
        /\ Cardinality(Att(p_shmsr', s)) \in Nat
        /\ IsFiniteSet(Att(p_shmsr', s))
    BY <2>1, DetachCounts
  <2> QED BY <2>1, <2>2, FS_EmptySet
<1>4. ASSUME NEW s \in ShmSegs, s \notin gone
      PROVE  s_urefc'[s] = s_urefc[s] /\ Att(p_shmsr', s) = Att(p_shmsr, s)
  BY <1>4, DetachCounts
<1>5. ASSUME NEW i \in ShmIds
      PROVE  shm_nattch'[i] = IF shmsegs[i] \in gone THEN Cardinality(Att(p_shmsr', shmsegs[i]))
                              ELSE shm_nattch[i]
  <2>1. CASE shmsegs[i] \in gone
    <3>1. shm_nattch'[i] = s_urefc[shmsegs[i]] - Refs(p, ks, shmsegs[i]) - 1
      BY <1>1, <2>1 DEF shmDetach
    <3> HIDE DEF gone
    <3> QED BY <1>3, <2>1, <3>1
  <2>2. CASE shmsegs[i] \notin gone
    BY <2>2 DEF shmDetach
  <2> QED BY <2>1, <2>2
<1>6. ShmTypes'
  <2>1. p_shmsr' \in Shares
    <3>1. CASE ShmSegs = {}
      BY <1>0, <3>1 DEF shmDetach, ShmTypes, Shares
    <3>2. CASE ShmSegs # {}
      BY <3>2, DetachCounts
    <3> QED BY <3>1, <3>2
  <2>2. ASSUME NEW s \in ShmSegs PROVE s_urefc'[s] \in Nat
    <3> HIDE DEF gone
    <3>1. CASE s \in gone
      BY <1>3, <3>1 DEF Freed
    <3>2. CASE s \notin gone
      BY <1>0, <1>4, <3>2 DEF ShmTypes
    <3> QED BY <3>1, <3>2
  <2>3. ASSUME NEW i \in ShmIds PROVE shm_nattch'[i] \in Nat
    <3> HIDE DEF gone
    <3> QED BY <1>0, <1>3, <1>5 DEF ShmTypes
  <2>4. /\ s_urefc' = [s \in ShmSegs |-> s_urefc'[s]]
        /\ shm_nattch' = [i \in ShmIds |-> shm_nattch'[i]]
    BY DEF shmDetach
  <2> QED BY <1>0, <1>2, <2>1, <2>2, <2>3, <2>4 DEF ShmTypes
<1>7. ShmOwned'
  <2>1. ASSUME NEW q \in ShmProcs \ shmProc', NEW k \in SlotIdx PROVE p_shmsr'[q][k] = NoSeg
    BY <1>0, <2>1 DEF shmDetach, ShmOwned, ShmTypes, Shares
  <2>2. ASSUME NEW s \in ShmSegs PROVE IsFiniteSet(Att(p_shmsr', s))
    BY <2>2, DetachCounts
  <2> QED BY <2>1, <2>2 DEF ShmOwned
<1> HIDE DEF gone
<1>8. ShmKnown'
  <2>1. ASSUME NEW i \in ShmIds, shmAlloc[i] PROVE s_urefc'[shmsegs[i]] > 0
    <3>1. /\ shmsegs[i] \in ShmSegs /\ s_urefc[shmsegs[i]] > 0
          /\ shmsegs[i] \notin SRFBERM
      BY <1>0, <2>1 DEF ShmKnown, ShmTypes
    <3>2. CASE shmsegs[i] \in gone
      BY <1>3, <3>1, <3>2 DEF Freed
    <3>3. CASE shmsegs[i] \notin gone
      BY <1>4, <3>1, <3>3
    <3> QED BY <3>2, <3>3
  <2> QED BY <1>0, <1>2, <2>1 DEF ShmKnown
<1>9. ShmCounted'
  <2>1. ASSUME NEW s \in ShmSegs
        PROVE  /\ s_urefc'[s] > 0 => s_urefc'[s] = 1 + Cardinality(Att(p_shmsr', s))
               /\ s_urefc'[s] = 0 => Att(p_shmsr', s) = {}
    <3>1. CASE s \in gone
      BY <1>3, <3>1 DEF Freed
    <3>2. CASE s \notin gone
      BY <1>0, <1>4, <3>2 DEF ShmCounted
    <3> QED BY <3>1, <3>2
  <2> QED BY <2>1 DEF ShmCounted
<1>10. ShmTells'
  <2>1. ASSUME NEW i \in ShmIds, shmAlloc[i], shm_nattch'[i] = 0
        PROVE  Att(p_shmsr', shmsegs[i]) = {}
    <3>1. CASE shmsegs[i] \in gone
      BY <1>3, <1>5, <2>1, <3>1
    <3>2. CASE shmsegs[i] \notin gone
      <4>1. shmsegs[i] \in ShmSegs
        BY <1>0, <2>1 DEF ShmKnown, ShmTypes
      <4> QED BY <1>0, <1>4, <1>5, <2>1, <3>2, <4>1 DEF ShmTells
    <3> QED BY <3>1, <3>2
  <2> QED BY <1>2, <2>1 DEF ShmTells
<1> QED BY <1>6, <1>7, <1>8, <1>9, <1>10 DEF ShmInv

LEMMA ShmFork ==
  ASSUME ShmInv, NEW p \in ShmProcs, NEW c \in ShmProcs, shmDup(p, c)
  PROVE  ShmInv'
<1> USE ShmAssumption
<1>0. ShmTypes /\ ShmOwned /\ ShmCounted /\ ShmKnown /\ ShmTells
  BY DEF ShmInv
<1>1. /\ p \in shmProc /\ c \notin shmProc /\ c # p
      /\ shmProc' = shmProc \cup {c}
      /\ p_shmsr' = [p_shmsr EXCEPT ![c] = p_shmsr[p]]
      /\ s_urefc' = DupRefs(p)
      /\ UNCHANGED <<shmAlloc, shmsegs, shm_nattch, SRFBERM>>
  BY DEF shmDup
<1>2. Copies(p_shmsr, p_shmsr', p, c)
  BY <1>0, <1>1 DEF Copies, Counted, ShmTypes, ShmOwned
<1>3. ASSUME NEW s \in ShmSegs
      PROVE  /\ IsFiniteSet(Att(p_shmsr', s)) /\ p_shmsr' \in Shares
             /\ Refs(p, SlotIdx, s) \in Nat
             /\ Cardinality(Att(p_shmsr', s)) = Cardinality(Att(p_shmsr, s)) + Refs(p, SlotIdx, s)
             /\ Att(p_shmsr, s) = {} => Att(p_shmsr', s) = {}
             /\ s_urefc'[s] = s_urefc[s] + Refs(p, SlotIdx, s)
             /\ Cardinality(Att(p_shmsr, s)) \in Nat
  <2>1. Refs(p, SlotIdx, s) = Cardinality(Places(p_shmsr, p, SlotIdx, s))
    BY DEF Refs, Places
  <2>2. s_urefc'[s] = s_urefc[s] + Refs(p, SlotIdx, s)
    BY <1>1 DEF DupRefs
  <2>3. Cardinality(Att(p_shmsr, s)) \in Nat
    BY <1>0, FS_CardinalityType DEF ShmOwned
  <2> QED BY <1>2, <2>1, <2>2, <2>3, AttMore
<1>4. ASSUME NEW s \in ShmSegs
      PROVE  /\ s_urefc'[s] \in Nat
             /\ s_urefc[s] > 0 => s_urefc'[s] > 0
             /\ s_urefc'[s] > 0 => s_urefc'[s] = 1 + Cardinality(Att(p_shmsr', s))
             /\ s_urefc'[s] = 0 => Att(p_shmsr', s) = {}
  <2>1. s_urefc[s] \in Nat
    BY <1>0 DEF ShmTypes
  <2>2. CASE s_urefc[s] > 0
    <3>1. s_urefc[s] = 1 + Cardinality(Att(p_shmsr, s))
      BY <1>0, <2>2 DEF ShmCounted
    <3> QED BY <1>3, <2>1, <2>2, <3>1
  <2>3. CASE s_urefc[s] = 0
    <3>1. Att(p_shmsr, s) = {}
      BY <1>0, <2>3 DEF ShmCounted
    <3>2. Cardinality(Att(p_shmsr, s)) = 0 /\ Cardinality(Att(p_shmsr', s)) = 0
      BY <1>3, <3>1, FS_EmptySet
    <3> QED BY <1>3, <2>3, <3>1, <3>2
  <2> QED BY <2>1, <2>2, <2>3
<1>5. ShmTypes'
  <2>1. p_shmsr' \in Shares
    BY <1>0, <1>1 DEF ShmTypes, Shares
  <2>2. s_urefc' = [s \in ShmSegs |-> s_urefc'[s]]
    BY <1>1 DEF DupRefs
  <2> QED BY <1>0, <1>1, <1>4, <2>1, <2>2 DEF ShmTypes
<1>6. ShmOwned'
  <2>1. ASSUME NEW q \in ShmProcs \ shmProc', NEW k \in SlotIdx PROVE p_shmsr'[q][k] = NoSeg
    BY <1>0, <1>1, <2>1 DEF ShmOwned, ShmTypes, Shares
  <2> QED BY <1>3, <2>1 DEF ShmOwned
<1>7. ShmKnown'
  <2>1. ASSUME NEW i \in ShmIds, shmAlloc[i] PROVE s_urefc'[shmsegs[i]] > 0
    BY <1>0, <1>4, <2>1 DEF ShmKnown, ShmTypes
  <2> QED BY <1>0, <1>1, <2>1 DEF ShmKnown
<1>8. ShmCounted'
  BY <1>4 DEF ShmCounted
<1>9. ShmTells'
  <2>1. ASSUME NEW i \in ShmIds, shmAlloc[i], shm_nattch[i] = 0
        PROVE  Att(p_shmsr', shmsegs[i]) = {}
    <3>1. shmsegs[i] \in ShmSegs
      BY <1>0, <2>1 DEF ShmKnown, ShmTypes
    <3> QED BY <1>0, <1>3, <2>1, <3>1 DEF ShmTells
  <2> QED BY <1>1, <2>1 DEF ShmTells
<1> QED BY <1>5, <1>6, <1>7, <1>8, <1>9 DEF ShmInv

LEMMA ShmRmid ==
  ASSUME ShmInv, NEW p \in ShmProcs, NEW i \in ShmIds, ushmctlRMID(p, i)
  PROVE  ShmInv'
<1> USE ShmAssumption
<1> DEFINE s == shmsegs[i]
<1>0. ShmTypes /\ ShmOwned /\ ShmCounted /\ ShmKnown /\ ShmTells
  BY DEF ShmInv
<1>1. /\ shmAlloc[i]
      /\ shmAlloc' = [shmAlloc EXCEPT ![i] = FALSE]
      /\ shmsegs' = [shmsegs EXCEPT ![i] = NoSeg]
      /\ SRFBERM' = IF shm_nattch[i] > 0 THEN SRFBERM \cup {s} ELSE SRFBERM
      /\ s_urefc' = IF RmidFreesNow(i) THEN [s_urefc EXCEPT ![s] = 0] ELSE s_urefc
      /\ UNCHANGED <<shm_nattch, p_shmsr, shmProc>>
  BY DEF ushmctlRMID
<1>2. s \in ShmSegs
  BY <1>0, <1>1 DEF ShmKnown, ShmTypes
<1>3. RmidFreesNow(i) => Att(p_shmsr, s) = {}
  BY <1>0, <1>1 DEF RmidFreesNow, ShmTells
<1>4. \A j \in ShmIds : j # i /\ shmAlloc[j] => shmsegs[j] # s
  BY <1>0, <1>1, <1>2 DEF ShmKnown
<1>5. ShmTypes'
  BY <1>0, <1>1, <1>2 DEF ShmTypes
<1>6. ShmOwned'
  BY <1>0, <1>1 DEF ShmOwned
<1>7. ShmKnown'
  <2>1. ASSUME NEW j \in ShmIds
        PROVE  /\ shmAlloc'[j] <=> shmsegs'[j] # NoSeg
               /\ shmAlloc'[j] => s_urefc'[shmsegs'[j]] > 0 /\ shmsegs'[j] \notin SRFBERM'
    <3>1. CASE j = i
      BY <1>0, <1>1, <3>1 DEF ShmTypes
    <3>2. CASE j # i
      <4>1. shmAlloc'[j] = shmAlloc[j] /\ shmsegs'[j] = shmsegs[j]
        BY <1>0, <1>1, <3>2 DEF ShmTypes
      <4>2. ASSUME shmAlloc[j]
            PROVE  /\ s_urefc'[shmsegs[j]] = s_urefc[shmsegs[j]]
                   /\ shmsegs[j] \in SRFBERM' => shmsegs[j] \in SRFBERM
        <5>1. shmsegs[j] # s /\ shmsegs[j] \in ShmSegs
          BY <1>0, <1>4, <3>2, <4>2 DEF ShmKnown, ShmTypes
        <5> HIDE DEF s
        <5> QED BY <1>0, <1>1, <5>1 DEF ShmTypes
      <4> QED BY <1>0, <4>1, <4>2 DEF ShmKnown
    <3> QED BY <3>1, <3>2
  <2>2. ASSUME NEW j \in ShmIds, NEW h \in ShmIds,
               shmsegs'[j] = shmsegs'[h], shmsegs'[j] # NoSeg
        PROVE  j = h
    BY <1>0, <1>1, <2>2 DEF ShmKnown, ShmTypes
  <2> QED BY <2>1, <2>2 DEF ShmKnown
<1>8. ShmCounted'
  <2>1. ASSUME NEW t \in ShmSegs
        PROVE  /\ s_urefc'[t] > 0 => s_urefc'[t] = 1 + Cardinality(Att(p_shmsr, t))
               /\ s_urefc'[t] = 0 => Att(p_shmsr, t) = {}
    <3> HIDE DEF s
    <3>1. s_urefc'[t] = IF RmidFreesNow(i) /\ t = s THEN 0 ELSE s_urefc[t]
      BY <1>0, <1>1, <1>2 DEF ShmTypes
    <3> QED BY <1>0, <1>3, <3>1 DEF ShmCounted
  <2> QED BY <1>1, <2>1 DEF ShmCounted
<1>9. ShmTells'
  <2>1. ASSUME NEW j \in ShmIds, shmAlloc'[j], shm_nattch'[j] = 0
        PROVE  Att(p_shmsr', shmsegs'[j]) = {}
    <3>1. j # i /\ shmAlloc[j] /\ shmsegs'[j] = shmsegs[j]
      BY <1>0, <1>1, <2>1 DEF ShmTypes
    <3> QED BY <1>0, <1>1, <2>1, <3>1 DEF ShmTells
  <2> QED BY <2>1 DEF ShmTells
<1> QED BY <1>5, <1>6, <1>7, <1>8, <1>9 DEF ShmInv

LEMMA ShmNextInv == ShmInv /\ [ShmNext]_shmVars => ShmInv'
<1> SUFFICES ASSUME ShmInv, [ShmNext]_shmVars PROVE ShmInv'
  OBVIOUS
<1>1. CASE UNCHANGED shmVars
  BY <1>1 DEF shmVars, ShmInv, ShmTypes, ShmOwned, ShmKnown, ShmCounted, ShmTells
<1>2. CASE ShmNext
  <2> PICK p \in ShmProcs :
        \/ \E i \in ShmIds : \/ \E s \in ShmSegs : ushmget(p, i, s)
                             \/ \E k \in SlotIdx : ushmat(p, i, k)
                             \/ ushmctlRMID(p, i)
        \/ ushmatNull(p)
        \/ \E k \in SlotIdx : ushmdt(p, k)
        \/ shmAllDt(p)
        \/ \E c \in ShmProcs : shmDup(p, c)
    BY <1>2 DEF ShmNext
  <2>1. ASSUME NEW i \in ShmIds, NEW s \in ShmSegs, ushmget(p, i, s) PROVE ShmInv'
    BY <2>1, ShmGet
  <2>2. ASSUME NEW i \in ShmIds, NEW k \in SlotIdx, ushmat(p, i, k) PROVE ShmInv'
    BY <2>2, ShmAt
  <2>3. ASSUME NEW i \in ShmIds, ushmctlRMID(p, i) PROVE ShmInv'
    BY <2>3, ShmRmid
  <2>4. ASSUME NEW k \in SlotIdx, ushmdt(p, k) PROVE ShmInv'
    <3>1. {k} \in SUBSET SlotIdx /\ shmDetach(p, {k}) /\ p \in shmProc /\ shmProc' = shmProc
      BY <2>4 DEF ushmdt
    <3> QED BY <3>1, ShmDetachInv
  <2>5. ASSUME shmAllDt(p) PROVE ShmInv'
    <3>1. /\ SlotIdx \in SUBSET SlotIdx /\ shmDetach(p, SlotIdx) /\ p \in shmProc
          /\ shmProc' = shmProc \/ (SlotIdx = SlotIdx /\ shmProc' = shmProc \ {p})
      BY <2>5 DEF shmAllDt
    <3> QED BY <3>1, ShmDetachInv
  <2>6. ASSUME NEW c \in ShmProcs, shmDup(p, c) PROVE ShmInv'
    BY <2>6, ShmFork
  <2>7. ASSUME ushmatNull(p) PROVE ShmInv'
    BY <2>7, ShmAtNull
  <2> QED BY <2>1, <2>2, <2>3, <2>4, <2>5, <2>6, <2>7
<1> QED BY <1>1, <1>2

LEMMA ShmInvSays == ShmInv => ShmExact
<1> SUFFICES ASSUME ShmInv PROVE ShmExact
  OBVIOUS
<1> USE ShmAssumption, AttachedAre
<1>1. ShmNoDangling
  BY DEF ShmNoDangling, ShmInv, ShmTypes, ShmCounted, ShmKnown
<1>2. ShmRefsExact
  BY DEF ShmRefsExact, ShmInv, ShmCounted
<1>3. ShmNattchTells
  BY DEF ShmNattchTells, ShmInv, ShmTells
<1> QED BY <1>1, <1>2, <1>3 DEF ShmExact

(***************************************************************************)
(* However segments are made, attached, inherited by fork (), detached,    *)
(* removed and left by exit (): s_urefc is exact, shm_nattch is 0 only for *)
(* a segment nobody has attached, and no segment that can be reached is    *)
(* freed.                                                                  *)
(***************************************************************************)
THEOREM ShmLifeExact == ShmSpec => []ShmExact
BY ShmInitInv, ShmNextInv, ShmInvSays, PTL DEF ShmSpec

----------------------------------------------------------------------------
(* Message queues.                                                         *)

\* Min () finds the least of a set of numbers.
LEMMA MinIs ==
  ASSUME NEW S, S \subseteq Nat, S # {}
  PROVE  Min(S) \in S /\ \A y \in S : Min(S) <= y
<1>1. PICK x \in S : \A y \in S : ~ (<<y, x>> \in OpToRel(<, Nat))
  BY NatLessThanWellFounded, WFMin
<1>2. ASSUME NEW y \in S PROVE x <= y
  <2>1. <<y, x>> \in Nat \X Nat
    OBVIOUS
  <2>2. ~ (y < x)
    BY <1>1, <2>1, Zenon DEF OpToRel
  <2> QED BY <2>1, <2>2
<1> QED BY <1>2 DEF Min

Msgs == [id : Nat, type : Nat, ts : Nat, spot : Nat]

\* Whether umsgrcv would take m, and where it finds a message to take in s.
Matches(m, typ) == IF typ < 0 THEN m.type <= -typ ELSE typ = 0 \/ m.type = typ

FindIn(s, typ) ==
  LET low == {i \in DOMAIN s : s[i].type <= -typ}
      same == {i \in DOMAIN s : typ = 0 \/ s[i].type = typ}
      ok == IF typ < 0 THEN {i \in low : \A j \in low : s[i].type <= s[j].type} ELSE same
  IN IF ok = {} THEN 0 ELSE Min(ok)

LEMMA FindIs == \A q, typ : Find(q, typ) = FindIn(msgq[q], typ)
BY DEF Find, FindIn

\* It finds one if there is one, and the first of its type.
LEMMA FindFirst ==
  ASSUME NEW s \in Seq(Msgs), NEW typ \in Int
  PROVE  /\ FindIn(s, typ) = 0 => \A i \in DOMAIN s : ~Matches(s[i], typ)
         /\ FindIn(s, typ) # 0 =>
              /\ FindIn(s, typ) \in DOMAIN s /\ Matches(s[FindIn(s, typ)], typ)
              /\ \A i \in DOMAIN s :
                   s[i].type = s[FindIn(s, typ)].type => FindIn(s, typ) <= i
<1> DEFINE low == {i \in DOMAIN s : s[i].type <= -typ}
           same == {i \in DOMAIN s : typ = 0 \/ s[i].type = typ}
           least == {i \in low : \A j \in low : s[i].type <= s[j].type}
           ok == IF typ < 0 THEN least ELSE same
<1>1. DOMAIN s = 1 .. Len(s) /\ Len(s) \in Nat
  OBVIOUS
<1>2. \A i \in DOMAIN s : s[i].type \in Nat
  <2>1. \A i \in DOMAIN s : s[i] \in Msgs
    BY <1>1
  <2>2. \A m \in Msgs : m.type \in Nat
    BY DEF Msgs
  <2> QED BY <2>1, <2>2
<1>3. FindIn(s, typ) = IF ok = {} THEN 0 ELSE Min(ok)
  BY DEF FindIn
<1>4. ok \subseteq DOMAIN s /\ ok \subseteq Nat /\ 0 \notin ok
  BY <1>1
<1>5. low # {} => least # {}
  <2> SUFFICES ASSUME low # {} PROVE least # {}
    OBVIOUS
  <2> DEFINE types == {s[i].type : i \in low}
  <2>1. types \subseteq Nat /\ types # {}
    BY <1>2
  <2>2. Min(types) \in types /\ \A y \in types : Min(types) <= y
    BY <2>1, MinIs
  <2>3. PICK i \in low : s[i].type = Min(types)
    BY <2>2
  <2> QED BY <2>2, <2>3
<1>6. \A i \in DOMAIN s : Matches(s[i], typ) => ok # {}
  BY <1>5 DEF Matches
<1>7. \A i \in ok : Matches(s[i], typ)
  BY DEF Matches
<1>8. \A i \in ok, j \in DOMAIN s : s[j].type = s[i].type => j \in ok
  OBVIOUS
<1> HIDE DEF ok
<1>9. CASE ok = {}
  BY <1>3, <1>6, <1>9
<1>10. CASE ok # {}
  <2>1. Min(ok) \in ok /\ \A y \in ok : Min(ok) <= y
    BY <1>4, <1>10, MinIs
  <2>2. FindIn(s, typ) = Min(ok) /\ FindIn(s, typ) # 0
    BY <1>3, <1>4, <1>10, <2>1
  <2> QED BY <1>4, <1>7, <1>8, <2>1, <2>2
<1> QED BY <1>9, <1>10

\* Taking out the message at i leaves the others, and nothing else.
LEMMA RemovedAt ==
  ASSUME NEW s \in Seq(Msgs), NEW i \in DOMAIN s
  PROVE  /\ RemoveAt(s, i) \in Seq(Msgs)
         /\ Len(RemoveAt(s, i)) = Len(s) - 1
         /\ \A k \in 1 .. Len(s) - 1 : RemoveAt(s, i)[k] = IF k < i THEN s[k] ELSE s[k + 1]
         /\ \A j \in DOMAIN s : j # i => Contains(RemoveAt(s, i), s[j])
         /\ \A k \in DOMAIN RemoveAt(s, i) : \E j \in DOMAIN s : RemoveAt(s, i)[k] = s[j]
<1> DEFINE a == SubSeq(s, 1, i - 1)
           b == SubSeq(s, i + 1, Len(s))
<1>1. i \in 1 .. Len(s) /\ Len(s) \in Nat
  OBVIOUS
<1>2. a \in Seq(Msgs) /\ Len(a) = i - 1 /\ \A k \in 1 .. i - 1 : a[k] = s[k]
  BY <1>1
<1>3. b \in Seq(Msgs) /\ Len(b) = Len(s) - i /\ \A k \in 1 .. Len(s) - i : b[k] = s[k + i]
  BY <1>1
<1> HIDE DEF a, b
<1>4. /\ a \o b \in Seq(Msgs) /\ Len(a \o b) = Len(s) - 1
      /\ \A k \in 1 .. Len(s) - 1 : (a \o b)[k] = IF k < i THEN s[k] ELSE s[k + 1]
  <2>1. a \o b \in Seq(Msgs) /\ Len(a \o b) = Len(a) + Len(b)
    <3>1. a \in Seq(Msgs) /\ b \in Seq(Msgs)
      BY <1>2, <1>3
    <3> QED BY <3>1
  <2>2. ASSUME NEW k \in 1 .. Len(s) - 1
        PROVE  (a \o b)[k] = IF k < i THEN s[k] ELSE s[k + 1]
    <3>1. CASE k < i
      <4>1. (a \o b)[k] = a[k]
        BY <1>1, <1>2, <1>3, <3>1
      <4> QED BY <1>1, <1>2, <3>1, <4>1
    <3>2. CASE k >= i
      <4>1. (a \o b)[k] = b[k - (i - 1)]
        BY <1>1, <1>2, <1>3, <3>2
      <4>2. k - (i - 1) \in 1 .. Len(s) - i
        BY <1>1, <3>2
      <4> QED BY <1>1, <1>3, <3>2, <4>1, <4>2
    <3>3. k < i \/ k >= i
      BY <1>1
    <3> HIDE DEF a, b
    <3> QED BY <3>1, <3>2, <3>3
  <2>3. Len(a) + Len(b) = Len(s) - 1
    BY <1>1, <1>2, <1>3
  <2> QED BY <2>1, <2>2, <2>3
<1>5. RemoveAt(s, i) = a \o b
  BY DEF RemoveAt, a, b
<1> DEFINE r == RemoveAt(s, i)
<1>6. /\ r \in Seq(Msgs) /\ Len(r) = Len(s) - 1 /\ DOMAIN r = 1 .. Len(s) - 1
      /\ \A k \in 1 .. Len(s) - 1 : r[k] = IF k < i THEN s[k] ELSE s[k + 1]
  BY <1>4, <1>5
<1> HIDE DEF r
<1>7. ASSUME NEW j \in DOMAIN s, j # i PROVE Contains(r, s[j])
  <2>1. CASE j < i
    BY <1>1, <1>6, <2>1 DEF Contains
  <2>2. CASE j > i
    <3>1. j - 1 \in 1 .. Len(r) /\ r[j - 1] = s[j]
      BY <1>1, <1>6, <2>2
    <3> QED BY <3>1 DEF Contains
  <2> QED BY <1>1, <1>7, <2>1, <2>2
<1>8. ASSUME NEW k \in DOMAIN r PROVE \E j \in DOMAIN s : r[k] = s[j]
  BY <1>1, <1>6
<1> QED BY <1>6, <1>7, <1>8 DEF r

MsgCalls ==
  {c \in [op : {"none", "snd", "rcv"}, q : Queues, rem : Nat, type : Int, sz : Nat,
          noerr : BOOLEAN] : c.op = "snd" => c.type \in Nat}

MsgTyped ==
  /\ msgAlloc \in [Queues -> BOOLEAN]
  /\ msgRemoved \in [Queues -> Nat]
  /\ msgq \in [Queues -> Seq(Msgs)]
  /\ cbytes \in [Queues -> Int] /\ qnum \in [Queues -> Int] /\ qbytes \in [Queues -> Nat]
  /\ rwait \in [Queues -> BOOLEAN] /\ wwait \in [Queues -> BOOLEAN]
  /\ msg_map \subseteq Spots
  /\ msgPc \in [MsgProcs -> {"run", "sleep", "woken", "intr"}]
  /\ msgArg \in [MsgProcs -> MsgCalls]
  /\ msgSent \in Nat

\* The queue p waits for is still the one it means.
MsgCurrent(p) == msgArg[p].rem = msgRemoved[msgArg[p].q]

\* Calls know no removals that have not happened; who waits for a queue that
\* still exists is in umsgsnd or umsgrcv.
MsgWaiters ==
  \A p \in MsgProcs :
    /\ msgArg[p].rem <= msgRemoved[msgArg[p].q]
    /\ msgPc[p] \in {"sleep", "woken"} /\ MsgCurrent(p) =>
         msgAlloc[msgArg[p].q] /\ msgArg[p].op \in {"snd", "rcv"}

\* Who sleeps has left its mark at the queue, and has reason to sleep.
MsgMarked ==
  \A p \in MsgProcs :
    msgPc[p] = "sleep" /\ MsgCurrent(p) =>
      /\ msgArg[p].op = "snd" => wwait[msgArg[p].q] /\ NoRoom(msgArg[p].q, msgArg[p].sz)
      /\ msgArg[p].op = "rcv" => rwait[msgArg[p].q] /\ FindIn(msgq[msgArg[p].q], msgArg[p].type) = 0

MsgInv == MsgTyped /\ MsgWaiters /\ MsgMarked

LEMMA MsgInitTyped == MsgInit => MsgTyped /\ MsgWaiters /\ MsgMarked
<1> SUFFICES ASSUME MsgInit PROVE MsgTyped /\ MsgWaiters /\ MsgMarked
  OBVIOUS
<1> USE MsgAssumption DEF MsgInit
<1>1. 0 \in Queues /\ Queues \subseteq Nat
  BY DEF Queues
<1>2. NoCall \in MsgCalls /\ NoCall.rem = 0 /\ NoCall.q = 0
  BY <1>1 DEF NoCall, MsgCalls
<1>3. << >> \in Seq(Msgs)
  OBVIOUS
<1>4. MsgTyped
  BY <1>2, <1>3 DEF MsgTyped
<1>5. MsgWaiters /\ MsgMarked
  BY <1>1, <1>2 DEF MsgWaiters, MsgMarked
<1> QED BY <1>4, <1>5

\* The calls umsgsys makes.
LEMMA MsgCallsAre ==
  ASSUME MsgTyped, NEW p \in MsgProcs, NEW c \in SndCalls(p) \cup RcvCalls
  PROVE  /\ c \in MsgCalls /\ c.rem = msgRemoved[c.q] /\ c.op \in {"snd", "rcv"}
         /\ MsgSupers = {} => msgAlloc[c.q]
<1> USE MsgAssumption DEF MsgCalls
<1>1. CASE c \in SndCalls(p)
  <2>1. c \in [op : {"snd"}, q : Queues, rem : Nat, type : Nat, sz : Nat, noerr : BOOLEAN]
    <3>1. c \in [op : {"snd"}, q : Queues, rem : 0 .. MaxRemoved, type : MsgTypes,
                sz : MsgSizes, noerr : {FALSE}]
      BY <1>1 DEF SndCalls
    <3>2. 0 .. MaxRemoved \subseteq Nat /\ MsgTypes \subseteq Nat
      OBVIOUS
    <3> QED BY <3>1, <3>2
  <2>2. c.rem = msgRemoved[c.q] /\ (msgAlloc[c.q] \/ p \in MsgSupers)
    BY <1>1 DEF SndCalls
  <2> QED BY <2>1, <2>2
<1>2. CASE c \in RcvCalls
  <2>1. c \in [op : {"rcv"}, q : Queues, rem : Nat, type : Int, sz : Nat, noerr : BOOLEAN]
    <3>1. c \in [op : {"rcv"}, q : Queues, rem : 0 .. MaxRemoved, type : MsgWants,
                sz : MsgRooms, noerr : BOOLEAN]
      BY <1>2 DEF RcvCalls
    <3>2. 0 .. MaxRemoved \subseteq Nat
      OBVIOUS
    <3> QED BY <3>1, <3>2
  <2>2. c.rem = msgRemoved[c.q] /\ msgAlloc[c.q]
    BY <1>2 DEF RcvCalls
  <2> QED BY <2>1, <2>2
<1> QED BY <1>1, <1>2

\* A step of the call c of p, between sleeps.
Stepping(p, c) == MsgTyped /\ p \in MsgProcs /\ c \in MsgCalls /\ MsgStep(p, c)

\* What a step does with the processes.
LEMMA MsgStepPc ==
  ASSUME NEW p, NEW c, Stepping(p, c)
  PROVE  /\ \/ /\ msgPc' = [msgPc EXCEPT ![p] = "sleep"]
               /\ msgArg' = [msgArg EXCEPT ![p] = c]
            \/ /\ msgArg' = [msgArg EXCEPT ![p] = NoCall]
               /\ msgPc' = [msgPc EXCEPT ![p] = "run"]
            \/ /\ msgArg' = [msgArg EXCEPT ![p] = NoCall]
               /\ msgPc' = MsgWoken(c.q, [msgPc EXCEPT ![p] = "run"])
         /\ msgRemoved' = msgRemoved /\ msgAlloc' = msgAlloc /\ qbytes' = qbytes
BY DEF Stepping, MsgStep, umsgsndWait, umsgsndNoSpot, umsgsndPut, umsgrcvWait, umsgrcvTooBig,
       umsgrcvGet, MsgSleep, MsgDone, queueVars

LEMMA MsgPlaces == 0 \in Queues /\ NoCall \in MsgCalls /\ NoCall.rem = 0 /\ Spots \subseteq Nat
<1> USE MsgAssumption
<1>1. 0 \in Queues
  BY DEF Queues
<1>2. Spots \subseteq Nat
  BY DEF Spots
<1> QED BY <1>1, <1>2 DEF NoCall, MsgCalls

LEMMA MsgStepTyped ==
  ASSUME NEW p, NEW c, Stepping(p, c)
  PROVE  MsgTyped'
<1>0. MsgTyped /\ p \in MsgProcs /\ c \in MsgCalls /\ MsgStep(p, c)
  BY DEF Stepping
<1>1. /\ c.q \in Queues /\ c.sz \in Nat /\ c.type \in Int
      /\ c.op = "snd" => c.type \in Nat
  BY <1>0 DEF MsgCalls
<1>2. /\ msgAlloc' \in [Queues -> BOOLEAN] /\ msgRemoved' \in [Queues -> Nat]
      /\ qbytes' \in [Queues -> Nat]
      /\ msgPc' \in [MsgProcs -> {"run", "sleep", "woken", "intr"}]
      /\ msgArg' \in [MsgProcs -> MsgCalls]
  <2>1. /\ \/ msgPc' = [msgPc EXCEPT ![p] = "sleep"]
           \/ msgPc' = [msgPc EXCEPT ![p] = "run"]
           \/ msgPc' = MsgWoken(c.q, [msgPc EXCEPT ![p] = "run"])
        /\ msgArg' = [msgArg EXCEPT ![p] = c] \/ msgArg' = [msgArg EXCEPT ![p] = NoCall]
        /\ msgRemoved' = msgRemoved /\ msgAlloc' = msgAlloc /\ qbytes' = qbytes
    BY MsgStepPc
  <2>2. /\ msgPc \in [MsgProcs -> {"run", "sleep", "woken", "intr"}]
        /\ msgArg \in [MsgProcs -> MsgCalls]
    BY <1>0 DEF MsgTyped
  <2>3. msgArg' \in [MsgProcs -> MsgCalls]
    BY <1>0, <2>1, <2>2, MsgPlaces
  <2>4. msgPc' \in [MsgProcs -> {"run", "sleep", "woken", "intr"}]
    BY <1>0, <2>1, <2>2 DEF MsgWoken
  <2> QED BY <1>0, <2>1, <2>3, <2>4 DEF MsgTyped
<1>3. /\ msgq \in [Queues -> Seq(Msgs)]
      /\ cbytes \in [Queues -> Int] /\ qnum \in [Queues -> Int]
      /\ rwait \in [Queues -> BOOLEAN] /\ wwait \in [Queues -> BOOLEAN]
      /\ msg_map \subseteq Spots /\ msgSent \in Nat
  BY <1>0 DEF MsgTyped
<1>4. CASE umsgsndPut(p, c)
  <2> DEFINE spot == Min(Spots \ msg_map)
             m == [id |-> msgSent, type |-> c.type, ts |-> c.sz, spot |-> spot]
  <2>1. spot \in Spots /\ spot \in Nat
    <3>1. Spots \ msg_map \subseteq Nat /\ Spots \ msg_map # {}
      BY <1>3, <1>4, MsgPlaces DEF umsgsndPut
    <3> QED BY <3>1, MinIs
  <2>2. /\ msg_map' = msg_map \cup {spot} /\ msgSent' = msgSent + 1
        /\ msgq' = [msgq EXCEPT ![c.q] = Append(@, m)]
        /\ cbytes' = [cbytes EXCEPT ![c.q] = @ + c.sz]
        /\ qnum' = [qnum EXCEPT ![c.q] = @ + 1]
        /\ rwait' = [rwait EXCEPT ![c.q] = FALSE] /\ wwait' = wwait
        /\ c.op = "snd"
    BY <1>4 DEF umsgsndPut
  <2> HIDE DEF spot
  <2>3. m \in Msgs
    BY <1>1, <1>3, <2>1, <2>2 DEF Msgs
  <2> HIDE DEF m
  <2>4. Append(msgq[c.q], m) \in Seq(Msgs)
    BY <1>1, <1>3, <2>3
  <2>5. msgq' \in [Queues -> Seq(Msgs)]
    BY <1>3, <2>2, <2>4
  <2>6. /\ cbytes' \in [Queues -> Int] /\ qnum' \in [Queues -> Int]
        /\ rwait' \in [Queues -> BOOLEAN] /\ wwait' \in [Queues -> BOOLEAN]
        /\ msg_map' \subseteq Spots /\ msgSent' \in Nat
    BY <1>1, <1>3, <2>1, <2>2
  <2> QED BY <1>2, <2>5, <2>6 DEF MsgTyped
<1>5. CASE umsgrcvGet(p, c)
  <2> DEFINE s == msgq[c.q]
             i == FindIn(s, c.type)
  <2>1. s \in Seq(Msgs)
    BY <1>1, <1>3
  <2>2. i # 0 /\ Find(c.q, c.type) = i
    BY <1>5, FindIs DEF umsgrcvGet
  <2>3. i \in DOMAIN s
    BY <1>1, <2>1, <2>2, FindFirst
  <2>4. /\ msgq' = [msgq EXCEPT ![c.q] = RemoveAt(@, Find(c.q, c.type))]
        /\ cbytes' = [cbytes EXCEPT ![c.q] = @ - msgq[c.q][Find(c.q, c.type)].ts]
        /\ qnum' = [qnum EXCEPT ![c.q] = @ - 1]
        /\ msg_map' \subseteq msg_map
        /\ wwait' = [wwait EXCEPT ![c.q] = FALSE]
        /\ UNCHANGED <<rwait, msgSent>>
    BY <1>5 DEF umsgrcvGet, RcvBytes
  <2> HIDE DEF i
  <2>5. RemoveAt(s, i) \in Seq(Msgs) /\ s[i] \in Msgs
    BY <2>1, <2>3, RemovedAt
  <2>6. s[i].ts \in Nat
    BY <2>5 DEF Msgs
  <2>7. msgq' \in [Queues -> Seq(Msgs)]
    BY <1>3, <2>2, <2>4, <2>5
  <2>8. cbytes' \in [Queues -> Int]
    BY <1>1, <1>3, <2>2, <2>4, <2>6
  <2>9. /\ qnum' \in [Queues -> Int]
        /\ rwait' \in [Queues -> BOOLEAN] /\ wwait' \in [Queues -> BOOLEAN]
        /\ msg_map' \subseteq Spots /\ msgSent' \in Nat
    BY <1>1, <1>3, <2>4
  <2> QED BY <1>2, <2>7, <2>8, <2>9 DEF MsgTyped
<1>6. CASE umsgsndWait(p, c) \/ umsgsndNoSpot(p, c) \/ umsgrcvWait(p, c) \/ umsgrcvTooBig(p, c)
  <2>1. /\ UNCHANGED <<msgq, cbytes, qnum, msg_map, msgSent>>
        /\ rwait' = rwait \/ rwait' = [rwait EXCEPT ![c.q] = TRUE]
        /\ wwait' = wwait \/ wwait' = [wwait EXCEPT ![c.q] = TRUE]
    BY <1>6 DEF umsgsndWait, umsgsndNoSpot, umsgrcvWait, umsgrcvTooBig, queueVars
  <2>2. rwait' \in [Queues -> BOOLEAN] /\ wwait' \in [Queues -> BOOLEAN]
    BY <1>3, <2>1
  <2> QED BY <1>2, <1>3, <2>1, <2>2 DEF MsgTyped
<1> QED BY <1>0, <1>4, <1>5, <1>6 DEF MsgStep

\* The same of a call for a queue that is there, while all is well.
Going(p, c) ==
  /\ Stepping(p, c) /\ MsgInv
  /\ c.op \in {"snd", "rcv"} /\ c.rem = msgRemoved[c.q] /\ msgAlloc[c.q]

LEMMA MsgStepWaiters ==
  ASSUME NEW p, NEW c, Going(p, c)
  PROVE  MsgWaiters'
<1>1. /\ Stepping(p, c) /\ MsgWaiters /\ p \in MsgProcs /\ c \in MsgCalls
      /\ c.op \in {"snd", "rcv"} /\ c.rem = msgRemoved[c.q] /\ msgAlloc[c.q]
      /\ msgPc \in [MsgProcs -> {"run", "sleep", "woken", "intr"}]
      /\ msgArg \in [MsgProcs -> MsgCalls] /\ msgRemoved \in [Queues -> Nat]
  BY DEF Going, Stepping, MsgInv, MsgTyped
<1>2. /\ \/ /\ msgPc' = [msgPc EXCEPT ![p] = "sleep"]
            /\ msgArg' = [msgArg EXCEPT ![p] = c]
         \/ /\ msgArg' = [msgArg EXCEPT ![p] = NoCall]
            /\ msgPc' = [msgPc EXCEPT ![p] = "run"]
         \/ /\ msgArg' = [msgArg EXCEPT ![p] = NoCall]
            /\ msgPc' = MsgWoken(c.q, [msgPc EXCEPT ![p] = "run"])
      /\ msgRemoved' = msgRemoved /\ msgAlloc' = msgAlloc
  BY <1>1, MsgStepPc
<1>3. c.rem \in Nat /\ NoCall.rem = 0 /\ NoCall.q = 0 /\ 0 \in Queues
  BY <1>1, MsgPlaces DEF MsgCalls, NoCall
<1>4. ASSUME NEW r \in MsgProcs
      PROVE  /\ msgArg'[r].rem <= msgRemoved'[msgArg'[r].q]
             /\ msgPc'[r] \in {"sleep", "woken"} /\ msgArg'[r].rem = msgRemoved'[msgArg'[r].q] =>
                  msgAlloc'[msgArg'[r].q] /\ msgArg'[r].op \in {"snd", "rcv"}
  <2>1. CASE r = p
    <3>1. CASE msgArg'[p] = c
      BY <1>1, <1>2, <1>3, <2>1, <3>1
    <3>2. CASE msgArg'[p] = NoCall /\ msgPc'[p] = "run"
      BY <1>1, <1>2, <1>3, <2>1, <3>2
    <3> QED BY <1>1, <1>2, <2>1, <3>1, <3>2 DEF MsgWoken
  <2>2. CASE r # p
    <3>1. msgArg'[r] = msgArg[r]
      BY <1>1, <1>2, <2>2
    <3>2. msgPc'[r] \in {"sleep", "woken"} => msgPc[r] \in {"sleep", "woken"}
      BY <1>1, <1>2, <2>2 DEF MsgWoken
    <3> QED BY <1>1, <1>2, <3>1, <3>2 DEF MsgWaiters, MsgCurrent
  <2> QED BY <2>1, <2>2
<1> QED BY <1>4 DEF MsgWaiters, MsgCurrent

LEMMA MsgStepMarked ==
  ASSUME NEW p, NEW c, Going(p, c)
  PROVE  MsgMarked'
<1>1. /\ Stepping(p, c) /\ MsgMarked /\ p \in MsgProcs /\ c \in MsgCalls /\ MsgStep(p, c)
      /\ c.op \in {"snd", "rcv"} /\ c.rem = msgRemoved[c.q]
      /\ msgPc \in [MsgProcs -> {"run", "sleep", "woken", "intr"}]
      /\ msgArg \in [MsgProcs -> MsgCalls] /\ msgRemoved \in [Queues -> Nat]
      /\ msgq \in [Queues -> Seq(Msgs)]
      /\ cbytes \in [Queues -> Int] /\ qnum \in [Queues -> Int] /\ qbytes \in [Queues -> Nat]
      /\ rwait \in [Queues -> BOOLEAN] /\ wwait \in [Queues -> BOOLEAN]
  BY DEF Going, Stepping, MsgInv, MsgTyped
<1>2. c.q \in Queues /\ c.sz \in Nat /\ c.type \in Int
  BY <1>1 DEF MsgCalls
<1>3. /\ \/ /\ msgPc' = [msgPc EXCEPT ![p] = "sleep"]
            /\ msgArg' = [msgArg EXCEPT ![p] = c]
         \/ /\ msgArg' = [msgArg EXCEPT ![p] = NoCall]
            /\ msgPc' = [msgPc EXCEPT ![p] = "run"]
         \/ /\ msgArg' = [msgArg EXCEPT ![p] = NoCall]
            /\ msgPc' = MsgWoken(c.q, [msgPc EXCEPT ![p] = "run"])
      /\ msgRemoved' = msgRemoved /\ qbytes' = qbytes
  BY <1>1, MsgStepPc
<1> SUFFICES ASSUME NEW r \in MsgProcs, msgPc'[r] = "sleep",
                    msgArg'[r].rem = msgRemoved'[msgArg'[r].q]
             PROVE  /\ msgArg'[r].op = "snd" =>
                         /\ wwait'[msgArg'[r].q]
                         /\ \/ qnum'[msgArg'[r].q] >= NMSG
                            \/ qbytes'[msgArg'[r].q] < cbytes'[msgArg'[r].q] + msgArg'[r].sz
                    /\ msgArg'[r].op = "rcv" =>
                         /\ rwait'[msgArg'[r].q]
                         /\ FindIn(msgq'[msgArg'[r].q], msgArg'[r].type) = 0
  BY DEF MsgMarked, MsgCurrent, NoRoom
<1> DEFINE a == msgArg'[r]
<1>4. ASSUME r # p
      PROVE  /\ msgPc[r] = "sleep" /\ a = msgArg[r] /\ a.rem = msgRemoved[a.q]
             /\ a.q \in Queues /\ a.sz \in Nat /\ a.type \in Int
             /\ a.op = "snd" => wwait[a.q] /\ (qnum[a.q] >= NMSG \/ qbytes[a.q] < cbytes[a.q] + a.sz)
             /\ a.op = "rcv" => rwait[a.q] /\ FindIn(msgq[a.q], a.type) = 0
             /\ a.q = c.q => msgPc' # MsgWoken(c.q, [msgPc EXCEPT ![p] = "run"])
  <2>1. a = msgArg[r]
    BY <1>1, <1>3, <1>4
  <2>2. msgPc[r] = "sleep"
    BY <1>1, <1>3, <1>4 DEF MsgWoken
  <2>3. a \in MsgCalls
    BY <1>1, <2>1
  <2>4. a.q \in Queues /\ a.sz \in Nat /\ a.type \in Int /\ a.rem = msgRemoved[a.q]
    BY <1>3, <2>1, <2>3 DEF MsgCalls
  <2>5. /\ a.op = "snd" => wwait[a.q] /\ NoRoom(a.q, a.sz)
        /\ a.op = "rcv" => rwait[a.q] /\ FindIn(msgq[a.q], a.type) = 0
    BY <1>1, <2>1, <2>2, <2>4 DEF MsgMarked, MsgCurrent
  <2>6. a.q = c.q => msgPc' # MsgWoken(c.q, [msgPc EXCEPT ![p] = "run"])
    BY <1>1, <1>4, <2>1, <2>2 DEF MsgWoken
  <2> QED BY <2>1, <2>2, <2>4, <2>5, <2>6 DEF NoRoom
<1>5. ASSUME r = p
      PROVE  a = c /\ msgPc' = [msgPc EXCEPT ![p] = "sleep"]
  BY <1>1, <1>3, <1>5 DEF MsgWoken
<1> HIDE DEF a
<1>6. CASE umsgsndWait(p, c) \/ umsgrcvWait(p, c)
  <2>1. /\ UNCHANGED <<msgq, cbytes, qnum>>
        /\ rwait' = rwait \/ rwait' = [rwait EXCEPT ![c.q] = TRUE]
        /\ wwait' = wwait \/ wwait' = [wwait EXCEPT ![c.q] = TRUE]
    BY <1>6 DEF umsgsndWait, umsgrcvWait
  <2>2. CASE r # p
    <3>1. /\ rwait[a.q] => rwait'[a.q]
          /\ wwait[a.q] => wwait'[a.q]
      BY <1>1, <1>4, <2>1, <2>2
    <3> QED BY <1>3, <1>4, <2>1, <2>2, <3>1 DEF a
  <2>3. CASE r = p
    <3>1. /\ c.op = "snd" => wwait'[c.q] /\ NoRoom(c.q, c.sz)
          /\ c.op = "rcv" => rwait'[c.q] /\ FindIn(msgq[c.q], c.type) = 0
      BY <1>1, <1>2, <1>6, FindIs DEF umsgsndWait, umsgrcvWait
    <3> QED BY <1>3, <1>5, <2>1, <2>3, <3>1 DEF a, NoRoom
  <2> QED BY <2>2, <2>3
<1>7. CASE umsgsndNoSpot(p, c) \/ umsgrcvTooBig(p, c)
  <2>1. UNCHANGED <<msgq, cbytes, qnum, rwait, wwait>> /\ msgPc'[p] = "run"
    BY <1>1, <1>7 DEF umsgsndNoSpot, umsgrcvTooBig, queueVars, MsgDone
  <2> QED BY <1>3, <1>4, <2>1 DEF a
<1>8. CASE umsgsndPut(p, c)
  <2>1. /\ \E m : msgq' = [msgq EXCEPT ![c.q] = Append(@, m)]
        /\ cbytes' = [cbytes EXCEPT ![c.q] = @ + c.sz]
        /\ qnum' = [qnum EXCEPT ![c.q] = @ + 1]
        /\ rwait' = [rwait EXCEPT ![c.q] = FALSE] /\ wwait' = wwait
        /\ rwait[c.q] => msgPc' = MsgWoken(c.q, [msgPc EXCEPT ![p] = "run"])
    BY <1>8 DEF umsgsndPut, MsgDone, SndWakes
  <2>2. r # p
    <3>1. msgPc'[p] = "run"
      BY <1>1, <1>8 DEF umsgsndPut, MsgDone, MsgWoken
    <3> QED BY <3>1
  <2>3. CASE a.q = c.q
    <3>1. ~rwait[c.q] /\ a.op # "rcv"
      BY <1>4, <2>1, <2>2, <2>3
    <3>2. wwait'[a.q] = wwait[a.q] /\ qnum'[a.q] = qnum[a.q] + 1 /\ cbytes'[a.q] = cbytes[a.q] + c.sz
      BY <1>1, <1>2, <2>1, <2>3
    <3>3. qnum[a.q] \in Int /\ cbytes[a.q] \in Int /\ qbytes[a.q] \in Nat /\ NMSG \in Nat
      BY <1>1, <1>2, <2>3, MsgAssumption
    <3> QED BY <1>2, <1>3, <1>4, <2>2, <3>1, <3>2, <3>3 DEF a
  <2>4. CASE a.q # c.q
    <3>1. /\ rwait'[a.q] = rwait[a.q] /\ wwait'[a.q] = wwait[a.q] /\ qnum'[a.q] = qnum[a.q]
          /\ cbytes'[a.q] = cbytes[a.q] /\ msgq'[a.q] = msgq[a.q]
      BY <1>1, <1>4, <2>1, <2>2, <2>4
    <3> QED BY <1>3, <1>4, <2>2, <3>1 DEF a
  <2> QED BY <2>3, <2>4
<1>9. CASE umsgrcvGet(p, c)
  <2>1. /\ msgq' = [msgq EXCEPT ![c.q] = RemoveAt(@, Find(c.q, c.type))]
        /\ \E n : cbytes' = [cbytes EXCEPT ![c.q] = n]
        /\ qnum' = [qnum EXCEPT ![c.q] = @ - 1]
        /\ wwait' = [wwait EXCEPT ![c.q] = FALSE] /\ rwait' = rwait
        /\ wwait[c.q] => msgPc' = MsgWoken(c.q, [msgPc EXCEPT ![p] = "run"])
        /\ Find(c.q, c.type) # 0
    <3>1. Find(c.q, c.type) # 0 /\ UNCHANGED rwait
      BY <1>9 DEF umsgrcvGet
    <3>2. cbytes' = [cbytes EXCEPT ![c.q] = cbytes[c.q] - msgq[c.q][Find(c.q, c.type)].ts]
      BY <1>9 DEF umsgrcvGet, RcvBytes
    <3>3. wwait[c.q] => msgPc' = MsgWoken(c.q, [msgPc EXCEPT ![p] = "run"])
      BY <1>9 DEF umsgrcvGet, MsgDone
    <3> QED BY <1>9, <3>1, <3>2, <3>3 DEF umsgrcvGet
  <2>2. r # p
    <3>1. msgPc'[p] = "run"
      BY <1>1, <1>9 DEF umsgrcvGet, MsgDone, MsgWoken
    <3> QED BY <3>1
  <2>3. CASE a.q = c.q
    <3>1. ~wwait[c.q] /\ a.op # "snd" /\ rwait'[a.q] = rwait[a.q]
      BY <1>4, <2>1, <2>2, <2>3
    <3> DEFINE s == msgq[c.q]
               i == FindIn(s, c.type)
               t == RemoveAt(s, i)
    <3>2. s \in Seq(Msgs) /\ i # 0 /\ msgq'[a.q] = t
      BY <1>1, <1>2, <2>1, <2>3, FindIs
    <3>3. i \in DOMAIN s
      BY <1>2, <3>2, FindFirst
    <3> HIDE DEF s, i
    <3>4. t \in Seq(Msgs) /\ \A k \in DOMAIN t : \E j \in DOMAIN s : t[k] = s[j]
      BY <3>2, <3>3, RemovedAt
    <3> HIDE DEF t
    <3>5. ASSUME a.op = "rcv" PROVE FindIn(t, a.type) = 0
      <4>1. FindIn(s, a.type) = 0 /\ a.type \in Int
        BY <1>4, <2>2, <2>3, <3>5 DEF s
      <4>2. \A j \in DOMAIN s : ~Matches(s[j], a.type)
        BY <3>2, <4>1, FindFirst
      <4>3. \A k \in DOMAIN t : ~Matches(t[k], a.type)
        BY <3>4, <4>2
      <4> QED BY <3>4, <4>1, <4>3, FindFirst
    <3> QED BY <1>4, <2>2, <3>1, <3>2, <3>5 DEF a
  <2>4. CASE a.q # c.q
    <3>1. /\ rwait'[a.q] = rwait[a.q] /\ wwait'[a.q] = wwait[a.q] /\ qnum'[a.q] = qnum[a.q]
          /\ cbytes'[a.q] = cbytes[a.q] /\ msgq'[a.q] = msgq[a.q]
      BY <1>1, <1>4, <2>1, <2>2, <2>4
    <3> QED BY <1>3, <1>4, <2>2, <3>1 DEF a
  <2> QED BY <2>3, <2>4
<1> QED BY <1>1, <1>6, <1>7, <1>8, <1>9 DEF MsgStep

\* The steps that are not part of a call that may sleep.
MsgOther(p) ==
  \/ MsgSignal(p) \/ MsgAbort(p)
  \/ \E q \in Queues : \/ umsgget(p, q)
                       \/ \E size \in MsgSetSizes : umsgctlSET(p, q, size)
                       \/ umsgctlRMID(p, q)

LEMMA MsgOtherTyped ==
  ASSUME MsgTyped, NEW p \in MsgProcs, MsgOther(p)
  PROVE  MsgTyped'
<1> USE MsgAssumption
<1>1. CASE MsgSignal(p)
  BY <1>1 DEF MsgSignal, MsgTyped, queueVars
<1>2. CASE MsgAbort(p)
  <2>1. /\ msgPc' = [msgPc EXCEPT ![p] = "run"] /\ msgArg' = [msgArg EXCEPT ![p] = NoCall]
        /\ UNCHANGED queueVars
    BY <1>2 DEF MsgAbort, MsgDone
  <2> QED BY <2>1, MsgPlaces DEF MsgTyped, queueVars
<1>3. ASSUME NEW q \in Queues, umsgget(p, q) PROVE MsgTyped'
  BY <1>3 DEF umsgget, MsgTyped
<1>4. ASSUME NEW q \in Queues, NEW size \in MsgSetSizes, umsgctlSET(p, q, size) PROVE MsgTyped'
  BY <1>4 DEF umsgctlSET, MsgTyped
<1>5. ASSUME NEW q \in Queues, umsgctlRMID(p, q) PROVE MsgTyped'
  <2>1. << >> \in Seq(Msgs)
    OBVIOUS
  <2>2. /\ msg_map' \subseteq msg_map
        /\ msgq' = [msgq EXCEPT ![q] = << >>]
        /\ cbytes' = [cbytes EXCEPT ![q] = 0] /\ qnum' = [qnum EXCEPT ![q] = 0]
        /\ rwait' = [rwait EXCEPT ![q] = FALSE] /\ wwait' = [wwait EXCEPT ![q] = FALSE]
        /\ msgAlloc' = [msgAlloc EXCEPT ![q] = FALSE]
        /\ msgRemoved' = [msgRemoved EXCEPT ![q] = @ + 1]
        /\ UNCHANGED <<qbytes, msgSent, msgPc, msgArg>>
    BY <1>5 DEF umsgctlRMID
  <2>3. msgq' \in [Queues -> Seq(Msgs)]
    BY <2>1, <2>2 DEF MsgTyped
  <2> QED BY <2>2, <2>3 DEF MsgTyped
<1> QED BY <1>1, <1>2, <1>3, <1>4, <1>5 DEF MsgOther

LEMMA MsgNextIs ==
  ASSUME MsgTyped, MsgNext
  PROVE  \E p \in MsgProcs :
           \/ MsgOther(p)
           \/ \E c \in SndCalls(p) \cup RcvCalls : Stepping(p, c)
           \/ msgPc[p] = "woken" /\ MsgCurrent(p) /\ Stepping(p, msgArg[p])
<1>1. PICK p \in MsgProcs : umsgsys(p) \/ MsgRetry(p) \/ MsgOther(p)
  BY DEF MsgNext, MsgOther
<1>2. CASE umsgsys(p)
  BY <1>2, MsgCallsAre DEF umsgsys, Stepping
<1>3. CASE MsgRetry(p)
  <2>1. msgArg[p] \in MsgCalls
    BY DEF MsgTyped
  <2> QED BY <1>3, <2>1 DEF MsgRetry, Stepping, MsgCurrent
<1> QED BY <1>1, <1>2, <1>3

LEMMA MsgTypedNext == MsgTyped /\ [MsgNext]_msgVars => MsgTyped'
<1> SUFFICES ASSUME MsgTyped, [MsgNext]_msgVars PROVE MsgTyped'
  OBVIOUS
<1>1. CASE UNCHANGED msgVars
  BY <1>1 DEF msgVars, queueVars, MsgTyped
<1>2. CASE MsgNext
  <2>1. PICK p \in MsgProcs : MsgOther(p) \/ \E c : Stepping(p, c)
    BY <1>2, MsgNextIs
  <2> QED BY <2>1, MsgOtherTyped, MsgStepTyped
<1> QED BY <1>1, <1>2

----
(***************************************************************************)
(* Sleeping and waking: without a super user, who could make a queue       *)
(* larger by IPC_SET.                                                      *)
(***************************************************************************)
LEMMA MsgOtherWaits ==
  ASSUME MsgSupers = {}, MsgInv, NEW p \in MsgProcs, MsgOther(p)
  PROVE  MsgWaiters' /\ MsgMarked'
<1>1. /\ MsgWaiters /\ MsgMarked
      /\ msgPc \in [MsgProcs -> {"run", "sleep", "woken", "intr"}]
      /\ msgArg \in [MsgProcs -> MsgCalls] /\ msgRemoved \in [Queues -> Nat]
      /\ qbytes \in [Queues -> Nat] /\ cbytes \in [Queues -> Int]
      /\ msgAlloc \in [Queues -> BOOLEAN]
      /\ rwait \in [Queues -> BOOLEAN] /\ wwait \in [Queues -> BOOLEAN]
  BY DEF MsgInv, MsgTyped
<1>2. ASSUME NEW r \in MsgProcs
      PROVE  msgArg[r].q \in Queues /\ msgArg[r].rem \in Nat /\ msgArg[r].sz \in Nat
  BY <1>1 DEF MsgCalls
<1>3. CASE MsgSignal(p)
  BY <1>1, <1>3 DEF MsgSignal, MsgWaiters, MsgMarked, MsgCurrent, NoRoom, queueVars
<1>4. CASE MsgAbort(p)
  <2>1. /\ msgPc' = [msgPc EXCEPT ![p] = "run"] /\ msgArg' = [msgArg EXCEPT ![p] = NoCall]
        /\ UNCHANGED queueVars
    BY <1>4 DEF MsgAbort, MsgDone
  <2>2. ASSUME NEW r \in MsgProcs, r # p PROVE msgPc'[r] = msgPc[r] /\ msgArg'[r] = msgArg[r]
    BY <1>1, <2>1, <2>2
  <2>3. msgPc'[p] = "run" /\ msgArg'[p].rem = 0 /\ msgArg'[p].q = 0 /\ msgRemoved[0] >= 0
    BY <1>1, <2>1, MsgPlaces DEF NoCall
  <2>4. MsgWaiters'
    BY <1>1, <2>1, <2>2, <2>3 DEF MsgWaiters, MsgCurrent, queueVars
  <2>5. MsgMarked'
    BY <1>1, <2>1, <2>2, <2>3 DEF MsgMarked, MsgCurrent, NoRoom, queueVars
  <2> QED BY <2>4, <2>5
<1>5. ASSUME NEW q \in Queues, umsgget(p, q) PROVE MsgWaiters' /\ MsgMarked'
  <2>1. /\ ~msgAlloc[q] /\ msgAlloc' = [msgAlloc EXCEPT ![q] = TRUE]
        /\ qnum' = [qnum EXCEPT ![q] = 0]
        /\ rwait' = [rwait EXCEPT ![q] = FALSE] /\ wwait' = [wwait EXCEPT ![q] = FALSE]
        /\ UNCHANGED <<msgRemoved, msgq, cbytes, qbytes, msgPc, msgArg>>
    BY <1>5 DEF umsgget
  <2>2. MsgWaiters'
    BY <1>1, <1>2, <2>1 DEF MsgWaiters, MsgCurrent
  <2>3. ASSUME NEW r \in MsgProcs, msgPc[r] = "sleep", MsgCurrent(r)
        PROVE  /\ msgArg[r].q # q /\ qnum'[msgArg[r].q] = qnum[msgArg[r].q]
               /\ rwait'[msgArg[r].q] = rwait[msgArg[r].q] /\ wwait'[msgArg[r].q] = wwait[msgArg[r].q]
    <3>1. msgAlloc[msgArg[r].q]
      BY <1>1, <2>3 DEF MsgWaiters
    <3>2. qnum \in [Queues -> Int]
      BY DEF MsgInv, MsgTyped
    <3> QED BY <1>1, <1>2, <2>1, <3>1, <3>2
  <2>4. MsgMarked'
    <3> SUFFICES ASSUME NEW r \in MsgProcs, msgPc[r] = "sleep", MsgCurrent(r)
                 PROVE  /\ msgArg[r].op = "snd" =>
                             wwait'[msgArg[r].q] /\ NoRoom(msgArg[r].q, msgArg[r].sz)'
                        /\ msgArg[r].op = "rcv" =>
                             rwait'[msgArg[r].q] /\ FindIn(msgq[msgArg[r].q], msgArg[r].type) = 0
      BY <2>1 DEF MsgMarked, MsgCurrent
    <3>1. NoRoom(msgArg[r].q, msgArg[r].sz)' <=> NoRoom(msgArg[r].q, msgArg[r].sz)
      BY <2>1, <2>3 DEF NoRoom
    <3> QED BY <1>1, <2>3, <3>1 DEF MsgMarked
  <2> QED BY <2>2, <2>4
<1>6. ASSUME NEW q \in Queues, NEW size \in MsgSetSizes, umsgctlSET(p, q, size)
      PROVE  MsgWaiters' /\ MsgMarked'
  <2>1. /\ size <= qbytes[q] /\ size \in Nat /\ qbytes' = [qbytes EXCEPT ![q] = size]
        /\ UNCHANGED <<msgAlloc, msgRemoved, msgq, cbytes, qnum, rwait, wwait, msgPc, msgArg>>
    BY <1>6, MsgAssumption DEF umsgctlSET
  <2>2. MsgWaiters'
    BY <1>1, <2>1 DEF MsgWaiters, MsgCurrent
  <2>3. ASSUME NEW r \in MsgProcs, NoRoom(msgArg[r].q, msgArg[r].sz)
        PROVE  \/ qnum[msgArg[r].q] >= NMSG
               \/ qbytes'[msgArg[r].q] < cbytes[msgArg[r].q] + msgArg[r].sz
    <3>1. qbytes'[msgArg[r].q] <= qbytes[msgArg[r].q] /\ qbytes'[msgArg[r].q] \in Nat
      BY <1>1, <1>2, <2>1
    <3> QED BY <1>1, <1>2, <2>3, <3>1 DEF NoRoom
  <2>4. MsgMarked'
    BY <1>1, <2>1, <2>3 DEF MsgMarked, MsgCurrent, NoRoom
  <2> QED BY <2>2, <2>4
<1>7. ASSUME NEW q \in Queues, umsgctlRMID(p, q) PROVE MsgWaiters' /\ MsgMarked'
  <2>1. /\ msgq' = [msgq EXCEPT ![q] = << >>]
        /\ cbytes' = [cbytes EXCEPT ![q] = 0] /\ qnum' = [qnum EXCEPT ![q] = 0]
        /\ rwait' = [rwait EXCEPT ![q] = FALSE] /\ wwait' = [wwait EXCEPT ![q] = FALSE]
        /\ msgAlloc' = [msgAlloc EXCEPT ![q] = FALSE]
        /\ msgRemoved' = [msgRemoved EXCEPT ![q] = @ + 1]
        /\ UNCHANGED <<qbytes, msgPc, msgArg>>
    BY <1>7 DEF umsgctlRMID
  <2>2. ASSUME NEW r \in MsgProcs
        PROVE  /\ msgArg[r].rem <= msgRemoved'[msgArg[r].q]
               /\ MsgCurrent(r)' => MsgCurrent(r) /\ msgArg[r].q # q
    <3>1. msgArg[r].rem <= msgRemoved[msgArg[r].q] /\ msgRemoved[msgArg[r].q] \in Nat
      BY <1>1, <1>2 DEF MsgWaiters
    <3>2. msgRemoved'[msgArg[r].q] = IF msgArg[r].q = q THEN msgRemoved[msgArg[r].q] + 1
                                     ELSE msgRemoved[msgArg[r].q]
      BY <1>1, <1>2, <2>1
    <3> QED BY <1>2, <2>1, <3>1, <3>2 DEF MsgCurrent
  <2>3. MsgWaiters'
    BY <1>1, <1>2, <2>1, <2>2 DEF MsgWaiters
  <2>4. ASSUME NEW k \in Queues, k # q
        PROVE  /\ msgq'[k] = msgq[k] /\ cbytes'[k] = cbytes[k] /\ qnum'[k] = qnum[k]
               /\ rwait'[k] = rwait[k] /\ wwait'[k] = wwait[k]
    BY <2>1, <2>4 DEF MsgInv, MsgTyped
  <2>5. MsgMarked'
    BY <1>1, <1>2, <2>1, <2>2, <2>4 DEF MsgMarked, NoRoom
  <2> QED BY <2>3, <2>5
<1> QED BY <1>3, <1>4, <1>5, <1>6, <1>7 DEF MsgOther

LEMMA MsgInvNext == MsgSupers = {} /\ MsgInv /\ [MsgNext]_msgVars => MsgInv'
<1> SUFFICES ASSUME MsgSupers = {}, MsgInv, [MsgNext]_msgVars PROVE MsgInv'
  OBVIOUS
<1>0. MsgTyped' /\ MsgTyped /\ MsgWaiters
  BY MsgTypedNext DEF MsgInv
<1>1. CASE UNCHANGED msgVars
  BY <1>0, <1>1 DEF msgVars, queueVars, MsgInv, MsgWaiters, MsgMarked, MsgCurrent, NoRoom
<1>2. CASE MsgNext
  <2>1. PICK p \in MsgProcs :
           \/ MsgOther(p)
           \/ \E c \in SndCalls(p) \cup RcvCalls : Stepping(p, c)
           \/ msgPc[p] = "woken" /\ MsgCurrent(p) /\ Stepping(p, msgArg[p])
    BY <1>0, <1>2, MsgNextIs
  <2>2. CASE MsgOther(p)
    BY <1>0, <2>2, MsgOtherWaits DEF MsgInv
  <2>3. ASSUME NEW c, Going(p, c) PROVE MsgInv'
    BY <1>0, <2>3, MsgStepWaiters, MsgStepMarked DEF MsgInv
  <2>4. ASSUME NEW c \in SndCalls(p) \cup RcvCalls, Stepping(p, c) PROVE Going(p, c)
    BY <1>0, <2>4, MsgCallsAre DEF Going
  <2>5. CASE msgPc[p] = "woken" /\ MsgCurrent(p) /\ Stepping(p, msgArg[p])
    <3>1. Going(p, msgArg[p])
      BY <1>0, <2>5 DEF Going, MsgWaiters, MsgCurrent
    <3> QED BY <2>3, <3>1
  <2> QED BY <2>1, <2>2, <2>3, <2>4, <2>5
<1> QED BY <1>1, <1>2

LEMMA MsgInvWakes == MsgInv => MsgNoLostWakeup
<1> SUFFICES ASSUME MsgInv, NEW p \in MsgProcs, msgPc[p] = "sleep", MsgCurrent(p)
             PROVE  IF msgArg[p].op = "snd" THEN NoRoom(msgArg[p].q, msgArg[p].sz)
                    ELSE Find(msgArg[p].q, msgArg[p].type) = 0
  BY DEF MsgNoLostWakeup, MsgCurrent
<1> QED BY FindIs DEF MsgInv, MsgWaiters, MsgMarked

(***************************************************************************)
(* Without a super user nobody sleeps in umsgsnd or umsgrcv who could go   *)
(* on: the two flags of a queue are enough to remember its sleepers,       *)
(* although a wakeup clears one of them for all.                           *)
(***************************************************************************)
THEOREM MsgWakes ==
  ASSUME MsgSupers = {}
  PROVE  MsgSpec => []MsgNoLostWakeup
<1>1. MsgInit => MsgInv
  BY MsgInitTyped DEF MsgInv
<1>2. MsgInv /\ [MsgNext]_msgVars => MsgInv'
  BY MsgInvNext
<1> QED BY <1>1, <1>2, MsgInvWakes, PTL DEF MsgSpec

----
(* Order. *)

LEMMA MsgStepOrder ==
  ASSUME NEW p, NEW c, Stepping(p, c), NEW q \in Queues,
         NEW i \in DOMAIN msgq[q], NEW j \in DOMAIN msgq[q],
         i < j, msgq[q][i].type = msgq[q][j].type
  PROVE  Contains(msgq'[q], msgq[q][j])
<1>0. /\ MsgTyped /\ c \in MsgCalls /\ MsgStep(p, c) /\ c.q \in Queues /\ c.type \in Int
      /\ msgq \in [Queues -> Seq(Msgs)]
  BY DEF Stepping, MsgTyped, MsgCalls
<1> DEFINE s == msgq[q]
<1>1. s \in Seq(Msgs) /\ DOMAIN s = 1 .. Len(s) /\ Len(s) \in Nat
  BY <1>0
<1>2. CASE msgq'[q] = msgq[q]
  BY <1>1, <1>2 DEF Contains
<1>3. CASE umsgsndPut(p, c)
  <2>1. PICK m : msgq' = [msgq EXCEPT ![c.q] = Append(@, m)]
    BY <1>3 DEF umsgsndPut
  <2>2. CASE q = c.q
    <3>1. msgq'[q] = Append(s, m)
      BY <1>0, <2>1, <2>2
    <3>2. Len(Append(s, m)) = Len(s) + 1 /\ Append(s, m)[j] = s[j]
      BY <1>1
    <3>3. j \in 1 .. Len(msgq'[q]) /\ msgq'[q][j] = s[j]
      BY <1>1, <3>1, <3>2
    <3> QED BY <3>3 DEF Contains
  <2> QED BY <1>0, <1>2, <2>1, <2>2
<1>4. CASE umsgrcvGet(p, c)
  <2> DEFINE k == FindIn(s, c.type)
  <2>1. /\ msgq' = [msgq EXCEPT ![c.q] = RemoveAt(@, Find(c.q, c.type))]
        /\ Find(c.q, c.type) # 0
    BY <1>4 DEF umsgrcvGet
  <2>2. CASE q = c.q
    <3>1. msgq'[q] = RemoveAt(s, k) /\ k # 0
      BY <1>0, <2>1, <2>2, FindIs
    <3>2. k \in DOMAIN s /\ \A n \in DOMAIN s : s[n].type = s[k].type => k <= n
      BY <1>0, <1>1, <3>1, FindFirst
    <3> HIDE DEF k, s
    <3>3. j # k
      BY <1>1, <3>2 DEF s
    <3>4. s \in Seq(Msgs) /\ j \in DOMAIN s /\ msgq[q][j] = s[j]
      BY <1>1 DEF s
    <3>5. Contains(RemoveAt(s, k), s[j])
      BY <3>2, <3>3, <3>4, RemovedAt
    <3> QED BY <3>1, <3>4, <3>5
  <2> QED BY <1>0, <1>2, <2>1, <2>2
<1>5. CASE umsgsndWait(p, c) \/ umsgsndNoSpot(p, c) \/ umsgrcvWait(p, c) \/ umsgrcvTooBig(p, c)
  BY <1>2, <1>5 DEF umsgsndWait, umsgsndNoSpot, umsgrcvWait, umsgrcvTooBig, queueVars
<1> QED BY <1>0, <1>3, <1>4, <1>5 DEF MsgStep

LEMMA MsgOtherOrder ==
  ASSUME MsgTyped, NEW p \in MsgProcs, MsgOther(p), NEW q \in Queues,
         msgRemoved'[q] = msgRemoved[q]
  PROVE  msgq'[q] = msgq[q]
<1>1. CASE msgq' = msgq
  BY <1>1
<1>2. ASSUME NEW k \in Queues, umsgctlRMID(p, k) PROVE msgq'[q] = msgq[q]
  <2>1. /\ msgq' = [msgq EXCEPT ![k] = << >>]
        /\ msgRemoved' = [msgRemoved EXCEPT ![k] = @ + 1]
    BY <1>2 DEF umsgctlRMID
  <2> QED BY <2>1 DEF MsgTyped
<1> QED BY <1>1, <1>2 DEF MsgOther, MsgSignal, MsgAbort, umsgget, umsgctlSET, queueVars

(***************************************************************************)
(* umsgrcv never takes a message before an older one of its type, whatever *)
(* types it is asked for.                                                  *)
(***************************************************************************)
THEOREM MsgInOrder == MsgSpec => MsgOrder
<1>1. MsgInit => MsgTyped
  BY MsgInitTyped
<1>2. ASSUME MsgTyped, [MsgNext]_msgVars, NEW q \in Queues, msgRemoved'[q] = msgRemoved[q],
             NEW i \in DOMAIN msgq[q], NEW j \in DOMAIN msgq[q],
             i < j, msgq[q][i].type = msgq[q][j].type
      PROVE  Contains(msgq'[q], msgq[q][j])
  <2>1. DOMAIN msgq[q] = 1 .. Len(msgq[q])
    BY <1>2 DEF MsgTyped
  <2>2. CASE msgq'[q] = msgq[q]
    BY <2>1, <2>2 DEF Contains
  <2>3. CASE UNCHANGED msgVars
    BY <2>2, <2>3 DEF msgVars, queueVars
  <2>4. CASE MsgNext
    <3>1. PICK p \in MsgProcs : MsgOther(p) \/ \E c : Stepping(p, c)
      BY <1>2, <2>4, MsgNextIs
    <3> QED BY <1>2, <2>2, <3>1, MsgOtherOrder, MsgStepOrder
  <2> QED BY <1>2, <2>3, <2>4
<1>3. MsgTyped /\ [MsgNext]_msgVars =>
        [\A q \in Queues :
           msgRemoved'[q] = msgRemoved[q] =>
             \A i, j \in DOMAIN msgq[q] :
               /\ i < j /\ msgq[q][i].type = msgq[q][j].type
               /\ ~Contains(msgq'[q], msgq[q][j])
               => ~Contains(msgq'[q], msgq[q][i])]_msgVars
  BY <1>2
<1> QED BY <1>1, <1>3, MsgTypedNext, PTL DEF MsgSpec, MsgOrder

----
(***************************************************************************)
(* Accounting: what the header of a queue says of its list, and to whom    *)
(* the entries of msg_map belong.                                          *)
(***************************************************************************)
Sizes(s) == [i \in DOMAIN s |-> s[i].ts]
SpotsIn(s) == {s[i].spot : i \in DOMAIN s}
Apart(s) == \A i, j \in DOMAIN s : s[i].spot = s[j].spot => i = j

\* The header of a queue with the list s: bytes, number, and whether it is there.
HeaderIs(s, bytes, num, there) ==
  /\ bytes = SumFunctionOnSet(Sizes(s), DOMAIN s)
  /\ num = Len(s) /\ num <= NMSG
  /\ ~there => s = << >>

\* Every message has an entry of its own, which was free to begin with.
SpotsKept(lists, map) ==
  /\ \A q \in Queues : Apart(lists[q]) /\ SpotsIn(lists[q]) \cap msgStale = {}
  /\ \A q, r \in Queues : q # r => SpotsIn(lists[q]) \cap SpotsIn(lists[r]) = {}
  /\ map = msgStale \cup UNION {SpotsIn(lists[q]) : q \in Queues}

MsgHeaders == \A q \in Queues : HeaderIs(msgq[q], cbytes[q], qnum[q], msgAlloc[q])

MsgKept == MsgHeaders /\ SpotsKept(msgq, msg_map)

\* The list of one queue changes.
Relisted(lists, new, q, s) ==
  lists \in [Queues -> Seq(Msgs)] /\ q \in Queues /\ new = [lists EXCEPT ![q] = s]

LEMMA SpotsMore ==
  ASSUME NEW lists, NEW new, NEW q, NEW s, Relisted(lists, new, q, s),
         NEW map, SpotsKept(lists, map), NEW x, x \notin map,
         Apart(s), SpotsIn(s) = SpotsIn(lists[q]) \cup {x}
  PROVE  SpotsKept(new, map \cup {x})
<1>1. \A r \in Queues : new[r] = IF r = q THEN s ELSE lists[r]
  BY DEF Relisted
<1>2. q \in Queues
  BY DEF Relisted
<1> DEFINE K(r) == SpotsIn(lists[r])
           L(r) == SpotsIn(new[r])
<1>3. \A r \in Queues : Apart(new[r]) /\ L(r) = IF r = q THEN K(r) \cup {x} ELSE K(r)
  BY <1>1 DEF SpotsKept
<1>4. /\ \A r \in Queues : K(r) \cap msgStale = {}
      /\ \A r, t \in Queues : r # t => K(r) \cap K(t) = {}
      /\ map = msgStale \cup UNION {K(r) : r \in Queues}
  BY DEF SpotsKept
<1> HIDE DEF K, L
<1>5. x \notin msgStale /\ \A r \in Queues : x \notin K(r)
  BY <1>4
<1>6. /\ \A r \in Queues : L(r) \cap msgStale = {}
      /\ \A r, t \in Queues : r # t => L(r) \cap L(t) = {}
      /\ map \cup {x} = msgStale \cup UNION {L(r) : r \in Queues}
  BY <1>2, <1>3, <1>4, <1>5
<1> QED BY <1>3, <1>6 DEF SpotsKept, L

LEMMA SpotsLess ==
  ASSUME NEW lists, NEW new, NEW q, NEW s, Relisted(lists, new, q, s),
         NEW map, SpotsKept(lists, map), NEW X, X \subseteq SpotsIn(lists[q]),
         Apart(s), SpotsIn(s) = SpotsIn(lists[q]) \ X
  PROVE  SpotsKept(new, map \ X)
<1>1. \A r \in Queues : new[r] = IF r = q THEN s ELSE lists[r]
  BY DEF Relisted
<1>2. q \in Queues
  BY DEF Relisted
<1> DEFINE K(r) == SpotsIn(lists[r])
           L(r) == SpotsIn(new[r])
<1>3. \A r \in Queues : Apart(new[r]) /\ L(r) = IF r = q THEN K(r) \ X ELSE K(r)
  BY <1>1 DEF SpotsKept
<1>4. /\ \A r \in Queues : K(r) \cap msgStale = {}
      /\ \A r, t \in Queues : r # t => K(r) \cap K(t) = {}
      /\ map = msgStale \cup UNION {K(r) : r \in Queues}
      /\ X \subseteq K(q)
  BY DEF SpotsKept
<1> HIDE DEF K, L
<1>6. /\ \A r \in Queues : L(r) \cap msgStale = {}
      /\ \A r, t \in Queues : r # t => L(r) \cap L(t) = {}
      /\ map \ X = msgStale \cup UNION {L(r) : r \in Queues}
  BY <1>2, <1>3, <1>4
<1> QED BY <1>3, <1>6 DEF SpotsKept, L

LEMMA HeaderEmpty == \A there \in BOOLEAN : HeaderIs(<< >>, 0, 0, there)
<1>1. DOMAIN << >> = {} /\ Len(<< >>) = 0
  OBVIOUS
<1> QED BY <1>1, SumEmpty, MsgAssumption DEF HeaderIs

LEMMA HeaderMore ==
  ASSUME NEW s \in Seq(Msgs), NEW bytes \in Int, NEW num \in Int, HeaderIs(s, bytes, num, TRUE),
         num < NMSG, NEW m \in Msgs
  PROVE  HeaderIs(Append(s, m), bytes + m.ts, num + 1, TRUE)
<1> DEFINE t == Append(s, m)
           n == Len(s)
<1>1. /\ DOMAIN s = 1 .. n /\ DOMAIN t = 1 .. n + 1 /\ n \in Nat /\ Len(t) = n + 1
      /\ \A i \in 1 .. n : t[i] = s[i] /\ s[i] \in Msgs
      /\ t[n + 1] = m
  OBVIOUS
<1>2. \A i \in 1 .. n : s[i].ts \in Nat
  BY <1>1 DEF Msgs
<1>3. m.ts \in Nat
  BY DEF Msgs
<1> DEFINE f == Sizes(s)
           e == Sizes(t)
<1> HIDE DEF t, n
<1>4. \A i \in 1 .. n : f[i] \in Int /\ e[i] = f[i]
  BY <1>1, <1>2 DEF Sizes
<1>5. e[n + 1] = m.ts /\ e[n + 1] \in Int
  BY <1>1, <1>3 DEF Sizes
<1> HIDE DEF f, e
<1>6. SumFunctionOnSet(e, 1 .. n + 1) = SumFunctionOnSet(f, 1 .. n) + e[n + 1]
  BY <1>1, <1>4, <1>5, SumAppended
<1> QED BY <1>1, <1>5, <1>6, MsgAssumption DEF HeaderIs, f, e, t, n

LEMMA HeaderLess ==
  ASSUME NEW s \in Seq(Msgs), NEW bytes \in Int, NEW num \in Int, HeaderIs(s, bytes, num, TRUE),
         NEW i \in DOMAIN s
  PROVE  HeaderIs(RemoveAt(s, i), bytes - s[i].ts, num - 1, TRUE)
<1> DEFINE t == RemoveAt(s, i)
           n == Len(s)
<1>1. /\ DOMAIN s = 1 .. n /\ n \in Nat /\ n - 1 \in Nat /\ DOMAIN t = 1 .. n - 1
      /\ Len(t) = n - 1 /\ i \in 1 .. n
      /\ \A k \in 1 .. n - 1 : t[k] = IF k < i THEN s[k] ELSE s[k + 1]
  BY RemovedAt
<1>2. \A k \in 1 .. n : s[k].ts \in Nat
  <2>1. \A k \in 1 .. n : s[k] \in Msgs
    OBVIOUS
  <2> HIDE DEF t
  <2> QED BY <2>1 DEF Msgs
<1> DEFINE f == Sizes(s)
           e == Sizes(t)
<1> HIDE DEF t, n
<1>4. /\ \A k \in 1 .. n : f[k] \in Int
      /\ \A k \in 1 .. n - 1 : e[k] = IF k < i THEN f[k] ELSE f[k + 1]
      /\ f[i] = s[i].ts
  BY <1>1, <1>2 DEF Sizes
<1> HIDE DEF f, e
<1>6. SumFunctionOnSet(e, 1 .. n - 1) = SumFunctionOnSet(f, 1 .. n) - f[i]
  <2>1. n \in Nat /\ i \in 1 .. n /\ \A k \in 1 .. n : f[k] \in Int
    BY <1>1, <1>4
  <2> QED BY <2>1, <1>4, SumRemoved, SMTT(60)
<1> QED BY <1>1, <1>4, <1>6, MsgAssumption DEF HeaderIs, f, e, t, n

\* The spots of the longer and of the shorter list.
LEMMA SpotsAppend ==
  ASSUME NEW s \in Seq(Msgs), Apart(s), NEW m \in Msgs, m.spot \notin SpotsIn(s)
  PROVE  Apart(Append(s, m)) /\ SpotsIn(Append(s, m)) = SpotsIn(s) \cup {m.spot}
<1> DEFINE t == Append(s, m)
           n == Len(s)
<1>1. /\ DOMAIN s = 1 .. n /\ DOMAIN t = 1 .. n + 1 /\ n \in Nat
      /\ \A i \in 1 .. n : t[i] = s[i]
      /\ t[n + 1] = m
  OBVIOUS
<1> HIDE DEF t, n
<1>2. n + 1 \in DOMAIN t /\ \A i \in DOMAIN t : i # n + 1 => i \in 1 .. n /\ t[i] = s[i]
  BY <1>1
<1>3. \A i \in DOMAIN s : i \in DOMAIN t
  BY <1>1
<1>4. Apart(t)
  BY <1>1, <1>2 DEF Apart, SpotsIn
<1>5. SpotsIn(t) = SpotsIn(s) \cup {m.spot}
  BY <1>1, <1>2, <1>3 DEF SpotsIn
<1> QED BY <1>4, <1>5 DEF t

LEMMA SpotsRemove ==
  ASSUME NEW s \in Seq(Msgs), Apart(s), NEW i \in DOMAIN s
  PROVE  Apart(RemoveAt(s, i)) /\ SpotsIn(RemoveAt(s, i)) = SpotsIn(s) \ {s[i].spot}
<1> DEFINE t == RemoveAt(s, i)
           n == Len(s)
           from(k) == IF k < i THEN k ELSE k + 1
<1>1. /\ DOMAIN s = 1 .. n /\ n \in Nat /\ DOMAIN t = 1 .. n - 1 /\ i \in 1 .. n
      /\ \A k \in 1 .. n - 1 : t[k] = IF k < i THEN s[k] ELSE s[k + 1]
  BY RemovedAt
<1> HIDE DEF t, n
<1>2. /\ \A k \in DOMAIN t : from(k) \in DOMAIN s /\ from(k) # i /\ t[k] = s[from(k)]
      /\ \A k, j \in DOMAIN t : from(k) = from(j) => k = j
  BY <1>1
<1>3. ASSUME NEW j \in DOMAIN s, j # i PROVE \E k \in DOMAIN t : from(k) = j
  <2> DEFINE k == IF j < i THEN j ELSE j - 1
  <2>1. k \in DOMAIN t /\ from(k) = j
    BY <1>1, <1>3
  <2> QED BY <2>1
<1> HIDE DEF from
<1>4. Apart(t)
  BY <1>2 DEF Apart
<1>5. SpotsIn(t) = SpotsIn(s) \ {s[i].spot}
  BY <1>2, <1>3 DEF Apart, SpotsIn
<1> QED BY <1>4, <1>5 DEF t

LEMMA MsgStepKept ==
  ASSUME NEW p, NEW c, Going(p, c), MsgKept, msgStale' = msgStale
  PROVE  MsgKept'
<1>0. /\ MsgTyped /\ MsgStep(p, c) /\ msgAlloc' = msgAlloc
      /\ c.q \in Queues /\ c.type \in Int /\ c.sz \in Nat /\ msgAlloc[c.q]
      /\ c.op = "snd" => c.type \in Nat
  BY MsgStepPc DEF Going, Stepping, MsgCalls
<1> DEFINE q == c.q
           s == msgq[q]
<1>1. /\ s \in Seq(Msgs) /\ cbytes[q] \in Int /\ qnum[q] \in Int /\ HeaderIs(s, cbytes[q], qnum[q], TRUE)
      /\ Apart(s) /\ SpotsIn(s) \subseteq msg_map /\ SpotsKept(msgq, msg_map)
      /\ msgq \in [Queues -> Seq(Msgs)] /\ msg_map \subseteq Spots /\ q \in Queues
      /\ cbytes \in [Queues -> Int] /\ qnum \in [Queues -> Int]
  BY <1>0 DEF MsgKept, MsgHeaders, SpotsKept, MsgTyped
\* All that is left to show when one list becomes t.
<1>2. ASSUME NEW t, NEW b, NEW n, HeaderIs(t, b, n, TRUE),
             msgq' = [msgq EXCEPT ![q] = t], cbytes' = [cbytes EXCEPT ![q] = b],
             qnum' = [qnum EXCEPT ![q] = n], SpotsKept(msgq', msg_map')
      PROVE  MsgKept'
  <2>1. ASSUME NEW r \in Queues PROVE HeaderIs(msgq'[r], cbytes'[r], qnum'[r], msgAlloc'[r])
    <3>1. CASE r = q
      <4>1. msgq'[r] = t /\ cbytes'[r] = b /\ qnum'[r] = n /\ msgAlloc'[r]
        BY <1>0, <1>1, <1>2, <3>1
      <4>2. HeaderIs(t, b, n, TRUE)
        BY <1>2
      <4> QED BY <4>1, <4>2 DEF HeaderIs
    <3>2. CASE r # q
      <4>1. /\ msgq'[r] = msgq[r] /\ cbytes'[r] = cbytes[r] /\ qnum'[r] = qnum[r]
            /\ msgAlloc'[r] = msgAlloc[r]
        BY <1>0, <1>1, <1>2, <3>2
      <4> QED BY <4>1 DEF MsgKept, MsgHeaders
    <3> QED BY <3>1, <3>2
  <2>2. SpotsKept(msgq, msg_map)'
    BY <1>2 DEF SpotsKept
  <2> QED BY <2>1, <2>2 DEF MsgKept, MsgHeaders
<1> HIDE DEF q, s
<1>3. CASE umsgsndPut(p, c)
  <2> DEFINE spot == Min(Spots \ msg_map)
             m == [id |-> msgSent, type |-> c.type, ts |-> c.sz, spot |-> spot]
  <2>1. /\ msg_map # Spots /\ ~NoRoom(q, c.sz) /\ c.op = "snd"
        /\ msg_map' = msg_map \cup {spot}
        /\ msgq' = [msgq EXCEPT ![q] = Append(s, m)]
        /\ cbytes' = [cbytes EXCEPT ![q] = cbytes[q] + c.sz]
        /\ qnum' = [qnum EXCEPT ![q] = qnum[q] + 1]
    BY <1>3 DEF umsgsndPut, q, s
  <2>2. spot \in Spots /\ spot \notin msg_map /\ spot \in Nat
    <3>1. Spots \ msg_map \subseteq Nat /\ Spots \ msg_map # {}
      BY <1>1, <2>1, MsgPlaces
    <3> QED BY <3>1, MinIs, MsgPlaces
  <2> HIDE DEF spot
  <2>3. m \in Msgs /\ m.spot = spot /\ m.ts = c.sz
    BY <1>0, <2>1, <2>2 DEF Msgs, MsgTyped
  <2> HIDE DEF m
  <2>4. qnum[q] < NMSG
    BY <1>1, <2>1, MsgAssumption DEF NoRoom
  <2>5. HeaderIs(Append(s, m), cbytes[q] + c.sz, qnum[q] + 1, TRUE)
    <3>1. HeaderIs(Append(s, m), cbytes[q] + m.ts, qnum[q] + 1, TRUE)
      BY <1>1, <2>3, <2>4, HeaderMore
    <3> QED BY <2>3, <3>1
  <2>6. /\ Apart(Append(s, m)) /\ SpotsIn(Append(s, m)) = SpotsIn(s) \cup {spot}
    <3>1. m.spot \notin SpotsIn(s)
      BY <1>1, <2>2, <2>3
    <3> QED BY <1>1, <2>3, <3>1, SpotsAppend
  <2>7. SpotsKept(msgq', msg_map \cup {spot})
    <3>1. Relisted(msgq, msgq', q, Append(s, m)) /\ s = msgq[q]
      BY <1>1, <2>1 DEF Relisted, s
    <3> QED BY <1>1, <2>2, <2>6, <3>1, SpotsMore
  <2> QED BY <1>2, <2>1, <2>5, <2>7
<1>4. CASE umsgrcvGet(p, c)
  <2> DEFINE i == FindIn(s, c.type)
  <2>1. /\ i # 0
        /\ msgq' = [msgq EXCEPT ![q] = RemoveAt(s, i)]
        /\ cbytes' = [cbytes EXCEPT ![q] = cbytes[q] - s[i].ts]
        /\ qnum' = [qnum EXCEPT ![q] = qnum[q] - 1]
        /\ msg_map' = msg_map \ {s[i].spot}
    BY <1>4, FindIs DEF umsgrcvGet, RcvBytes, q, s
  <2>2. i \in DOMAIN s
    BY <1>0, <1>1, <2>1, FindFirst
  <2> HIDE DEF i
  <2>3. HeaderIs(RemoveAt(s, i), cbytes[q] - s[i].ts, qnum[q] - 1, TRUE)
    BY <1>1, <2>2, HeaderLess
  <2>4. Apart(RemoveAt(s, i)) /\ SpotsIn(RemoveAt(s, i)) = SpotsIn(s) \ {s[i].spot}
    BY <1>1, <2>2, SpotsRemove
  <2>5. SpotsKept(msgq', msg_map \ {s[i].spot})
    <3>1. Relisted(msgq, msgq', q, RemoveAt(s, i)) /\ s = msgq[q] /\ {s[i].spot} \subseteq SpotsIn(s)
      BY <1>1, <2>1, <2>2 DEF Relisted, s, SpotsIn
    <3> DEFINE X == {s[i].spot}
    <3>2. X \subseteq SpotsIn(msgq[q]) /\ SpotsIn(RemoveAt(s, i)) = SpotsIn(msgq[q]) \ X
      BY <2>4, <3>1
    <3> HIDE DEF X
    <3>3. SpotsKept(msgq', msg_map \ X)
      BY <1>1, <2>4, <3>1, <3>2, SpotsLess
    <3> QED BY <3>3 DEF X
  <2> QED BY <1>2, <2>1, <2>3, <2>5
<1>5. CASE umsgsndWait(p, c) \/ umsgsndNoSpot(p, c) \/ umsgrcvWait(p, c) \/ umsgrcvTooBig(p, c)
  <2>1. UNCHANGED <<msgq, cbytes, qnum, msg_map, msgAlloc, msgStale>>
    BY <1>5 DEF umsgsndWait, umsgsndNoSpot, umsgrcvWait, umsgrcvTooBig, queueVars
  <2> QED BY <2>1 DEF MsgKept, MsgHeaders, SpotsKept
<1> QED BY <1>0, <1>3, <1>4, <1>5 DEF MsgStep

LEMMA MsgOtherKept ==
  ASSUME MsgTyped, MsgKept, NEW p \in MsgProcs, MsgOther(p), msgStale' = msgStale
  PROVE  MsgKept'
<1>0. /\ msgq \in [Queues -> Seq(Msgs)] /\ msgAlloc \in [Queues -> BOOLEAN]
      /\ cbytes \in [Queues -> Int] /\ qnum \in [Queues -> Int]
  BY DEF MsgTyped
<1>1. CASE UNCHANGED <<msgq, cbytes, qnum, msg_map, msgAlloc>>
  BY <1>1 DEF MsgKept, MsgHeaders, SpotsKept
<1>2. ASSUME NEW q \in Queues, umsgget(p, q) PROVE MsgKept'
  <2>1. /\ ~msgAlloc[q] /\ msgAlloc' = [msgAlloc EXCEPT ![q] = TRUE]
        /\ qnum' = [qnum EXCEPT ![q] = 0] /\ UNCHANGED <<msgq, cbytes, msg_map>>
    BY <1>2 DEF umsgget
  <2>2. HeaderIs(msgq[q], cbytes[q], 0, TRUE)
    <3>1. HeaderIs(msgq[q], cbytes[q], qnum[q], FALSE)
      <4>1. HeaderIs(msgq[q], cbytes[q], qnum[q], msgAlloc[q])
        BY DEF MsgKept, MsgHeaders
      <4> QED BY <2>1, <4>1 DEF HeaderIs
    <3> QED BY <3>1, MsgAssumption DEF HeaderIs
  <2>3. ASSUME NEW r \in Queues PROVE HeaderIs(msgq'[r], cbytes'[r], qnum'[r], msgAlloc'[r])
    <3>1. CASE r = q
      BY <1>0, <2>1, <2>2, <3>1
    <3>2. CASE r # q
      BY <1>0, <2>1, <3>2 DEF MsgKept, MsgHeaders
    <3> QED BY <3>1, <3>2
  <2>4. SpotsKept(msgq, msg_map)'
    BY <2>1 DEF MsgKept, SpotsKept
  <2> QED BY <2>3, <2>4 DEF MsgKept, MsgHeaders
<1>3. ASSUME NEW q \in Queues, umsgctlRMID(p, q) PROVE MsgKept'
  <2>1. /\ msgAlloc' = [msgAlloc EXCEPT ![q] = FALSE] /\ msgq' = [msgq EXCEPT ![q] = << >>]
        /\ cbytes' = [cbytes EXCEPT ![q] = 0] /\ qnum' = [qnum EXCEPT ![q] = 0]
        /\ msg_map' = msg_map \ SpotsIn(msgq[q])
    BY <1>3 DEF umsgctlRMID, RmidFrees, SpotsIn
  <2>2. << >> \in Seq(Msgs) /\ Apart(<< >>) /\ SpotsIn(<< >>) = {}
    BY DEF Apart, SpotsIn
  <2>3. SpotsKept(msgq', msg_map \ SpotsIn(msgq[q]))
    <3>1. Relisted(msgq, msgq', q, << >>)
      BY <1>0, <2>1 DEF Relisted
    <3> QED BY <2>2, <3>1, SpotsLess DEF MsgKept
  <2>4. ASSUME NEW r \in Queues PROVE HeaderIs(msgq'[r], cbytes'[r], qnum'[r], msgAlloc'[r])
    <3>1. CASE r = q
      <4>1. msgq'[r] = << >> /\ cbytes'[r] = 0 /\ qnum'[r] = 0 /\ msgAlloc'[r] = FALSE
        BY <1>0, <2>1, <3>1
      <4> QED BY <4>1, HeaderEmpty
    <3>2. CASE r # q
      BY <1>0, <2>1, <3>2 DEF MsgKept, MsgHeaders
    <3> QED BY <3>1, <3>2
  <2>5. SpotsKept(msgq, msg_map)'
    BY <2>1, <2>3 DEF SpotsKept
  <2> QED BY <2>4, <2>5 DEF MsgKept, MsgHeaders
<1>4. ASSUME NEW q \in Queues, NEW size \in MsgSetSizes, umsgctlSET(p, q, size) PROVE MsgKept'
  BY <1>1, <1>4 DEF umsgctlSET
<1>5. CASE MsgSignal(p) \/ MsgAbort(p)
  BY <1>1, <1>5 DEF MsgSignal, MsgAbort, queueVars
<1> QED BY <1>2, <1>3, <1>4, <1>5 DEF MsgOther

LEMMA MsgKeptNext ==
  MsgSupers = {} /\ MsgInv /\ MsgKept /\ [MsgNext]_msgVars => MsgKept'
<1> SUFFICES ASSUME MsgSupers = {}, MsgInv, MsgKept, [MsgNext]_msgVars PROVE MsgKept'
  OBVIOUS
<1>0. MsgTyped /\ MsgWaiters
  BY DEF MsgInv
<1>1. CASE UNCHANGED msgVars
  BY <1>1 DEF msgVars, queueVars, MsgKept, MsgHeaders, SpotsKept
<1>2. CASE MsgNext
  <2>0. msgStale' = msgStale
    BY <1>2 DEF MsgNext
  <2>1. PICK p \in MsgProcs :
           \/ MsgOther(p)
           \/ \E c \in SndCalls(p) \cup RcvCalls : Stepping(p, c)
           \/ msgPc[p] = "woken" /\ MsgCurrent(p) /\ Stepping(p, msgArg[p])
    BY <1>0, <1>2, MsgNextIs
  <2>2. CASE MsgOther(p)
    BY <1>0, <2>0, <2>2, MsgOtherKept
  <2>3. ASSUME NEW c, Going(p, c) PROVE MsgKept'
    BY <2>0, <2>3, MsgStepKept
  <2>4. ASSUME NEW c \in SndCalls(p) \cup RcvCalls, Stepping(p, c) PROVE Going(p, c)
    BY <1>0, <2>4, MsgCallsAre DEF Going
  <2>5. CASE msgPc[p] = "woken" /\ MsgCurrent(p) /\ Stepping(p, msgArg[p])
    <3>1. Going(p, msgArg[p])
      BY <1>0, <2>5 DEF Going, MsgWaiters, MsgCurrent
    <3> QED BY <2>3, <3>1
  <2> QED BY <2>1, <2>2, <2>3, <2>4, <2>5
<1> QED BY <1>1, <1>2

LEMMA MsgInitKept == MsgInit => MsgKept
<1> SUFFICES ASSUME MsgInit PROVE MsgKept
  OBVIOUS
<1>1. \A q \in Queues : msgq[q] = << >> /\ cbytes[q] = 0 /\ qnum[q] = 0 /\ msgAlloc[q] = FALSE
  BY DEF MsgInit
<1>2. SpotsIn(<< >>) = {} /\ Apart(<< >>)
  BY DEF SpotsIn, Apart
<1>3. msg_map = msgStale
  BY DEF MsgInit
<1>4. MsgHeaders
  BY <1>1, HeaderEmpty DEF MsgHeaders
<1>5. SpotsKept(msgq, msg_map)
  <2>1. \A q \in Queues : SpotsIn(msgq[q]) = {} /\ Apart(msgq[q])
    BY <1>1, <1>2
  <2> QED BY <1>3, <2>1 DEF SpotsKept
<1> QED BY <1>4, <1>5 DEF MsgKept

LEMMA MsgKeptSays == MsgTyped /\ MsgKept => MsgAccounting
<1> SUFFICES ASSUME MsgTyped, MsgKept PROVE MsgAccounting
  OBVIOUS
<1>1. ASSUME NEW q \in Queues
      PROVE  /\ cbytes[q] = SumFunction([i \in DOMAIN msgq[q] |-> msgq[q][i].ts])
             /\ qnum[q] = Len(msgq[q]) /\ qnum[q] <= NMSG
  BY DEF MsgKept, MsgHeaders, HeaderIs, SumFunction, Sizes
<1>2. ASSUME NEW q \in Queues, NEW r \in Queues, NEW i \in DOMAIN msgq[q], NEW j \in DOMAIN msgq[r],
             msgq[q][i].spot = msgq[r][j].spot
      PROVE  q = r /\ i = j
  <2>1. msgq[q][i].spot \in SpotsIn(msgq[q]) /\ msgq[r][j].spot \in SpotsIn(msgq[r])
    BY DEF SpotsIn
  <2>2. q = r
    BY <1>2, <2>1 DEF MsgKept, SpotsKept
  <2> QED BY <1>2, <2>2 DEF MsgKept, SpotsKept, Apart
<1>3. msg_map = msgStale \cup UNION {{msgq[q][i].spot : i \in DOMAIN msgq[q]} : q \in Queues}
  BY DEF MsgKept, SpotsKept, SpotsIn
<1> QED BY <1>1, <1>2, <1>3 DEF MsgAccounting

(***************************************************************************)
(* Without a super user, who could send to a queue that is not there, the  *)
(* header of a queue and msg_map say what the lists hold.                  *)
(***************************************************************************)
THEOREM MsgAccounts ==
  ASSUME MsgSupers = {}
  PROVE  MsgSpec => []MsgAccounting
<1>1. MsgInit => MsgInv /\ MsgKept
  BY MsgInitTyped, MsgInitKept DEF MsgInv
<1>2. MsgInv /\ MsgKept /\ [MsgNext]_msgVars => MsgInv' /\ MsgKept'
  BY MsgInvNext, MsgKeptNext
<1>3. MsgInv /\ MsgKept => MsgAccounting
  BY MsgKeptSays DEF MsgInv
<1> QED BY <1>1, <1>2, <1>3, PTL DEF MsgSpec
====
