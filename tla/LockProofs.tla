---- MODULE LockProofs ----
(***************************************************************************)
(* Proofs about the locks of users: the structures of record locks and who *)
(* waits for whom, the counts of the processes that wait for semaphores,   *)
(* and what is undone when a process exits, for any number of processes,   *)
(* files, locks, semaphores and operations.                                *)
(***************************************************************************)
EXTENDS RLock, Sem, SumProofs

----------------------------------------------------------------------------
(* Record locks.                                                           *)

(***************************************************************************)
(* The graph of the processes that wait for each other.                    *)
(***************************************************************************)
\* W tells whom a process waits for.  S holds whom p waits for, directly or
\* not, and p is not among them.
Free(W, p, S) ==
  /\ S \subseteq RlProcs /\ p \notin S
  /\ W[p] \subseteq S
  /\ \A r \in S : W[r] \subseteq S

Acyclic(W) ==
  /\ W \in [RlProcs -> SUBSET RlProcs]
  /\ \A p \in RlProcs : \E S : Free(W, p, S)

\* A process that waits for nobody comes to be waited for.
LEMMA AcyclicSink ==
  ASSUME NEW W, Acyclic(W), NEW p \in RlProcs, NEW X \in [RlProcs -> SUBSET RlProcs],
         X[p] = {}, \A r \in RlProcs : X[r] \subseteq W[r] \cup {p}
  PROVE  Acyclic(X)
<1> USE DEF Acyclic
<1>1. ASSUME NEW q \in RlProcs PROVE \E S : Free(X, q, S)
  <2>1. CASE q = p
    <3>1. Free(X, q, {})
      BY <2>1 DEF Free
    <3> QED BY <3>1
  <2>2. CASE q # p
    <3>1. PICK S : Free(W, q, S)
      OBVIOUS
    <3>2. Free(X, q, S \cup {p})
      BY <2>2, <3>1 DEF Free
    <3> QED BY <3>2
  <2> QED BY <2>1, <2>2
<1> QED BY <1>1

\* p begins to wait for processes none of which waits for it.
LEMMA AcyclicWait ==
  ASSUME NEW W, Acyclic(W), NEW p \in RlProcs, NEW X \in [RlProcs -> SUBSET RlProcs],
         \A r \in RlProcs : r # p => X[r] = W[r],
         NEW C, \A q \in X[p] : /\ q # p /\ C[q] \subseteq RlProcs /\ p \notin C[q]
                                /\ W[q] \subseteq C[q]
                                /\ \A r \in C[q] : W[r] \subseteq C[q]
  PROVE  Acyclic(X)
<1> USE DEF Acyclic
<1> DEFINE S == X[p] \cup UNION {C[q] : q \in X[p]}
<1>1. S \subseteq RlProcs /\ p \notin S /\ X[p] \subseteq S
  OBVIOUS
<1>2. ASSUME NEW r \in S PROVE W[r] \subseteq S /\ X[r] = W[r]
  <2>1. r \in RlProcs /\ r # p
    BY <1>1
  <2>2. PICK q \in X[p] : r = q \/ r \in C[q]
    OBVIOUS
  <2>3. W[r] \subseteq C[q]
    BY <2>2
  <2> QED BY <2>1, <2>3
<1> HIDE DEF S
<1>3. ASSUME NEW r \in RlProcs PROVE \E T : Free(X, r, T)
  <2>1. PICK T : Free(W, r, T)
    OBVIOUS
  <2>2. CASE r = p
    <3>1. Free(X, r, S)
      BY <1>1, <1>2, <2>2 DEF Free
    <3> QED BY <3>1
  <2>3. CASE r # p /\ r \in S
    <3>1. Free(X, r, T \cap S)
      BY <1>1, <1>2, <2>1, <2>3 DEF Free
    <3> QED BY <3>1
  <2>4. CASE r # p /\ r \notin S
    <3>1. Free(X, r, T \cup S)
      BY <1>1, <1>2, <2>1, <2>4 DEF Free
    <3> QED BY <3>1
  <2> QED BY <2>2, <2>3, <2>4
<1> QED BY <1>3

\* What the function waiting computes.
Waits == [p \in RlProcs |-> WaitsFor(p)]

ReachStep(self) ==
  [x \in (1 .. Cardinality(RlProcs)) \X SUBSET RlProcs |->
     x[2] \cup UNION {WaitsFor(r) : r \in x[2] \ {self}}]

IsReach(g, q, self) ==
  /\ g \in [0 .. Cardinality(RlProcs) -> SUBSET RlProcs]
  /\ g[0] = WaitsFor(q)
  /\ \A n \in 1 .. Cardinality(RlProcs) :
       g[n] = g[n - 1] \cup UNION {WaitsFor(r) : r \in g[n - 1] \ {self}}

LEMMA RlCount == IsFiniteSet(RlProcs) /\ Cardinality(RlProcs) \in Nat
BY RlAssumption, FS_CardinalityType

LEMMA WaitingIs ==
  ASSUME Waits \in [RlProcs -> SUBSET RlProcs], NEW q \in RlProcs, NEW self
  PROVE  \E g : /\ IsReach(g, q, self)
                /\ waiting(q, self) <=> self \in g[Cardinality(RlProcs)]
<1>0. Cardinality(RlProcs) \in Nat
  BY RlCount
<1>1. \A r \in RlProcs : WaitsFor(r) \subseteq RlProcs
  BY DEF Waits
<1> DEFINE N == Cardinality(RlProcs)
           Is(g) == g = [n \in 0 .. N |->
                      IF n = 0 THEN WaitsFor(q)
                      ELSE g[n - 1] \cup UNION {WaitsFor(r) : r \in g[n - 1] \ {self}}]
<1>2. ReachStep(self) \in [(1 .. N) \X SUBSET RlProcs -> SUBSET RlProcs]
  <2>1. ASSUME NEW x \in (1 .. N) \X SUBSET RlProcs
        PROVE  x[2] \cup UNION {WaitsFor(r) : r \in x[2] \ {self}} \in SUBSET RlProcs
    BY <1>1
  <2> QED BY <2>1 DEF ReachStep
<1>3. PICK g0 \in [0 .. N -> SUBSET RlProcs] : IsRec(g0, N, WaitsFor(q), ReachStep(self))
  <2>1. PICK F : F = ReachStep(self)
    OBVIOUS
  <2>2. PICK b : b = WaitsFor(q)
    OBVIOUS
  <2>3. PICK V : V = SUBSET RlProcs
    OBVIOUS
  <2>4. \E g \in [0 .. N -> V] : IsRec(g, N, b, F)
    BY <1>0, <1>1, <1>2, <2>1, <2>2, <2>3, RecExists
  <2> QED BY <2>1, <2>2, <2>3, <2>4
<1>4. Is(g0)
  <2>1. ASSUME NEW n \in 0 .. N, n # 0
        PROVE  ReachStep(self)[<<n, g0[n - 1]>>]
                 = g0[n - 1] \cup UNION {WaitsFor(r) : r \in g0[n - 1] \ {self}}
    <3>1. <<n, g0[n - 1]>> \in (1 .. N) \X SUBSET RlProcs
      BY <1>0, <2>1
    <3> QED BY <3>1 DEF ReachStep
  <2> QED BY <1>3, <2>1 DEF IsRec
<1>5. PICK g : Is(g) /\ (waiting(q, self) <=> self \in g[N])
  <2>1. PICK g : g = CHOOSE h : Is(h)
    OBVIOUS
  <2>2. Is(g)
    BY <1>4, <2>1
  <2>3. waiting(q, self) <=> self \in g[N]
    BY <2>1 DEF waiting
  <2> QED BY <2>2, <2>3
<1>6. /\ g[0] = WaitsFor(q)
      /\ \A n \in 1 .. N : g[n] = g[n - 1] \cup UNION {WaitsFor(r) : r \in g[n - 1] \ {self}}
  <2>1. 0 \in 0 .. N /\ \A n \in 1 .. N : n \in 0 .. N /\ n # 0
    BY <1>0
  <2> HIDE DEF N
  <2> QED BY <1>5, <2>1
<1>7. \A n \in 0 .. N : g[n] \in SUBSET RlProcs
  <2> DEFINE G == {n \in 0 .. N : g[n] \in SUBSET RlProcs}
  <2>1. 0 \in G
    BY <1>0, <1>1, <1>6
  <2>2. ASSUME NEW n \in 1 .. N, n - 1 \in G PROVE n \in G
    <3>1. g[n - 1] \subseteq RlProcs
      BY <2>2
    <3>2. UNION {WaitsFor(r) : r \in g[n - 1] \ {self}} \subseteq RlProcs
      BY <1>1, <3>1
    <3> QED BY <1>0, <1>6, <3>1, <3>2
  <2> HIDE DEF G
  <2>3. \A n \in 0 .. N : n \in G
    BY <1>0, <2>1, <2>2, Upwards
  <2> QED BY <2>3 DEF G
<1>8. g \in [0 .. N -> SUBSET RlProcs]
  BY <1>5, <1>7
<1> QED BY <1>5, <1>6, <1>8 DEF IsReach

\* Whoever has a set free of itself waits for itself in no way.
LEMMA NotWaiting ==
  ASSUME Waits \in [RlProcs -> SUBSET RlProcs], NEW p \in RlProcs, NEW S, Free(Waits, p, S)
  PROVE  ~ waiting(p, p)
<1> DEFINE N == Cardinality(RlProcs)
<1>0. N \in Nat
  BY RlCount
<1>1. PICK g : IsReach(g, p, p) /\ (waiting(p, p) <=> p \in g[N])
  BY WaitingIs
<1> DEFINE G == {n \in 0 .. N : g[n] \subseteq S}
<1>2. 0 \in G
  BY <1>0, <1>1 DEF IsReach, Free, Waits
<1>3. ASSUME NEW n \in 1 .. N, n - 1 \in G PROVE n \in G
  <2>1. g[n] = g[n - 1] \cup UNION {WaitsFor(r) : r \in g[n - 1] \ {p}}
    BY <1>1 DEF IsReach
  <2>2. \A r \in g[n - 1] : WaitsFor(r) \subseteq S
    BY <1>3 DEF Free, Waits
  <2> QED BY <1>0, <1>3, <2>1, <2>2
<1>4. N \in G
  <2> HIDE DEF G, N
  <2>1. \A n \in 0 .. N : n \in G
    BY <1>0, <1>2, <1>3, Upwards
  <2> QED BY <1>0, <2>1
<1> QED BY <1>1, <1>4 DEF Free

\* When q does not wait for self, the walk has come to an end: more steps
\* than there are processes would meet one of them twice.
LEMMA WaitingClosed ==
  ASSUME Waits \in [RlProcs -> SUBSET RlProcs], NEW q \in RlProcs, NEW self \in RlProcs,
         ~ waiting(q, self)
  PROVE  \E S \in SUBSET RlProcs : /\ self \notin S /\ WaitsFor(q) \subseteq S
                                   /\ \A r \in S : WaitsFor(r) \subseteq S
<1> DEFINE N == Cardinality(RlProcs)
<1>0. N \in Nat /\ IsFiniteSet(RlProcs)
  BY RlCount
<1>1. PICK g : IsReach(g, q, self) /\ (waiting(q, self) <=> self \in g[N])
  BY WaitingIs
<1>2. /\ g \in [0 .. N -> SUBSET RlProcs] /\ g[0] = WaitsFor(q)
      /\ \A n \in 1 .. N : g[n] = g[n - 1] \cup UNION {WaitsFor(r) : r \in g[n - 1] \ {self}}
  BY <1>1 DEF IsReach
<1>3. self \notin g[N]
  BY <1>1
<1> DEFINE Closed(n) == \A r \in g[n] \ {self} : WaitsFor(r) \subseteq g[n]
           Big(n) == Cardinality(g[n]) >= n
           G == {n \in 0 .. N : WaitsFor(q) \subseteq g[n] /\ (Closed(n) \/ Big(n))}
<1>4. \A n \in 0 .. N : IsFiniteSet(g[n]) /\ Cardinality(g[n]) \in Nat
  BY <1>0, <1>2, FS_Subset, FS_CardinalityType
<1>5. 0 \in G
  BY <1>0, <1>2, <1>4
<1>6. ASSUME NEW n \in 1 .. N, n - 1 \in G PROVE n \in G
  <2>0. n - 1 \in 0 .. N /\ n \in 0 .. N /\ n - 1 \in Nat /\ n \in Nat
    BY <1>0
  <2>1. g[n] = g[n - 1] \cup UNION {WaitsFor(r) : r \in g[n - 1] \ {self}}
    BY <1>2
  <2>2. WaitsFor(q) \subseteq g[n]
    BY <1>6, <2>1
  <2>3. CASE Closed(n - 1)
    <3>1. g[n] = g[n - 1]
      BY <2>1, <2>3
    <3>2. Closed(n)
      BY <2>3, <3>1
    <3> QED BY <2>0, <2>2, <3>2
  <2>4. CASE ~ Closed(n - 1)
    <3>1. Big(n - 1)
      BY <1>6, <2>4
    <3>0. PICK r \in g[n - 1] \ {self} : ~ (WaitsFor(r) \subseteq g[n - 1])
      BY <2>4
    <3>2. PICK x \in WaitsFor(r) : x \notin g[n - 1]
      BY <3>0
    <3>3. g[n - 1] \cup {x} \subseteq g[n]
      BY <2>1, <3>0, <3>2
    <3>4. PICK A, B : A = g[n - 1] /\ B = g[n]
      OBVIOUS
    <3>5. IsFiniteSet(A) /\ IsFiniteSet(B) /\ Cardinality(A) \in Nat /\ Cardinality(B) \in Nat
          /\ x \notin A /\ A \cup {x} \subseteq B
      BY <1>4, <2>0, <3>2, <3>3, <3>4
    <3>6. Cardinality(A \cup {x}) = Cardinality(A) + 1
      BY <3>5, FS_AddElement
    <3>7. Cardinality(A \cup {x}) <= Cardinality(B)
      <4> HIDE <3>6
      <4> QED BY <3>5, FS_Subset
    <3>8. Big(n)
      BY <2>0, <3>1, <3>4, <3>5, <3>6, <3>7
    <3> QED BY <2>0, <2>2, <3>8
  <2> QED BY <2>3, <2>4
<1>7. N \in G
  <2> HIDE DEF G, N
  <2>1. \A n \in 0 .. N : n \in G
    BY <1>0, <1>5, <1>6, Upwards
  <2> QED BY <1>0, <2>1
<1>8. ~ Big(N)
  <2>1. PICK A : A = g[N]
    OBVIOUS
  <2>2. A \subseteq RlProcs /\ self \notin A /\ Cardinality(A) \in Nat
    BY <1>0, <1>2, <1>3, <1>4, <2>1
  <2>3. Cardinality(A) <= N /\ (N = Cardinality(A) => RlProcs = A)
    BY <1>0, <2>2, FS_Subset
  <2> HIDE DEF N
  <2> QED BY <1>0, <2>1, <2>2, <2>3
<1>9. g[N] \in SUBSET RlProcs
  BY <1>0, <1>2
<1> QED BY <1>3, <1>7, <1>8, <1>9
(***************************************************************************)
(* Lists of locks.                                                         *)
(***************************************************************************)
RlLocks == [type : {0, 1}, start : Nat, end : Nat \cup {EOF}, proc : RlProcs]

\* What is on the list new and not on the list old belongs to p.
Within(new, old, p) ==
  \A i \in DOMAIN new : new[i].proc = p \/ \E j \in DOMAIN old : new[i] = old[j]

\* A list and the number of free structures, after p's call on the list old.
Kept(list, free, old, p, total) ==
  /\ list \in Seq(RlLocks) /\ free \in Int
  /\ Len(list) + free = total
  /\ Within(list, old, p)

LEMMA LockCut ==
  ASSUME NEW k \in RlLocks, NEW l \in RlLocks
  PROVE  /\ l.start > k.start => /\ [k EXCEPT !.end = l.start - 1] \in RlLocks
                                 /\ [k EXCEPT !.end = l.start - 1].proc = k.proc
         /\ l.end # EOF => /\ [k EXCEPT !.start = l.end + 1] \in RlLocks
                           /\ [k EXCEPT !.start = l.end + 1].proc = k.proc
BY DEF RlLocks, EOF

LEMMA ExtractIs ==
  ASSUME NEW k \in RlLocks, NEW l \in RlLocks
  PROVE  /\ extract(k, l) \in Seq(RlLocks)
         /\ Len(extract(k, l)) \in 0 .. 2
         /\ \A i \in 1 .. Len(extract(k, l)) : extract(k, l)[i].proc = k.proc
<1>1. PICK a, b : /\ a = [k EXCEPT !.end = l.start - 1]
                  /\ b = [k EXCEPT !.start = l.end + 1]
  OBVIOUS
<1>2. PICK A, B : /\ A <=> l.start > k.start
                  /\ B <=> l.end # EOF /\ (k.end = EOF \/ l.end < k.end)
  OBVIOUS
<1>3. /\ A => a \in RlLocks /\ a.proc = k.proc
      /\ B => b \in RlLocks /\ b.proc = k.proc
  BY <1>1, <1>2, LockCut
<1>4. PICK s, t : s = (IF A THEN <<a>> ELSE << >>) /\ t = (IF B THEN <<b>> ELSE << >>)
  OBVIOUS
<1>5. extract(k, l) = s \o t
  BY <1>1, <1>2, <1>4 DEF extract
<1>6. /\ s \in Seq(RlLocks) /\ Len(s) \in 0 .. 1 /\ \A i \in 1 .. Len(s) : s[i].proc = k.proc
      /\ t \in Seq(RlLocks) /\ Len(t) \in 0 .. 1 /\ \A i \in 1 .. Len(t) : t[i].proc = k.proc
  <2>1. /\ A => s = <<a>>
        /\ ~ A => s = << >>
        /\ B => t = <<b>>
        /\ ~ B => t = << >>
    BY <1>4
  <2>2. ASSUME NEW c, c \in RlLocks, c.proc = k.proc
        PROVE  /\ <<c>> \in Seq(RlLocks) /\ Len(<<c>>) = 1
               /\ \A i \in 1 .. 1 : <<c>>[i].proc = k.proc
    <3>1. \A i \in 1 .. 1 : i = 1
      OBVIOUS
    <3> QED BY <2>2, <3>1
  <2>3. << >> \in Seq(RlLocks) /\ Len(<< >>) = 0
    OBVIOUS
  <2>4. s \in Seq(RlLocks) /\ Len(s) \in 0 .. 1 /\ \A i \in 1 .. Len(s) : s[i].proc = k.proc
    <3>1. CASE A
      <4>1. s = <<a>> /\ a \in RlLocks /\ a.proc = k.proc
        BY <1>3, <2>1, <3>1
      <4>2. <<a>> \in Seq(RlLocks) /\ Len(<<a>>) = 1 /\ \A i \in 1 .. 1 : <<a>>[i].proc = k.proc
        BY <2>2, <4>1
      <4> QED BY <4>1, <4>2
    <3>2. CASE ~ A
      BY <2>1, <2>3, <3>2
    <3> QED BY <3>1, <3>2
  <2>5. t \in Seq(RlLocks) /\ Len(t) \in 0 .. 1 /\ \A i \in 1 .. Len(t) : t[i].proc = k.proc
    <3>1. CASE B
      <4>1. t = <<b>> /\ b \in RlLocks /\ b.proc = k.proc
        BY <1>3, <2>1, <3>1
      <4>2. <<b>> \in Seq(RlLocks) /\ Len(<<b>>) = 1 /\ \A i \in 1 .. 1 : <<b>>[i].proc = k.proc
        BY <2>2, <4>1
      <4> QED BY <4>1, <4>2
    <3>2. CASE ~ B
      BY <2>1, <2>3, <3>2
    <3> QED BY <3>1, <3>2
  <2> QED BY <2>4, <2>5
<1>7. s \o t \in Seq(RlLocks) /\ Len(s \o t) = Len(s) + Len(t)
  BY <1>6
<1>8. ASSUME NEW i \in 1 .. Len(s \o t) PROVE (s \o t)[i].proc = k.proc
  <2>1. CASE i <= Len(s)
    BY <1>6, <1>7, <2>1
  <2>2. CASE ~ (i <= Len(s))
    <3>1. (s \o t)[i] = t[i - Len(s)] /\ i - Len(s) \in 1 .. Len(t)
      BY <1>6, <1>7, <2>2
    <3> QED BY <1>6, <3>1
  <2> QED BY <2>1, <2>2
<1>9. Len(s \o t) \in 0 .. 2
  BY <1>6, <1>7
<1> QED BY <1>5, <1>7, <1>8, <1>9

RlStates == [list : Seq(RlLocks), free : Int, ok : BOOLEAN]

\* Where remlock is after n elements of the list old.
Partial(a, n, old, p, free) ==
  a \in RlStates /\ Kept(a.list, a.free, old, p, n + free)

LEMMA KeptMore ==
  ASSUME NEW list, NEW free, NEW old, NEW p, NEW total \in Int, Kept(list, free, old, p, total),
         NEW k \in RlLocks, k.proc = p \/ \E j \in DOMAIN old : k = old[j]
  PROVE  Kept(Append(list, k), free, old, p, total + 1)
<1> USE DEF Kept
<1>1. /\ Append(list, k) \in Seq(RlLocks) /\ Len(Append(list, k)) = Len(list) + 1
      /\ Len(list) \in Nat
  OBVIOUS
<1>2. Within(Append(list, k), old, p)
  BY DEF Within
<1> QED BY <1>1, <1>2

LEMMA StepIs ==
  ASSUME NEW a \in RlStates, NEW k \in RlLocks, NEW l \in RlLocks
  PROVE  remlockStep(a, k, l) \in RlStates
<1>1. PICK rest : rest = extract(k, l)
  OBVIOUS
<1>2. rest \in Seq(RlLocks) /\ Len(rest) \in Nat
  BY <1>1, ExtractIs
<1>3. /\ Append(a.list, k) \in Seq(RlLocks) /\ a.list \o rest \in Seq(RlLocks)
      /\ a.free + 1 - Len(rest) \in Int
  BY <1>2 DEF RlStates
<1> QED BY <1>1, <1>3 DEF remlockStep, RlStates

LEMMA StepKeeps ==
  ASSUME NEW old \in Seq(RlLocks), NEW l \in RlLocks, NEW free \in Int,
         NEW n \in 1 .. Len(old), NEW a, Partial(a, n - 1, old, l.proc, free)
  PROVE  Partial(remlockStep(a, old[n], l), n, old, l.proc, free)
<1>1. PICK k : k = old[n]
  OBVIOUS
<1>2. k \in RlLocks /\ (\E j \in DOMAIN old : k = old[j]) /\ n \in Nat
  BY <1>1
<1>3. PICK rest : rest = extract(k, l)
  OBVIOUS
<1>4. /\ rest \in Seq(RlLocks) /\ Len(rest) \in Nat
      /\ \A i \in 1 .. Len(rest) : rest[i].proc = k.proc
  <2>1. /\ extract(k, l) \in Seq(RlLocks) /\ Len(extract(k, l)) \in 0 .. 2
        /\ \A i \in 1 .. Len(extract(k, l)) : extract(k, l)[i].proc = k.proc
    BY <1>2, ExtractIs
  <2> QED BY <1>3, <2>1
<1>5. PICK p : p = l.proc
  OBVIOUS
<1>6. a \in RlStates /\ Kept(a.list, a.free, old, p, n - 1 + free)
  BY <1>5 DEF Partial
<1>7. Kept(Append(a.list, k), a.free, old, p, n + free)
  <2>1. PICK t, s : t = n - 1 + free /\ s = a.list
    OBVIOUS
  <2>2. t \in Int /\ t + 1 = n + free
    BY <1>2, <2>1
  <2>3. Kept(Append(s, k), a.free, old, p, t + 1)
    BY <1>2, <1>6, <2>1, <2>2, KeptMore
  <2> QED BY <2>1, <2>2, <2>3
<1>8. ASSUME k.proc = p PROVE Kept(a.list \o rest, a.free + 1 - Len(rest), old, p, n + free)
  <2>1. PICK s : s = a.list
    OBVIOUS
  <2>2. s \in Seq(RlLocks) /\ a.free \in Int /\ Len(s) + a.free = n - 1 + free /\ Within(s, old, p)
    BY <1>6, <2>1 DEF Kept
  <2>3. s \o rest \in Seq(RlLocks) /\ Len(s \o rest) = Len(s) + Len(rest) /\ Len(s) \in Nat
    BY <1>4, <2>2
  <2>4. ASSUME NEW i \in 1 .. Len(s \o rest)
        PROVE  (s \o rest)[i].proc = p \/ \E j \in DOMAIN old : (s \o rest)[i] = old[j]
    <3>1. CASE i <= Len(s)
      <4>1. (s \o rest)[i] = s[i] /\ i \in DOMAIN s
        BY <1>4, <2>2, <2>3, <2>4, <3>1
      <4> QED BY <2>2, <4>1 DEF Within
    <3>2. CASE ~ (i <= Len(s))
      <4>1. i - Len(s) \in 1 .. Len(rest) /\ (s \o rest)[i] = rest[i - Len(s)]
        BY <1>4, <2>2, <2>3, <2>4, <3>2
      <4> QED BY <1>4, <1>8, <4>1
    <3> QED BY <3>1, <3>2
  <2>5. Within(s \o rest, old, p)
    BY <2>3, <2>4 DEF Within
  <2>6. a.free + 1 - Len(rest) \in Int /\ Len(s \o rest) + (a.free + 1 - Len(rest)) = n + free
    <3>1. PICK x, y, b, z : x = Len(s) /\ y = Len(rest) /\ b = a.free /\ z = Len(s \o rest)
      OBVIOUS
    <3>2. x \in Int /\ y \in Int /\ b \in Int /\ x + b = n - 1 + free /\ z = x + y /\ n \in Int
      BY <1>2, <1>4, <2>2, <2>3, <3>1
    <3>3. b + 1 - y \in Int /\ z + (b + 1 - y) = n + free
      BY <3>2
    <3> QED BY <3>1, <3>3
  <2> QED BY <2>1, <2>3, <2>5, <2>6 DEF Kept
<1>9. PICK r : r = remlockStep(a, k, l)
  OBVIOUS
<1>10. r \in RlStates
  BY <1>2, <1>6, <1>9, StepIs
<1>11. \/ r.list = Append(a.list, k) /\ r.free = a.free
       \/ r.list = a.list \o rest /\ r.free = a.free + 1 - Len(rest) /\ k.proc = p
  BY <1>3, <1>5, <1>6, <1>9 DEF remlockStep, RlStates
<1>12. Kept(r.list, r.free, old, p, n + free)
  BY <1>7, <1>8, <1>11
<1> QED BY <1>1, <1>5, <1>9, <1>10, <1>12 DEF Partial

\* What remlock goes through, element after element.
RemlockRun(g, old, l, free) ==
  /\ g[0] = [list |-> << >>, free |-> free, ok |-> TRUE]
  /\ \A n \in 1 .. Len(old) : g[n] = remlockStep(g[n - 1], old[n], l)
  /\ g \in [0 .. Len(old) -> RlStates]

LEMMA RemlockRuns ==
  ASSUME NEW old \in Seq(RlLocks), NEW l \in RlLocks, NEW free \in Int
  PROVE  \E g : RemlockRun(g, old, l, free) /\ remlock(old, l, free) = g[Len(old)]
<1> DEFINE N == Len(old)
           base == [list |-> << >>, free |-> free, ok |-> TRUE]
           F == [x \in (1 .. N) \X RlStates |-> remlockStep(x[2], old[x[1]], l)]
           Is(g) == g = [n \in 0 .. N |-> IF n = 0 THEN base
                                          ELSE remlockStep(g[n - 1], old[n], l)]
<1>0. N \in Nat /\ \A n \in 1 .. N : old[n] \in RlLocks
  OBVIOUS
<1>1. base \in RlStates /\ base.list = << >> /\ base.free = free
  BY DEF RlStates
<1>2. F \in [(1 .. N) \X RlStates -> RlStates]
  <2>1. ASSUME NEW x \in (1 .. N) \X RlStates PROVE remlockStep(x[2], old[x[1]], l) \in RlStates
    BY <1>0, StepIs
  <2> QED BY <2>1
<1>3. PICK g0 \in [0 .. N -> RlStates] : IsRec(g0, N, base, F)
  <2> HIDE DEF base, F, N
  <2> QED BY <1>0, <1>1, <1>2, RecExists
<1>4. Is(g0)
  <2>1. ASSUME NEW n \in 0 .. N, n # 0 PROVE F[<<n, g0[n - 1]>>] = remlockStep(g0[n - 1], old[n], l)
    <3>1. <<n, g0[n - 1]>> \in (1 .. N) \X RlStates
      BY <1>0, <2>1
    <3> QED BY <3>1
  <2> HIDE DEF F, base
  <2> QED BY <1>3, <2>1 DEF IsRec
<1>5. PICK g : Is(g) /\ remlock(old, l, free) = g[N]
  <2>1. PICK g : g = CHOOSE h : Is(h)
    OBVIOUS
  <2>2. Is(g)
    BY <1>4, <2>1
  <2>3. remlock(old, l, free) = g[N]
    BY <2>1 DEF remlock
  <2> QED BY <2>2, <2>3
<1>6. g[0] = base /\ \A n \in 1 .. N : g[n] = remlockStep(g[n - 1], old[n], l)
  <2>1. 0 \in 0 .. N /\ \A n \in 1 .. N : n \in 0 .. N /\ n # 0
    BY <1>0
  <2> HIDE DEF N, base
  <2> QED BY <1>5, <2>1
<1>7. \A n \in 0 .. N : g[n] \in RlStates
  <2> DEFINE T == {n \in 0 .. N : g[n] \in RlStates}
  <2>1. 0 \in T
    BY <1>0, <1>1, <1>6
  <2>2. ASSUME NEW n \in 1 .. N, n - 1 \in T PROVE n \in T
    <3>1. PICK a, k : a = g[n - 1] /\ k = old[n]
      OBVIOUS
    <3>2. a \in RlStates /\ k \in RlLocks /\ n \in 0 .. N
      BY <1>0, <2>2, <3>1
    <3>3. remlockStep(a, k, l) \in RlStates
      BY <3>2, StepIs
    <3> QED BY <1>6, <3>1, <3>2, <3>3
  <2>3. \A n \in 0 .. N : n \in T
    <3> HIDE DEF T, N
    <3> QED BY <1>0, <2>1, <2>2, Upwards
  <2> QED BY <2>3
<1>8. g \in [0 .. N -> RlStates]
  <2>1. DOMAIN g = 0 .. N /\ g = [n \in 0 .. N |-> g[n]]
    BY <1>5
  <2> QED BY <1>7, <2>1
<1> QED BY <1>5, <1>6, <1>8 DEF RemlockRun

\* remlock moves structures between the list and the free ones, and touches
\* the owner's locks only.
LEMMA RemlockIs ==
  ASSUME NEW old \in Seq(RlLocks), NEW l \in RlLocks, NEW free \in Int
  PROVE  \E r : r = remlock(old, l, free) /\ Kept(r.list, r.free, old, l.proc, free + Len(old))
<1> DEFINE N == Len(old)
           base == [list |-> << >>, free |-> free, ok |-> TRUE]
<1>0. N \in Nat
  OBVIOUS
<1>1. base \in RlStates /\ base.list = << >> /\ base.free = free
  BY DEF RlStates
<1>5. PICK g : RemlockRun(g, old, l, free) /\ remlock(old, l, free) = g[N]
  BY RemlockRuns
<1>6. g[0] = base /\ \A n \in 1 .. N : g[n] = remlockStep(g[n - 1], old[n], l)
  BY <1>5 DEF RemlockRun
<1> DEFINE G == {n \in 0 .. N : Partial(g[n], n, old, l.proc, free)}
<1>7. 0 \in G
  <2>1. Kept(<< >>, free, old, l.proc, 0 + free)
    BY DEF Kept, Within
  <2>2. Partial(base, 0, old, l.proc, free)
    <3> HIDE DEF base
    <3> QED BY <1>1, <2>1 DEF Partial
  <2> HIDE DEF base
  <2> QED BY <1>0, <1>6, <2>2
<1>8. ASSUME NEW n \in 1 .. N, n - 1 \in G PROVE n \in G
  <2>1. Partial(g[n - 1], n - 1, old, l.proc, free)
    BY <1>8
  <2>2. PICK a : a = g[n - 1]
    OBVIOUS
  <2>3. Partial(remlockStep(a, old[n], l), n, old, l.proc, free)
    BY <2>1, <2>2, StepKeeps
  <2> QED BY <1>0, <1>6, <2>2, <2>3
<1>9. N \in G
  <2> HIDE DEF G, N
  <2>1. \A n \in 0 .. N : n \in G
    BY <1>0, <1>7, <1>8, Upwards
  <2> QED BY <1>0, <2>1
<1>10. Partial(g[N], N, old, l.proc, free) /\ N + free = free + N
  BY <1>0, <1>9
<1> HIDE DEF N
<1>11. Kept(g[N].list, g[N].free, old, l.proc, free + N)
  BY <1>10 DEF Partial
<1> QED BY <1>5, <1>11 DEF N

\* What freelock goes through.
FreelockRun(g, old, S) ==
  /\ g[0] = << >>
  /\ \A n \in 1 .. Len(old) : g[n] = IF n \in S THEN g[n - 1] ELSE Append(g[n - 1], old[n])

LEMMA FreelockRuns ==
  ASSUME NEW old \in Seq(RlLocks), NEW S \in SUBSET (1 .. Len(old))
  PROVE  \E g : FreelockRun(g, old, S) /\ freelock(old, S) = g[Len(old)]
<1> DEFINE N == Len(old)
           F == [x \in (1 .. N) \X Seq(RlLocks) |->
                   IF x[1] \in S THEN x[2] ELSE Append(x[2], old[x[1]])]
           Is(g) == g = [n \in 0 .. N |-> IF n = 0 THEN << >>
                                          ELSE IF n \in S THEN g[n - 1] ELSE Append(g[n - 1], old[n])]
<1>0. N \in Nat /\ \A n \in 1 .. N : old[n] \in RlLocks
  OBVIOUS
<1>1. << >> \in Seq(RlLocks)
  OBVIOUS
<1>2. F \in [(1 .. N) \X Seq(RlLocks) -> Seq(RlLocks)]
  <2>1. ASSUME NEW x \in (1 .. N) \X Seq(RlLocks)
        PROVE  (IF x[1] \in S THEN x[2] ELSE Append(x[2], old[x[1]])) \in Seq(RlLocks)
    BY <1>0
  <2> QED BY <2>1
<1>3. PICK g0 \in [0 .. N -> Seq(RlLocks)] : IsRec(g0, N, << >>, F)
  <2> HIDE DEF F, N
  <2>1. PICK b : b = << >>
    OBVIOUS
  <2> QED BY <1>0, <1>1, <1>2, <2>1, RecExists
<1>4. Is(g0)
  <2>1. ASSUME NEW n \in 0 .. N, n # 0
        PROVE  F[<<n, g0[n - 1]>>] = IF n \in S THEN g0[n - 1] ELSE Append(g0[n - 1], old[n])
    <3>1. <<n, g0[n - 1]>> \in (1 .. N) \X Seq(RlLocks)
      BY <1>0, <2>1
    <3> QED BY <3>1
  <2> HIDE DEF F
  <2> QED BY <1>3, <2>1 DEF IsRec
<1>5. PICK g : Is(g) /\ freelock(old, S) = g[N]
  <2>1. PICK g : g = CHOOSE h : Is(h)
    OBVIOUS
  <2>2. Is(g)
    BY <1>4, <2>1
  <2>3. freelock(old, S) = g[N]
    BY <2>1 DEF freelock
  <2> QED BY <2>2, <2>3
<1>6. /\ g[0] = << >>
      /\ \A n \in 1 .. N : g[n] = IF n \in S THEN g[n - 1] ELSE Append(g[n - 1], old[n])
  <2>1. 0 \in 0 .. N /\ \A n \in 1 .. N : n \in 0 .. N /\ n # 0
    BY <1>0
  <2> HIDE DEF N
  <2> QED BY <1>5, <2>1
<1> QED BY <1>5, <1>6 DEF FreelockRun

\* freelock takes the elements at the places in S off the list.
LEMMA FreelockIs ==
  ASSUME NEW old \in Seq(RlLocks), NEW S \in SUBSET (1 .. Len(old)), NEW p
  PROVE  \E list : list = freelock(old, S) /\ Kept(list, Cardinality(S), old, p, Len(old))
<1> DEFINE N == Len(old)
<1>0. N \in Nat /\ \A n \in 1 .. N : old[n] \in RlLocks
  OBVIOUS
<1>5. PICK g : FreelockRun(g, old, S) /\ freelock(old, S) = g[N]
  BY FreelockRuns
<1>6. /\ g[0] = << >>
      /\ \A n \in 1 .. N : g[n] = IF n \in S THEN g[n - 1] ELSE Append(g[n - 1], old[n])
  BY <1>5 DEF FreelockRun
<1> DEFINE Out(n) == Cardinality(S \cap (1 .. n))
           G == {n \in 0 .. N : Kept(g[n], Out(n), old, p, n)}
<1>7. \A n \in 0 .. N : IsFiniteSet(S \cap (1 .. n)) /\ Out(n) \in Nat
  <2> TAKE n \in 0 .. N
  <2>1. IsFiniteSet(1 .. n)
    BY <1>0, FS_Interval
  <2> QED BY <2>1, FS_Intersection, FS_CardinalityType
<1>8. 0 \in G
  <2>1. S \cap (1 .. 0) = {} /\ Out(0) = 0
    BY FS_EmptySet
  <2>2. Kept(<< >>, 0, old, p, 0)
    BY DEF Kept, Within
  <2> QED BY <1>0, <1>6, <2>1, <2>2
<1>9. ASSUME NEW n \in 1 .. N, n - 1 \in G PROVE n \in G
  <2>0. n \in 0 .. N /\ n - 1 \in 0 .. N /\ n - 1 \in Int
    BY <1>0
  <2>1. Kept(g[n - 1], Out(n - 1), old, p, n - 1)
    BY <1>9
  <2>2. CASE n \in S
    <3>1. /\ S \cap (1 .. n) = (S \cap (1 .. n - 1)) \cup {n}
          /\ n \notin S \cap (1 .. n - 1)
      BY <1>0, <2>2
    <3>2. Out(n) = Out(n - 1) + 1
      <4>1. PICK T : T = S \cap (1 .. n - 1)
        OBVIOUS
      <4>2. IsFiniteSet(T) /\ n \notin T
        BY <1>7, <2>0, <3>1, <4>1
      <4>3. Cardinality(T \cup {n}) = Cardinality(T) + 1
        BY <4>2, FS_AddElement
      <4> QED BY <3>1, <4>1, <4>3
    <3>3. g[n] = g[n - 1]
      BY <1>6, <2>2
    <3>4. Out(n - 1) \in Nat
      BY <1>7, <2>0
    <3> HIDE DEF Out
    <3>5. Kept(g[n], Out(n), old, p, n)
      BY <2>0, <2>1, <3>2, <3>3, <3>4 DEF Kept
    <3> QED BY <2>0, <3>5
  <2>3. CASE n \notin S
    <3>1. Out(n) = Out(n - 1)
      <4>1. S \cap (1 .. n) = S \cap (1 .. n - 1)
        BY <1>0, <2>3
      <4> QED BY <4>1
    <3>2. g[n] = Append(g[n - 1], old[n])
      BY <1>6, <2>3
    <3>3. PICK s, t, k : s = g[n - 1] /\ t = n - 1 /\ k = old[n]
      OBVIOUS
    <3>4. k \in RlLocks /\ (\E j \in DOMAIN old : k = old[j]) /\ t \in Int /\ t + 1 = n
      BY <1>0, <2>0, <3>3
    <3> HIDE DEF Out
    <3>5. Kept(s, Out(n), old, p, t)
      BY <2>1, <3>1, <3>3
    <3>6. Kept(Append(s, k), Out(n), old, p, t + 1)
      <4>1. PICK c : c = Out(n)
        OBVIOUS
      <4> QED BY <3>4, <3>5, <4>1, KeptMore
    <3> QED BY <2>0, <3>2, <3>3, <3>4, <3>6
  <2> QED BY <2>2, <2>3
<1>10. N \in G
  <2> HIDE DEF G, N
  <2>1. \A n \in 0 .. N : n \in G
    BY <1>0, <1>8, <1>9, Upwards
  <2> QED BY <1>0, <2>1
<1>11. S \cap (1 .. N) = S
  OBVIOUS
<1>12. Kept(g[N], Cardinality(S), old, p, N)
  BY <1>10, <1>11
<1> QED BY <1>5, <1>12

\* The ends of a combined lock: the lowest start and the highest end.
Spans(new, l, near) ==
  /\ new \in RlLocks /\ new.proc = l.proc /\ new.type = l.type
  /\ new.start \in {l.start} \cup {k.start : k \in near}
  /\ new.start <= l.start /\ \A k \in near : new.start <= k.start
  /\ new.end \in {l.end} \cup {k.end : k \in near}
  /\ new.end # EOF => /\ l.end # EOF /\ l.end <= new.end
                      /\ \A k \in near : k.end # EOF /\ k.end <= new.end

LEMMA CombinedIs ==
  ASSUME NEW l \in RlLocks, NEW near, near \subseteq RlLocks, IsFiniteSet(near)
  PROVE  Spans(Combined(l, near), l, near)
<1> DEFINE A == {l.start} \cup {k.start : k \in near}
           E == {l.end} \cup {k.end : k \in near}
<1>1. A \subseteq Nat /\ A # {}
  BY DEF RlLocks
<1>2. Min(A) \in A /\ Min(A) \in Nat /\ \A m \in A : Min(A) <= m
  <2> HIDE DEF A
  <2>1. \E n \in A : \A m \in A : n <= m
    BY <1>1, LeastNat
  <2> QED BY <1>1, <2>1 DEF Min
<1>3. EOF \notin E => Max(E) \in E /\ Max(E) \in Nat /\ \A m \in E : m <= Max(E)
  <2> SUFFICES ASSUME EOF \notin E
               PROVE  Max(E) \in E /\ Max(E) \in Nat /\ \A m \in E : m <= Max(E)
    OBVIOUS
  <2>1. E \subseteq Nat /\ E # {}
    BY DEF RlLocks
  <2>2. IsFiniteSet(E)
    <3> DEFINE T == {k.end : k \in near}
               h == [k \in near |-> k.end]
    <3>1. h \in Surjection(near, T)
      BY DEF Surjection
    <3>2. IsFiniteSet(T)
      <4> HIDE DEF h, T
      <4> QED BY <3>1, FS_Surjection
    <3>3. IsFiniteSet({l.end})
      BY FS_Singleton
    <3> HIDE DEF T
    <3>4. IsFiniteSet({l.end} \cup T)
      BY <3>2, <3>3, FS_Union
    <3> QED BY <3>4 DEF T
  <2> HIDE DEF E
  <2>3. \E n \in E : \A m \in E : n >= m
    BY <2>1, <2>2, GreatestNat
  <2> QED BY <2>1, <2>3 DEF Max
<1>4. PICK a, e : a = Min(A) /\ e = IF EOF \in E THEN EOF ELSE Max(E)
  OBVIOUS
<1>5. /\ a \in Nat /\ a \in A /\ \A m \in A : a <= m
      /\ e \in Nat \cup {EOF} /\ e \in E /\ (e # EOF => EOF \notin E /\ \A m \in E : m <= e)
  <2> HIDE DEF A, E
  <2>1. EOF \notin Nat
    BY DEF EOF
  <2> QED BY <1>2, <1>3, <1>4, <2>1
<1>6. Combined(l, near) = [l EXCEPT !.start = a, !.end = e]
  BY <1>4 DEF Combined
<1>7. PICK new : new = [l EXCEPT !.start = a, !.end = e]
  OBVIOUS
<1>8. /\ new \in RlLocks /\ new.proc = l.proc /\ new.type = l.type
      /\ new.start = a /\ new.end = e
  BY <1>5, <1>7 DEF RlLocks
<1>9. new.end # EOF => /\ l.end # EOF /\ l.end <= new.end
                       /\ \A k \in near : k.end # EOF /\ k.end <= new.end
  <2>1. l.end \in E /\ \A k \in near : k.end \in E
    OBVIOUS
  <2> HIDE DEF E
  <2> QED BY <1>5, <1>8, <2>1
<1> QED BY <1>5, <1>6, <1>7, <1>8, <1>9 DEF Spans

\* addlock, too, moves structures, and touches the owner's locks only.
LEMMA AddlockIs ==
  ASSUME NEW old \in Seq(RlLocks), NEW l \in RlLocks, NEW free \in Int
  PROVE  \E r : r = addlock(old, l, free) /\ Kept(r.list, r.free, old, l.proc, free + Len(old))
<1>0. Len(old) \in Nat /\ DOMAIN old = 1 .. Len(old) /\ \A i \in 1 .. Len(old) : old[i] \in RlLocks
  OBVIOUS
<1>1. PICK wide : wide = [l EXCEPT !.start = IF @ = 0 THEN 0 ELSE @ - 1,
                                   !.end = IF @ = EOF THEN EOF ELSE @ + 1]
  OBVIOUS
<1>2. PICK near : near = {i \in DOMAIN old : /\ nextmeet(wide, old[i]) /\ old[i].proc = l.proc
                                             /\ old[i].type = l.type}
  OBVIOUS
<1>3. near \in SUBSET (1 .. Len(old)) /\ IsFiniteSet(near) /\ Cardinality(near) \in Nat
  <2>1. IsFiniteSet(1 .. Len(old)) /\ near \subseteq 1 .. Len(old)
    BY <1>0, <1>2, FS_Interval
  <2> QED BY <2>1, FS_Subset, FS_CardinalityType
<1>4. PICK T : T = {old[i] : i \in near}
  OBVIOUS
<1>5. T \subseteq RlLocks /\ IsFiniteSet(T)
  <2> DEFINE h == [i \in near |-> old[i]]
  <2>1. h \in Surjection(near, T)
    BY <1>4 DEF Surjection
  <2>2. IsFiniteSet(T)
    <3> HIDE DEF h
    <3> QED BY <1>3, <2>1, FS_Surjection
  <2> QED BY <1>0, <1>3, <1>4, <2>2
<1>6. PICK new : new = Combined(l, T)
  OBVIOUS
<1>7. new \in RlLocks /\ new.proc = l.proc
  BY <1>5, <1>6, CombinedIs DEF Spans
<1>8. PICK p, room, mid : p = l.proc /\ room = free + Cardinality(near) /\ mid = freelock(old, near)
  OBVIOUS
<1>9. Kept(mid, Cardinality(near), old, p, Len(old)) /\ room \in Int
  <2>1. \E list : list = freelock(old, near) /\ Kept(list, Cardinality(near), old, p, Len(old))
    BY <1>3, FreelockIs
  <2> QED BY <1>3, <1>8, <2>1
<1>10. mid \in Seq(RlLocks) /\ Len(mid) + Cardinality(near) = Len(old) /\ Len(mid) \in Nat
       /\ Within(mid, old, p)
  BY <1>9 DEF Kept
<1>11. PICK r : r = remlock(mid, new, room - 1)
  OBVIOUS
<1>12. Kept(r.list, r.free, mid, p, room - 1 + Len(mid))
  <2>1. PICK q : q = room - 1
    OBVIOUS
  <2>2. q \in Int
    BY <1>9, <2>1
  <2>3. \E s : s = remlock(mid, new, q) /\ Kept(s.list, s.free, mid, new.proc, q + Len(mid))
    BY <1>7, <1>10, <2>2, RemlockIs
  <2> QED BY <1>7, <1>8, <1>11, <2>1, <2>3
<1>13. addlock(old, l, free) = IF room = 0 THEN [list |-> old, free |-> free]
                               ELSE [list |-> <<new>> \o r.list, free |-> r.free]
  BY <1>1, <1>2, <1>4, <1>6, <1>8, <1>11 DEF addlock
<1>14. PICK s : s = r.list
  OBVIOUS
<1>15. s \in Seq(RlLocks) /\ r.free \in Int /\ Len(s) + r.free = room - 1 + Len(mid) /\ Within(s, mid, p)
  BY <1>12, <1>14 DEF Kept
<1>16. <<new>> \o s \in Seq(RlLocks) /\ Len(<<new>> \o s) = Len(s) + 1 /\ Len(s) \in Nat
  BY <1>7, <1>15
<1>17. Within(<<new>> \o s, old, p)
  <2>1. ASSUME NEW i \in 1 .. Len(s) + 1
        PROVE  (<<new>> \o s)[i].proc = p \/ \E j \in DOMAIN old : (<<new>> \o s)[i] = old[j]
    <3>1. CASE i = 1
      <4>1. (<<new>> \o s)[i] = new
        BY <1>15, <3>1
      <4> QED BY <1>7, <1>8, <4>1
    <3>2. CASE i # 1
      <4>1. i - 1 \in DOMAIN s /\ (<<new>> \o s)[i] = s[i - 1]
        BY <1>15, <1>16, <2>1, <3>2
      <4>2. s[i - 1].proc = p \/ \E j \in DOMAIN mid : s[i - 1] = mid[j]
        BY <1>15, <4>1 DEF Within
      <4>3. \A j \in DOMAIN mid : mid[j].proc = p \/ \E m \in DOMAIN old : mid[j] = old[m]
        BY <1>10 DEF Within
      <4> QED BY <4>1, <4>2, <4>3
    <3> QED BY <3>1, <3>2
  <2> QED BY <1>16, <2>1 DEF Within
<1>18. Kept(<<new>> \o s, r.free, old, p, free + Len(old))
  <2>1. Len(<<new>> \o s) + r.free = free + Len(old)
    <3>1. PICK c, m, n, h, e, z : /\ c = Cardinality(near) /\ m = Len(mid) /\ n = Len(old)
                                  /\ h = Len(s) /\ e = Len(<<new>> \o s) /\ z = r.free
      OBVIOUS
    <3>2. c \in Int /\ m \in Int /\ n \in Int /\ h \in Int /\ z \in Int
      BY <1>0, <1>3, <1>10, <1>15, <1>16, <3>1
    <3>3. room = free + c /\ m + c = n /\ h + z = room - 1 + m /\ e = h + 1
      BY <1>8, <1>10, <1>15, <1>16, <3>1
    <3>4. e + z = free + n
      BY <3>2, <3>3
    <3> QED BY <3>1, <3>4
  <2> QED BY <1>15, <1>16, <1>17, <2>1 DEF Kept
<1>19. Kept(old, free, old, p, free + Len(old))
  BY <1>0 DEF Kept, Within
<1>20. PICK u : u = addlock(old, l, free)
  OBVIOUS
<1>21. Kept(u.list, u.free, old, p, free + Len(old))
  <2>1. CASE room = 0
    <3>1. u.list = old /\ u.free = free
      BY <1>13, <1>20, <2>1
    <3> QED BY <1>19, <3>1
  <2>2. CASE room # 0
    <3>1. u.list = <<new>> \o s /\ u.free = r.free
      BY <1>13, <1>14, <1>20, <2>2
    <3> QED BY <1>18, <3>1
  <2> QED BY <2>1, <2>2
<1> QED BY <1>8, <1>20, <1>21
----------------------------------------------------------------------------
(* Record locks: the invariant.                                            *)

RlWaits == [file : RlFiles, lock : RlLocks]

RlTyped ==
  /\ i_rl \in [RlFiles -> Seq(RlLocks)]
  /\ freerl \in Int
  /\ p_prl \in [RlProcs -> RlWaits \cup {Nothing}]
  /\ rlPc \in [RlProcs -> {"run", "sleep", "woken", "intr"}]
  /\ \A p \in RlProcs : p_prl[p] = Nothing <=> rlPc[p] = "run"
  /\ \A p \in RlProcs : p_prl[p] # Nothing => p_prl[p].lock.proc = p

RlInv == RlTyped /\ RlConserved /\ Acyclic(Waits) /\ RlNoLostWakeup

Lengths(rl) == [f \in RlFiles |-> Len(rl[f])]
Waiters(prl) == {p \in RlProcs : prl[p] # Nothing}

LEMMA ConservedIs ==
  RlConserved <=> freerl + SumFunctionOnSet(Lengths(i_rl), RlFiles) + Cardinality(Waiters(p_prl)) = RLOCKS
BY DEF RlConserved, SumFunction, Lengths, Waiters

\* Who keeps the owner of l from having l, on a list.
BlockersOn(list, l) == {list[i].proc : i \in {j \in DOMAIN list : nextblock(l, list[j])}}

LEMMA BlockersLess ==
  ASSUME NEW new, NEW old, NEW p, NEW l, Within(new, old, p)
  PROVE  BlockersOn(new, l) \subseteq BlockersOn(old, l) \cup {p}
<1> SUFFICES ASSUME NEW i \in DOMAIN new, nextblock(l, new[i]), new[i].proc # p
             PROVE  new[i].proc \in BlockersOn(old, l)
  BY DEF BlockersOn
<1>1. PICK j \in DOMAIN old : new[i] = old[j]
  BY DEF Within
<1> QED BY <1>1 DEF BlockersOn

LEMMA BlockersAre ==
  ASSUME NEW list \in Seq(RlLocks), NEW l
  PROVE  BlockersOn(list, l) \subseteq RlProcs /\ l.proc \notin BlockersOn(list, l)
<1>1. ASSUME NEW i \in DOMAIN list PROVE list[i].proc \in RlProcs
  <2>1. list[i] \in RlLocks
    OBVIOUS
  <2> QED BY <2>1 DEF RlLocks
<1> QED BY <1>1 DEF BlockersOn, nextblock

WaitsOn(rl, prl) ==
  [p \in RlProcs |-> IF prl[p] = Nothing THEN {} ELSE BlockersOn(rl[prl[p].file], prl[p].lock)]

LEMMA WaitsIs == Waits = WaitsOn(i_rl, p_prl)
BY DEF Waits, WaitsOn, WaitsFor, Blockers, BlockersOn

LEMMA WaitAt ==
  ASSUME NEW prl \in [RlProcs -> RlWaits \cup {Nothing}], NEW p \in RlProcs, prl[p] # Nothing
  PROVE  prl[p].file \in RlFiles /\ prl[p].lock \in RlLocks
BY DEF RlWaits

LEMMA WaitsTyped ==
  ASSUME NEW rl \in [RlFiles -> Seq(RlLocks)], NEW prl \in [RlProcs -> RlWaits \cup {Nothing}]
  PROVE  WaitsOn(rl, prl) \in [RlProcs -> SUBSET RlProcs]
<1>1. ASSUME NEW p \in RlProcs, prl[p] # Nothing
      PROVE  BlockersOn(rl[prl[p].file], prl[p].lock) \subseteq RlProcs
  <2>1. rl[prl[p].file] \in Seq(RlLocks)
    BY <1>1, WaitAt
  <2> QED BY <2>1, BlockersAre
<1> QED BY <1>1 DEF WaitsOn

\* A wait is a record with two fields, Nothing one with one.
LEMMA WaitIsNot ==
  ASSUME NEW f, NEW l
  PROVE  [file |-> f, lock |-> l] # Nothing
<1>1. DOMAIN [file |-> f, lock |-> l] = {"file", "lock"} /\ DOMAIN Nothing = {"file"}
  BY DEF Nothing
<1> QED BY <1>1

LEMMA RlInitInv == RlInit => RlInv
<1> SUFFICES ASSUME RlInit PROVE RlInv
  OBVIOUS
<1> USE RlAssumption DEF RlInit
<1>1. RlTyped
  BY DEF RlTyped
<1>2. RlConserved
  <2>1. Waiters(p_prl) = {}
    BY DEF Waiters
  <2>2. \A f \in RlFiles : Lengths(i_rl)[f] = 0
    BY DEF Lengths
  <2>3. SumFunctionOnSet(Lengths(i_rl), RlFiles) = 0
    <3>1. PICK f : f = Lengths(i_rl)
      OBVIOUS
    <3>2. IsFiniteSet(RlFiles) /\ \A x \in RlFiles : f[x] = 0
      BY <2>2, <3>1
    <3> QED BY <3>1, <3>2, SumZero
  <2>4. freerl = RLOCKS /\ RLOCKS \in Int
    OBVIOUS
  <2>5. Cardinality(Waiters(p_prl)) = 0
    BY <2>1, FS_EmptySet
  <2>6. freerl + 0 + 0 = RLOCKS
    BY <2>4
  <2> QED BY <2>3, <2>5, <2>6, ConservedIs
<1>3. Acyclic(Waits)
  <2>1. \A p \in RlProcs : Waits[p] = {}
    BY DEF Waits, WaitsFor
  <2>2. Waits \in [RlProcs -> SUBSET RlProcs]
    BY <2>1 DEF Waits
  <2>3. \A p \in RlProcs : Free(Waits, p, {})
    BY <2>1 DEF Free
  <2> QED BY <2>2, <2>3 DEF Acyclic
<1>4. RlNoLostWakeup
  BY DEF RlNoLostWakeup
<1> QED BY <1>1, <1>2, <1>3, <1>4 DEF RlInv

----------------------------------------------------------------------------
(* Steps that change no list.                                              *)

\* Processes are woken, interrupted, or sleep on.
Rouses ==
  /\ UNCHANGED <<i_rl, freerl, p_prl>>
  /\ rlPc' \in [RlProcs -> {"run", "sleep", "woken", "intr"}]
  /\ \A q \in RlProcs : /\ rlPc'[q] = "run" <=> rlPc[q] = "run"
                        /\ rlPc'[q] = "sleep" => rlPc[q] = "sleep" \/ WaitsFor(q) # {}

LEMMA RlRouses == RlInv /\ Rouses => RlInv'
<1> SUFFICES ASSUME RlInv, Rouses PROVE RlInv'
  OBVIOUS
<1>1. i_rl' = i_rl /\ freerl' = freerl /\ p_prl' = p_prl
  BY DEF Rouses
<1>2. RlTyped'
  BY <1>1 DEF RlInv, RlTyped, Rouses
<1>3. RlConserved'
  BY <1>1 DEF RlInv, RlConserved
<1>4. Acyclic(Waits)'
  <2>1. Waits' = Waits
    BY <1>1 DEF Waits, WaitsFor, Blockers
  <2> QED BY <2>1 DEF RlInv, Acyclic, Free
<1>5. \A q \in RlProcs : WaitsFor(q)' = WaitsFor(q)
  BY <1>1 DEF WaitsFor, Blockers
<1>6. RlNoLostWakeup'
  BY <1>5 DEF RlInv, RlNoLostWakeup, Rouses
<1> QED BY <1>2, <1>3, <1>4, <1>6 DEF RlInv

\* What rlWoken leaves a process in.
LEMMA WokenIs ==
  ASSUME NEW f, NEW pcs \in [RlProcs -> {"run", "sleep", "woken", "intr"}]
  PROVE  /\ rlWoken(f, pcs) \in [RlProcs -> {"run", "sleep", "woken", "intr"}]
         /\ \A q \in RlProcs : /\ rlWoken(f, pcs)[q] = "run" <=> pcs[q] = "run"
                               /\ rlWoken(f, pcs)[q] = "sleep"
                                    => pcs[q] = "sleep" /\ p_prl[q].file # f
BY DEF rlWoken

----------------------------------------------------------------------------
(* A call of p for file f that ends: p waits for nothing any more, and the *)
(* list may be another one.                                                *)
RlEnds(p, f) ==
  /\ p \in RlProcs /\ f \in RlFiles
  /\ p_prl' = [p_prl EXCEPT ![p] = Nothing]
  /\ \E list : /\ i_rl' = [i_rl EXCEPT ![f] = list]
               /\ Kept(list, freerl', i_rl[f], p,
                       freerl + (IF p_prl[p] = Nothing THEN 0 ELSE 1) + Len(i_rl[f]))
  /\ rlPc' = rlWoken(f, [rlPc EXCEPT ![p] = "run"])

LEMMA RlEndsTyped ==
  ASSUME RlTyped, NEW p, NEW f, RlEnds(p, f)
  PROVE  RlTyped'
<1> USE DEF RlTyped
<1>0. p \in RlProcs /\ f \in RlFiles
  BY DEF RlEnds
<1>1. PICK list : /\ i_rl' = [i_rl EXCEPT ![f] = list]
                  /\ list \in Seq(RlLocks) /\ freerl' \in Int
  BY DEF RlEnds, Kept
<1>2. i_rl' \in [RlFiles -> Seq(RlLocks)]
  BY <1>1
<1>3. p_prl' = [p_prl EXCEPT ![p] = Nothing]
  BY DEF RlEnds
<1>4. /\ p_prl' \in [RlProcs -> RlWaits \cup {Nothing}]
      /\ \A q \in RlProcs : p_prl'[q] = IF q = p THEN Nothing ELSE p_prl[q]
  BY <1>0, <1>3
<1>5. PICK pcs : pcs = [rlPc EXCEPT ![p] = "run"]
  OBVIOUS
<1>6. /\ pcs \in [RlProcs -> {"run", "sleep", "woken", "intr"}]
      /\ \A q \in RlProcs : pcs[q] = IF q = p THEN "run" ELSE rlPc[q]
  BY <1>0, <1>5
<1>7. rlPc' = rlWoken(f, pcs)
  BY <1>5 DEF RlEnds
<1>8. /\ rlPc' \in [RlProcs -> {"run", "sleep", "woken", "intr"}]
      /\ \A q \in RlProcs : rlPc'[q] = "run" <=> pcs[q] = "run"
  BY <1>6, <1>7, WokenIs
<1>9. \A q \in RlProcs : p_prl'[q] = Nothing <=> rlPc'[q] = "run"
  BY <1>4, <1>6, <1>8
<1>10. \A q \in RlProcs : p_prl'[q] # Nothing => p_prl'[q].lock.proc = q
  BY <1>4
<1> QED BY <1>1, <1>2, <1>4, <1>8, <1>9, <1>10

LEMMA RlEndsConserves ==
  ASSUME RlTyped, RlConserved, NEW p, NEW f, RlEnds(p, f)
  PROVE  RlConserved'
<1> USE DEF RlTyped
<1>0. p \in RlProcs /\ f \in RlFiles /\ IsFiniteSet(RlFiles) /\ IsFiniteSet(RlProcs)
  BY RlAssumption DEF RlEnds
<1>1. PICK list, c : /\ c = IF p_prl[p] = Nothing THEN 0 ELSE 1
                     /\ i_rl' = [i_rl EXCEPT ![f] = list]
                     /\ list \in Seq(RlLocks) /\ freerl' \in Int
                     /\ Len(list) + freerl' = freerl + c + Len(i_rl[f])
  BY DEF RlEnds, Kept
<1>2. PICK a, b : a = Lengths(i_rl) /\ b = Lengths(i_rl')
  OBVIOUS
<1>3. /\ \A x \in RlFiles : a[x] \in Int
      /\ \A x \in RlFiles \ {f} : b[x] = a[x]
      /\ b[f] = Len(list) /\ b[f] \in Int /\ a[f] = Len(i_rl[f]) /\ a[f] \in Int
  BY <1>0, <1>1, <1>2 DEF Lengths
<1>4. /\ SumFunctionOnSet(b, RlFiles) = SumFunctionOnSet(a, RlFiles) - a[f] + b[f]
      /\ SumFunctionOnSet(a, RlFiles) \in Int
  BY <1>0, <1>3, SumOne, SumPick
<1>5. PICK V, W : V = Waiters(p_prl) /\ W = Waiters(p_prl')
  OBVIOUS
<1>6. W = V \ {p} /\ (p \in V <=> c = 1) /\ (p \notin V <=> c = 0) /\ IsFiniteSet(V)
  <2>1. p_prl' = [p_prl EXCEPT ![p] = Nothing]
    BY DEF RlEnds
  <2>2. \A q \in RlProcs : p_prl'[q] = IF q = p THEN Nothing ELSE p_prl[q]
    BY <2>1
  <2>3. V \subseteq RlProcs
    BY <1>5 DEF Waiters
  <2> QED BY <1>0, <1>1, <1>5, <2>2, <2>3, FS_Subset DEF Waiters
<1>7. Cardinality(V) \in Nat /\ Cardinality(W) = Cardinality(V) - c
  <2>1. Cardinality(V) \in Nat
    BY <1>6, FS_CardinalityType
  <2>2. Cardinality(V \ {p}) = IF p \in V THEN Cardinality(V) - 1 ELSE Cardinality(V)
    BY <1>6, FS_RemoveElement
  <2> QED BY <1>6, <2>1, <2>2
<1>8. freerl + SumFunctionOnSet(a, RlFiles) + Cardinality(V) = RLOCKS
  BY <1>2, <1>5, ConservedIs
<1>9. freerl' + SumFunctionOnSet(b, RlFiles) + Cardinality(W) = RLOCKS
  <2>1. PICK s, t, v, w, m, n, x, z :
          /\ s = SumFunctionOnSet(a, RlFiles) /\ t = SumFunctionOnSet(b, RlFiles)
          /\ v = Cardinality(V) /\ w = Cardinality(W)
          /\ m = Len(list) /\ n = Len(i_rl[f]) /\ x = freerl /\ z = freerl'
    OBVIOUS
  <2>2. s \in Int /\ t = s - n + m /\ m \in Int /\ n \in Int
    BY <1>3, <1>4, <2>1
  <2>3. v \in Int /\ w = v - c /\ x + s + v = RLOCKS
    BY <1>7, <1>8, <2>1
  <2>4. x \in Int /\ z \in Int /\ c \in Int /\ m + z = x + c + n
    <3>1. c = 0 \/ c = 1
      BY <1>1
    <3>2. freerl \in Int /\ freerl' \in Int /\ Len(list) + freerl' = freerl + c + Len(i_rl[f])
      BY <1>1
    <3> HIDE DEF RlTyped
    <3> QED BY <2>1, <3>1, <3>2
  <2> HIDE DEF RlTyped
  <2>5. z + t + w = RLOCKS
    BY <2>2, <2>3, <2>4
  <2> QED BY <2>1, <2>5
<1>10. RlConserved' <=> freerl' + SumFunctionOnSet(b, RlFiles) + Cardinality(W) = RLOCKS
  BY <1>2, <1>5 DEF RlConserved, SumFunction, Lengths, Waiters
<1> QED BY <1>9, <1>10

LEMMA RlEndsWaits ==
  ASSUME RlTyped, Acyclic(Waits), NEW p, NEW f, RlEnds(p, f)
  PROVE  Acyclic(Waits)'
<1> USE DEF RlTyped
<1>0. p \in RlProcs /\ f \in RlFiles
  BY DEF RlEnds
<1>1. PICK list : /\ i_rl' = [i_rl EXCEPT ![f] = list]
                  /\ Within(list, i_rl[f], p)
  BY DEF RlEnds, Kept
<1>2. \A q \in RlProcs : p_prl'[q] = IF q = p THEN Nothing ELSE p_prl[q]
  BY DEF RlEnds
<1>3. PICK W, X : W = Waits /\ X = Waits'
  OBVIOUS
<1>4. /\ W = WaitsOn(i_rl, p_prl)
      /\ X = WaitsOn(i_rl', p_prl')
  <2>1. Waits' = WaitsOn(i_rl', p_prl')
    BY DEF Waits, WaitsOn, WaitsFor, Blockers, BlockersOn
  <2> QED BY <1>3, <2>1, WaitsIs
<1>5. X \in [RlProcs -> SUBSET RlProcs]
  <2>1. RlTyped'
    BY RlEndsTyped
  <2> QED BY <1>4, <2>1, WaitsTyped
<1>6. X[p] = {}
  BY <1>0, <1>2, <1>4 DEF WaitsOn
<1>7. ASSUME NEW r \in RlProcs PROVE X[r] \subseteq W[r] \cup {p}
  <2>1. CASE r = p
    BY <1>6, <2>1
  <2>2. CASE r # p /\ p_prl[r] = Nothing
    BY <1>2, <1>4, <2>2 DEF WaitsOn
  <2>3. CASE r # p /\ p_prl[r] # Nothing
    <3>1. PICK g, l : g = p_prl[r].file /\ l = p_prl[r].lock
      OBVIOUS
    <3>2. g \in RlFiles
      BY <2>3, <3>1, WaitAt
    <3>3. W[r] = BlockersOn(i_rl[g], l) /\ X[r] = BlockersOn(i_rl'[g], l)
      BY <1>2, <1>4, <2>3, <3>1 DEF WaitsOn
    <3>4. i_rl'[g] = IF g = f THEN list ELSE i_rl[g]
      BY <1>1, <3>2
    <3>5. CASE g = f
      <4>1. PICK old : old = i_rl[f]
        OBVIOUS
      <4>2. BlockersOn(list, l) \subseteq BlockersOn(old, l) \cup {p}
        BY <1>1, <4>1, BlockersLess
      <4> QED BY <3>3, <3>4, <3>5, <4>1, <4>2
    <3>6. CASE g # f
      BY <3>3, <3>4, <3>6
    <3> QED BY <3>5, <3>6
  <2> QED BY <2>1, <2>2, <2>3
<1>8. Acyclic(X)
  BY <1>0, <1>3, <1>5, <1>6, <1>7, AcyclicSink
<1> QED BY <1>3, <1>8 DEF Acyclic, Free

LEMMA RlEndsWakes ==
  ASSUME RlTyped, RlNoLostWakeup, NEW p, NEW f, RlEnds(p, f)
  PROVE  RlNoLostWakeup'
<1> USE DEF RlTyped
<1> SUFFICES ASSUME NEW q \in RlProcs, rlPc'[q] = "sleep" PROVE WaitsFor(q)' # {}
  BY DEF RlNoLostWakeup
<1>0. p \in RlProcs /\ f \in RlFiles
  BY DEF RlEnds
<1>1. PICK pcs : pcs = [rlPc EXCEPT ![p] = "run"]
  OBVIOUS
<1>2. /\ pcs \in [RlProcs -> {"run", "sleep", "woken", "intr"}]
      /\ \A r \in RlProcs : pcs[r] = IF r = p THEN "run" ELSE rlPc[r]
  BY <1>0, <1>1
<1>3. rlPc' = rlWoken(f, pcs)
  BY <1>1 DEF RlEnds
<1>4. pcs[q] = "sleep" /\ p_prl[q].file # f
  BY <1>2, <1>3, WokenIs
<1>5. q # p /\ rlPc[q] = "sleep"
  BY <1>2, <1>4
<1>6. WaitsFor(q) # {} /\ p_prl[q] # Nothing
  BY <1>5 DEF RlNoLostWakeup
<1>7. p_prl'[q] = p_prl[q]
  BY <1>0, <1>5 DEF RlEnds
<1>8. i_rl'[p_prl[q].file] = i_rl[p_prl[q].file]
  <2>1. p_prl[q].file \in RlFiles
    BY <1>6, WaitAt
  <2>2. PICK list : i_rl' = [i_rl EXCEPT ![f] = list]
    BY DEF RlEnds
  <2> QED BY <1>4, <2>1, <2>2
<1>9. /\ WaitsFor(q) = IF p_prl[q] = Nothing THEN {}
                         ELSE BlockersOn(i_rl[p_prl[q].file], p_prl[q].lock)
      /\ WaitsFor(q)' = IF p_prl'[q] = Nothing THEN {}
                          ELSE BlockersOn(i_rl'[p_prl'[q].file], p_prl'[q].lock)
  BY DEF WaitsFor, Blockers, BlockersOn
<1> QED BY <1>6, <1>7, <1>8, <1>9

LEMMA RlEndsInv ==
  ASSUME RlInv, NEW p, NEW f, RlEnds(p, f)
  PROVE  RlInv'
BY RlEndsTyped, RlEndsConserves, RlEndsWaits, RlEndsWakes DEF RlInv

----------------------------------------------------------------------------
(* A process begins to wait.                                               *)
RlBegins(p, f, l) ==
  /\ p \in RlProcs /\ f \in RlFiles /\ l \in RlLocks /\ l.proc = p
  /\ rlPc[p] = "run" /\ Blockers(f, l) # {} /\ ~ Deadly(p, f, l)
  /\ rlPc' = [rlPc EXCEPT ![p] = "sleep"]
  /\ freerl' = freerl - 1
  /\ p_prl' = [p_prl EXCEPT ![p] = [file |-> f, lock |-> l]]
  /\ UNCHANGED i_rl

LEMMA RlBeginsTyped ==
  ASSUME RlTyped, NEW p, NEW f, NEW l, RlBegins(p, f, l)
  PROVE  RlTyped'
<1> USE DEF RlTyped, RlBegins
<1>1. PICK w : w = [file |-> f, lock |-> l]
  OBVIOUS
<1>2. w \in RlWaits /\ w # Nothing /\ w.lock = l
  BY <1>1, WaitIsNot DEF RlWaits
<1>3. \A q \in RlProcs : /\ p_prl'[q] = IF q = p THEN w ELSE p_prl[q]
                         /\ rlPc'[q] = IF q = p THEN "sleep" ELSE rlPc[q]
  BY <1>1
<1>4. /\ p_prl' \in [RlProcs -> RlWaits \cup {Nothing}]
      /\ rlPc' \in [RlProcs -> {"run", "sleep", "woken", "intr"}]
      /\ freerl' \in Int /\ i_rl' = i_rl
  BY <1>1, <1>2
<1>5. \A q \in RlProcs : p_prl'[q] = Nothing <=> rlPc'[q] = "run"
  BY <1>2, <1>3
<1>6. \A q \in RlProcs : p_prl'[q] # Nothing => p_prl'[q].lock.proc = q
  BY <1>2, <1>3
<1> QED BY <1>4, <1>5, <1>6

LEMMA RlBeginsConserves ==
  ASSUME RlTyped, RlConserved, NEW p, NEW f, NEW l, RlBegins(p, f, l)
  PROVE  RlConserved'
<1> USE DEF RlTyped, RlBegins
<1>1. PICK w : w = [file |-> f, lock |-> l]
  OBVIOUS
<1>2. w # Nothing
  BY <1>1, WaitIsNot
<1>3. \A q \in RlProcs : p_prl'[q] = IF q = p THEN w ELSE p_prl[q]
  BY <1>1
<1>4. PICK V, W : V = Waiters(p_prl) /\ W = Waiters(p_prl')
  OBVIOUS
<1>5. W = V \cup {p} /\ p \notin V /\ IsFiniteSet(V)
  <2>1. V \subseteq RlProcs
    BY <1>4 DEF Waiters
  <2>2. IsFiniteSet(V)
    BY <2>1, RlAssumption, FS_Subset
  <2> QED BY <1>2, <1>3, <1>4, <2>2 DEF Waiters
<1>6. Cardinality(V) \in Nat /\ Cardinality(W) = Cardinality(V) + 1
  BY <1>5, FS_AddElement, FS_CardinalityType
<1>7. PICK s : s = SumFunctionOnSet(Lengths(i_rl), RlFiles)
  OBVIOUS
<1>8. s \in Int
  <2>1. PICK a : a = Lengths(i_rl)
    OBVIOUS
  <2>2. IsFiniteSet(RlFiles) /\ \A x \in RlFiles : a[x] \in Int
    BY <2>1, RlAssumption DEF Lengths
  <2> QED BY <1>7, <2>1, <2>2, SumPick
<1>9. freerl + s + Cardinality(V) = RLOCKS
  BY <1>4, <1>7, ConservedIs
<1>10. freerl' + s + Cardinality(W) = RLOCKS
  BY <1>6, <1>8, <1>9
<1>11. RlConserved' <=> freerl' + s + Cardinality(W) = RLOCKS
  BY <1>4, <1>7 DEF RlConserved, SumFunction, Lengths, Waiters
<1> QED BY <1>10, <1>11

\* waitlock has refused a wait that would close a circle.
LEMMA RlBeginsWaits ==
  ASSUME RlTyped, Acyclic(Waits), NEW p, NEW f, NEW l, RlBegins(p, f, l)
  PROVE  Acyclic(Waits)'
<1> USE DEF RlTyped, RlBegins
<1>1. PICK w, B : w = [file |-> f, lock |-> l] /\ B = BlockersOn(i_rl[f], l)
  OBVIOUS
<1>2. w # Nothing /\ w.file = f /\ w.lock = l
  BY <1>1, WaitIsNot
<1>3. \A q \in RlProcs : p_prl'[q] = IF q = p THEN w ELSE p_prl[q]
  BY <1>1
<1>4. PICK W, X : W = Waits /\ X = Waits'
  OBVIOUS
<1>5. /\ W = WaitsOn(i_rl, p_prl)
      /\ X = WaitsOn(i_rl, p_prl')
  <2>1. Waits' = WaitsOn(i_rl', p_prl')
    BY DEF Waits, WaitsOn, WaitsFor, Blockers, BlockersOn
  <2> QED BY <1>4, <2>1, WaitsIs
<1>6. X \in [RlProcs -> SUBSET RlProcs] /\ W \in [RlProcs -> SUBSET RlProcs]
  <2>1. RlTyped'
    BY RlBeginsTyped
  <2> QED BY <1>5, <2>1, WaitsTyped
<1>7. X[p] = B
  BY <1>1, <1>2, <1>3, <1>5 DEF WaitsOn
<1>8. \A r \in RlProcs : r # p => X[r] = W[r]
  BY <1>3, <1>5 DEF WaitsOn
<1>9. Blockers(f, l) = B
  BY <1>1 DEF Blockers, BlockersOn
<1>10. B \subseteq RlProcs /\ p \notin B
  BY <1>1, BlockersAre
<1> DEFINE Good(q, S) == /\ S \in SUBSET RlProcs /\ p \notin S /\ W[q] \subseteq S
                         /\ \A r \in S : W[r] \subseteq S
           C == [q \in B |-> CHOOSE S : Good(q, S)]
<1>11. ASSUME NEW q \in B PROVE Good(q, C[q])
  <2>1. ~ waiting(q, p)
    BY <1>9 DEF Deadly
  <2>2. \E S \in SUBSET RlProcs : /\ p \notin S /\ WaitsFor(q) \subseteq S
                                  /\ \A r \in S : WaitsFor(r) \subseteq S
    <3>1. p \in RlProcs /\ q \in RlProcs /\ Waits \in [RlProcs -> SUBSET RlProcs]
      BY <1>4, <1>6, <1>10
    <3> HIDE DEF RlTyped, RlBegins
    <3> QED BY <2>1, <3>1, WaitingClosed
  <2>3. \A r \in RlProcs : W[r] = WaitsFor(r)
    BY <1>4 DEF Waits
  <2>4. \E S : Good(q, S)
    BY <1>10, <2>2, <2>3
  <2> HIDE DEF Good
  <2> QED BY <2>4
<1>12. Acyclic(X)
  <2>1. PICK D : D = C
    OBVIOUS
  <2>2. \A q \in X[p] : /\ q # p /\ D[q] \subseteq RlProcs /\ p \notin D[q]
                        /\ W[q] \subseteq D[q] /\ \A r \in D[q] : W[r] \subseteq D[q]
    <3> HIDE DEF C
    <3> QED BY <1>7, <1>10, <1>11, <2>1
  <2>3. p \in RlProcs /\ Acyclic(W)
    BY <1>4
  <2> HIDE DEF C, Good, RlTyped, RlBegins
  <2> QED BY <1>6, <1>8, <2>2, <2>3, AcyclicWait
<1> QED BY <1>4, <1>12 DEF Acyclic, Free

LEMMA RlBeginsInv ==
  ASSUME RlInv, NEW p, NEW f, NEW l, RlBegins(p, f, l)
  PROVE  RlInv'
<1>1. RlTyped' /\ RlConserved' /\ Acyclic(Waits)'
  BY RlBeginsTyped, RlBeginsConserves, RlBeginsWaits DEF RlInv
<1>3. \A q : WaitsFor(q)' = IF p_prl'[q] = Nothing THEN {}
                            ELSE BlockersOn(i_rl'[p_prl'[q].file], p_prl'[q].lock)
  BY DEF WaitsFor, Blockers, BlockersOn
<1>2. ASSUME NEW q \in RlProcs, rlPc'[q] = "sleep" PROVE WaitsFor(q)' # {}
  <2> USE DEF RlInv, RlTyped, RlBegins
  <2>1. CASE q = p
    <3>1. PICK w : w = [file |-> f, lock |-> l]
      OBVIOUS
    <3>2. w # Nothing /\ w.file = f /\ w.lock = l /\ p_prl'[q] = w /\ i_rl' = i_rl
      BY <2>1, <3>1, WaitIsNot
    <3>3. Blockers(f, l) = BlockersOn(i_rl[f], l) /\ Blockers(f, l) # {}
      BY DEF Blockers, BlockersOn
    <3> QED BY <1>3, <3>2, <3>3
  <2>2. CASE q # p
    <3>1. rlPc[q] = "sleep" /\ p_prl'[q] = p_prl[q] /\ i_rl' = i_rl
      BY <1>2, <2>2
    <3>2. WaitsFor(q) # {}
      BY <3>1 DEF RlNoLostWakeup
    <3>3. WaitsFor(q) = IF p_prl[q] = Nothing THEN {}
                        ELSE BlockersOn(i_rl[p_prl[q].file], p_prl[q].lock)
      BY DEF WaitsFor, Blockers, BlockersOn
    <3> QED BY <1>3, <3>1, <3>2, <3>3
  <2> QED BY <2>1, <2>2
<1> QED BY <1>1, <1>2 DEF RlInv, RlNoLostWakeup

----------------------------------------------------------------------------
(* The actions.                                                            *)
LEMMA RlRequestIs ==
  ASSUME NEW p \in RlProcs, NEW t \in {0, 1}, NEW r \in RlRanges
  PROVE  RlRequest(p, t, r) \in RlLocks /\ RlRequest(p, t, r).proc = p
<1>1. r[1] \in Nat /\ r[2] \in Nat \cup {EOF}
  <2>1. r[1] \in 0 .. RlLast /\ r[2] \in -1 .. RlLast - 1 /\ RlLast \in Nat
    BY RlAssumption
  <2> QED BY <2>1 DEF EOF
<1> QED BY <1>1 DEF RlRequest, RlLocks

\* What happens in a call that p makes while it does not wait.
LEMMA RlRunEnds ==
  ASSUME RlInv, NEW p \in RlProcs, NEW f \in RlFiles, rlPc[p] = "run",
         NEW r, Kept(r.list, r.free, i_rl[f], p, freerl + Len(i_rl[f])),
         Result(f, r), rlPc' = rlWoken(f, rlPc), UNCHANGED p_prl
  PROVE  RlEnds(p, f)
<1> USE DEF RlInv, RlTyped
<1>1. p_prl[p] = Nothing /\ p_prl' = [p_prl EXCEPT ![p] = Nothing]
      /\ rlPc = [rlPc EXCEPT ![p] = "run"]
  OBVIOUS
<1>2. i_rl' = [i_rl EXCEPT ![f] = r.list] /\ freerl' = r.free
  BY DEF Result
<1>3. freerl + (IF p_prl[p] = Nothing THEN 0 ELSE 1) + Len(i_rl[f]) = freerl + Len(i_rl[f])
  BY <1>1
<1> QED BY <1>1, <1>2, <1>3 DEF RlEnds

LEMMA RlUnlock ==
  ASSUME RlInv, NEW p \in RlProcs, NEW f \in RlFiles, NEW l \in RlLocks, l.proc = p,
         rlockUNLCK(p, f, l)
  PROVE  RlInv'
<1>1. i_rl[f] \in Seq(RlLocks) /\ freerl \in Int
  BY DEF RlInv, RlTyped
<1>2. PICK r : r = remlock(i_rl[f], l, freerl) /\ Kept(r.list, r.free, i_rl[f], l.proc, freerl + Len(i_rl[f]))
  BY <1>1, RemlockIs
<1>3. RlEnds(p, f)
  BY <1>2, RlRunEnds DEF rlockUNLCK
<1> QED BY <1>3, RlEndsInv

LEMMA RlLock ==
  ASSUME RlInv, NEW p \in RlProcs, NEW f \in RlFiles, NEW l \in RlLocks, l.proc = p,
         rlockSETLK(p, f, l)
  PROVE  RlInv'
<1>1. i_rl[f] \in Seq(RlLocks) /\ freerl \in Int
  BY DEF RlInv, RlTyped
<1>2. PICK r : r = addlock(i_rl[f], l, freerl) /\ Kept(r.list, r.free, i_rl[f], l.proc, freerl + Len(i_rl[f]))
  BY <1>1, AddlockIs
<1>3. RlEnds(p, f)
  BY <1>2, RlRunEnds DEF rlockSETLK
<1> QED BY <1>3, RlEndsInv

\* A wakeup alone.
LEMMA RlWakeup ==
  ASSUME RlInv, NEW f, rlPc' = rlWoken(f, rlPc), UNCHANGED <<i_rl, freerl, p_prl>>
  PROVE  RlInv'
<1>1. rlPc \in [RlProcs -> {"run", "sleep", "woken", "intr"}]
  BY DEF RlInv, RlTyped
<1>2. /\ rlPc' \in [RlProcs -> {"run", "sleep", "woken", "intr"}]
      /\ \A q \in RlProcs : /\ rlPc'[q] = "run" <=> rlPc[q] = "run"
                            /\ rlPc'[q] = "sleep" => rlPc[q] = "sleep"
  BY <1>1, WokenIs
<1>3. Rouses
  BY <1>2 DEF Rouses
<1> QED BY <1>3, RlRouses

LEMMA RlWaitlock ==
  ASSUME RlInv, NEW p \in RlProcs, NEW f \in RlFiles, NEW l \in RlLocks, l.proc = p,
         waitlock(p, f, l)
  PROVE  RlInv'
<1>1. CASE Deadly(p, f, l)
  <2>1. rlPc' = rlWoken(f, rlPc) /\ UNCHANGED <<i_rl, freerl, p_prl>>
    BY <1>1 DEF waitlock
  <2> QED BY <2>1, RlWakeup
<1>2. CASE ~ Deadly(p, f, l)
  <2>1. RlBegins(p, f, l)
    BY <1>2 DEF waitlock, RlBegins
  <2> QED BY <2>1, RlBeginsInv
<1> QED BY <1>1, <1>2

LEMMA RlWakes ==
  ASSUME RlInv, NEW p \in RlProcs, RlSignal(p) \/ waitlockAgain(p)
  PROVE  RlInv'
<1> USE DEF RlInv, RlTyped
<1>1. \/ rlPc[p] = "sleep" /\ rlPc' = [rlPc EXCEPT ![p] = "intr"]
      \/ /\ rlPc[p] = "woken" /\ rlPc' = [rlPc EXCEPT ![p] = "sleep"]
         /\ Blockers(p_prl[p].file, p_prl[p].lock) # {}
  BY DEF RlSignal, waitlockAgain
<1>2. UNCHANGED <<i_rl, freerl, p_prl>>
  BY DEF RlSignal, waitlockAgain
<1>3. p_prl[p] # Nothing
  BY <1>1
<1>4. rlPc[p] = "woken" /\ rlPc' = [rlPc EXCEPT ![p] = "sleep"] => WaitsFor(p) # {} \/ rlPc[p] = "sleep"
  BY <1>1, <1>3 DEF WaitsFor
<1>5. \A q \in RlProcs : q # p => rlPc'[q] = rlPc[q]
  BY <1>1
<1>6. /\ rlPc' \in [RlProcs -> {"run", "sleep", "woken", "intr"}]
      /\ rlPc[p] # "run" /\ rlPc'[p] # "run"
      /\ rlPc'[p] = "sleep" => WaitsFor(p) # {}
  BY <1>1, <1>4
<1>7. Rouses
  BY <1>2, <1>5, <1>6 DEF Rouses
<1> QED BY <1>7, RlRouses

LEMMA RlFails ==
  ASSUME RlInv, NEW p \in RlProcs, waitlockFails(p)
  PROVE  RlInv'
<1> USE DEF RlInv, RlTyped
<1>1. PICK f : f = p_prl[p].file
  OBVIOUS
<1>2. p_prl[p] # Nothing
  BY DEF waitlockFails
<1>3. f \in RlFiles
  BY <1>1, <1>2, WaitAt
<1>4. /\ p_prl' = [p_prl EXCEPT ![p] = Nothing] /\ freerl' = freerl + 1 /\ i_rl' = i_rl
      /\ rlPc' = rlWoken(f, [rlPc EXCEPT ![p] = "run"])
  BY <1>1 DEF waitlockFails, cleanup
<1>5. PICK list : list = i_rl[f]
  OBVIOUS
<1>6. list \in Seq(RlLocks) /\ i_rl' = [i_rl EXCEPT ![f] = list]
  BY <1>3, <1>4, <1>5
<1>7. Kept(list, freerl', list, p, freerl + 1 + Len(list))
  BY <1>4, <1>6 DEF Kept, Within
<1>8. (IF p_prl[p] = Nothing THEN 0 ELSE 1) = 1
  BY <1>2
<1>9. RlEnds(p, f)
  BY <1>3, <1>4, <1>5, <1>6, <1>7, <1>8 DEF RlEnds
<1> QED BY <1>9, RlEndsInv

LEMMA RlGets ==
  ASSUME RlInv, NEW p \in RlProcs, waitlockGets(p)
  PROVE  RlInv'
<1> USE DEF RlInv, RlTyped
<1>1. PICK f, l : f = p_prl[p].file /\ l = p_prl[p].lock
  OBVIOUS
<1>2. p_prl[p] # Nothing
  BY DEF waitlockGets
<1>3. f \in RlFiles /\ l \in RlLocks /\ l.proc = p
  BY <1>1, <1>2, WaitAt
<1>4. /\ p_prl' = [p_prl EXCEPT ![p] = Nothing]
      /\ Result(f, addlock(i_rl[f], l, freerl + 1))
      /\ rlPc' = rlWoken(f, [rlPc EXCEPT ![p] = "run"])
  BY <1>1 DEF waitlockGets
<1>5. PICK old, n : old = i_rl[f] /\ n = freerl + 1
  OBVIOUS
<1>6. old \in Seq(RlLocks) /\ n \in Int
  BY <1>3, <1>5
<1>7. PICK r : r = addlock(old, l, n) /\ Kept(r.list, r.free, old, l.proc, n + Len(old))
  BY <1>3, <1>6, AddlockIs
<1>8. i_rl' = [i_rl EXCEPT ![f] = r.list] /\ freerl' = r.free
  BY <1>4, <1>5, <1>7 DEF Result
<1>9. (IF p_prl[p] = Nothing THEN 0 ELSE 1) = 1
  BY <1>2
<1>10. Kept(r.list, freerl', i_rl[f], p, freerl + (IF p_prl[p] = Nothing THEN 0 ELSE 1) + Len(i_rl[f]))
  BY <1>3, <1>5, <1>7, <1>8, <1>9
<1>11. RlEnds(p, f)
  BY <1>3, <1>4, <1>8, <1>10 DEF RlEnds
<1> QED BY <1>11, RlEndsInv

LEMMA RlNextInv == RlInv /\ [RlNext]_rlVars => RlInv'
<1> SUFFICES ASSUME RlInv, [RlNext]_rlVars PROVE RlInv'
  OBVIOUS
<1>1. ASSUME NEW p \in RlProcs, NEW f \in RlFiles, fd_close(p, f) PROVE RlInv'
  <2>1. PICK l : l = [type |-> 1, start |-> 0, end |-> EOF, proc |-> p]
    OBVIOUS
  <2>2. l \in RlLocks /\ l.proc = p
    BY <2>1 DEF RlLocks
  <2>3. rlockUNLCK(p, f, l)
    BY <1>1, <2>1 DEF fd_close
  <2> QED BY <2>2, <2>3, RlUnlock
<1>2. ASSUME NEW p \in RlProcs, NEW f \in RlFiles, NEW t \in {0, 1}, NEW r \in RlRanges,
             \/ rlockUNLCK(p, f, RlRequest(p, t, r))
             \/ rlockSETLK(p, f, RlRequest(p, t, r))
             \/ rlockRefused(p, f, RlRequest(p, t, r))
             \/ waitlock(p, f, RlRequest(p, t, r))
      PROVE  RlInv'
  <2>1. PICK l : l = RlRequest(p, t, r)
    OBVIOUS
  <2>2. l \in RlLocks /\ l.proc = p
    BY <2>1, RlRequestIs
  <2>3. CASE rlockUNLCK(p, f, l)
    BY <2>2, <2>3, RlUnlock
  <2>4. CASE rlockSETLK(p, f, l)
    BY <2>2, <2>4, RlLock
  <2>5. CASE rlockRefused(p, f, l)
    <3>1. rlPc' = rlWoken(f, rlPc) /\ UNCHANGED <<i_rl, freerl, p_prl>>
      BY <2>5 DEF rlockRefused
    <3> QED BY <3>1, RlWakeup
  <2>6. CASE waitlock(p, f, l)
    BY <2>2, <2>6, RlWaitlock
  <2> QED BY <1>2, <2>1, <2>3, <2>4, <2>5, <2>6
<1>3. CASE UNCHANGED rlVars
  <2>1. UNCHANGED <<i_rl, freerl, p_prl, rlPc>>
    BY <1>3 DEF rlVars
  <2>2. Rouses
    BY <2>1 DEF Rouses, RlInv, RlTyped
  <2> QED BY <2>2, RlRouses
<1>4. CASE RlNext
  <2>1. PICK p \in RlProcs :
          \/ \E f \in RlFiles :
               \/ fd_close(p, f)
               \/ \E r \in RlRanges : rlockUNLCK(p, f, RlRequest(p, 1, r))
               \/ \E t \in {0, 1}, r \in RlRanges :
                    \/ rlockSETLK(p, f, RlRequest(p, t, r))
                    \/ rlockRefused(p, f, RlRequest(p, t, r))
                    \/ waitlock(p, f, RlRequest(p, t, r))
          \/ RlSignal(p) \/ waitlockFails(p) \/ waitlockAgain(p) \/ waitlockGets(p)
    BY <1>4 DEF RlNext
  <2>2. 1 \in {0, 1}
    OBVIOUS
  <2> QED BY <1>1, <1>2, <2>1, <2>2, RlWakes, RlFails, RlGets
<1> QED BY <1>3, <1>4

LEMMA RlInvSays == RlInv => RlSound
<1> SUFFICES ASSUME RlInv PROVE RlSound
  OBVIOUS
<1>1. RlNoCycle
  <2> SUFFICES ASSUME NEW p \in RlProcs PROVE ~ waiting(p, p)
    BY DEF RlNoCycle
  <2>1. Waits \in [RlProcs -> SUBSET RlProcs]
    BY DEF RlInv, Acyclic
  <2>2. PICK S : Free(Waits, p, S)
    BY DEF RlInv, Acyclic
  <2> QED BY <2>1, <2>2, NotWaiting
<1> QED BY <1>1 DEF RlInv, RlSound

(***************************************************************************)
(* Record locks conserve their structures through every combining, cutting *)
(* and shortage, waitlock lets no circle of waits form, directly or        *)
(* through others, and who sleeps is in conflict with some lock (rlock.c). *)
(***************************************************************************)
THEOREM RecordLocksSound == RlSpec => []RlSound
<1>1. RlInit => RlInv
  BY RlInitInv
<1>2. RlInv /\ [RlNext]_rlVars => RlInv'
  BY RlNextInv
<1>3. RlInv => RlSound
  BY RlInvSays
<1> QED BY <1>1, <1>2, <1>3, PTL DEF RlSpec

(***************************************************************************)
(* Record locks, byte by byte.                                             *)
(***************************************************************************)
\* The triples of the table that a lock stands for, and those of a list.
Piece(k) == {k.proc} \X RlBytes(k) \X {k.type}
On(list) == UNION {Piece(list[i]) : i \in DOMAIN list}

\* What a process may hold of the bytes of l, whatever the type.
Cut(l) == {l.proc} \X RlBytes(l) \X {0, 1}

\* A lock of bytes that there are, with its end after its start.
Fits(k) ==
  /\ k \in RlLocks /\ k.start <= RlLast
  /\ k.end # EOF => k.start <= k.end /\ k.end < RlLast
Fitting(list) == list \in Seq(RlLocks) /\ \A i \in DOMAIN list : Fits(list[i])

LEMMA PieceIs ==
  ASSUME NEW k, NEW h
  PROVE  h \in Piece(k) <=> \E i \in RlBytes(k) : h = <<k.proc, i, k.type>>
BY DEF Piece

LEMMA CutIs ==
  ASSUME NEW l, NEW h
  PROVE  h \in Cut(l) <=> \E i \in RlBytes(l), t \in {0, 1} : h = <<l.proc, i, t>>
BY DEF Cut

\* Which bytes a lock that fits has.
LEMMA BytesIs ==
  ASSUME NEW k, Fits(k), NEW i
  PROVE  i \in RlBytes(k) <=> i \in 0 .. RlLast /\ k.start <= i /\ (k.end = EOF \/ i <= k.end)
BY RlAssumption DEF RlBytes, Fits, RlLocks, EOF

LEMMA OnNone == On(<< >>) = {} /\ Fitting(<< >>)
BY DEF On, Fitting

LEMMA OnOne ==
  ASSUME NEW k, Fits(k)
  PROVE  On(<<k>>) = Piece(k) /\ Fitting(<<k>>)
<1>1. <<k>> \in Seq(RlLocks) /\ DOMAIN <<k>> = {1} /\ <<k>>[1] = k
  BY DEF Fits
<1> QED BY <1>1 DEF On, Fitting

LEMMA OnBoth ==
  ASSUME NEW s, NEW t, Fitting(s), Fitting(t)
  PROVE  On(s \o t) = On(s) \cup On(t) /\ Fitting(s \o t)
<1>1. s \in Seq(RlLocks) /\ t \in Seq(RlLocks)
  BY DEF Fitting
<1>2. /\ s \o t \in Seq(RlLocks) /\ Len(s \o t) = Len(s) + Len(t)
      /\ Len(s) \in Nat /\ Len(t) \in Nat /\ DOMAIN (s \o t) = 1 .. Len(s) + Len(t)
      /\ DOMAIN s = 1 .. Len(s) /\ DOMAIN t = 1 .. Len(t)
  BY <1>1
<1>3. \A i \in DOMAIN s : i \in DOMAIN (s \o t) /\ (s \o t)[i] = s[i]
  BY <1>1, <1>2
<1>4. \A i \in DOMAIN t : Len(s) + i \in DOMAIN (s \o t) /\ (s \o t)[Len(s) + i] = t[i]
  BY <1>1, <1>2
<1>5. \A i \in DOMAIN (s \o t) : \/ i \in DOMAIN s
                                 \/ i - Len(s) \in DOMAIN t /\ (s \o t)[i] = t[i - Len(s)]
  BY <1>1, <1>2
<1>6. PICK u : u = s \o t
  OBVIOUS
<1>7. On(u) = On(s) \cup On(t)
  <2>1. ASSUME NEW h, h \in On(u) PROVE h \in On(s) \cup On(t)
    <3>1. PICK i \in DOMAIN u : h \in Piece(u[i])
      BY <2>1 DEF On
    <3> QED BY <1>3, <1>5, <1>6, <3>1 DEF On
  <2>2. ASSUME NEW h, h \in On(s) PROVE h \in On(u)
    <3>1. PICK i \in DOMAIN s : h \in Piece(s[i])
      BY <2>2 DEF On
    <3> QED BY <1>3, <1>6, <3>1 DEF On
  <2>3. ASSUME NEW h, h \in On(t) PROVE h \in On(u)
    <3>1. PICK i \in DOMAIN t : h \in Piece(t[i])
      BY <2>3 DEF On
    <3> QED BY <1>4, <1>6, <3>1 DEF On
  <2> QED BY <2>1, <2>2, <2>3
<1>8. Fitting(u)
  <2>1. ASSUME NEW i \in DOMAIN u PROVE Fits(u[i])
    BY <1>3, <1>5, <1>6 DEF Fitting
  <2> QED BY <1>2, <1>6, <2>1 DEF Fitting
<1> QED BY <1>6, <1>7, <1>8

LEMMA OnAppend ==
  ASSUME NEW s, NEW k, Fitting(s), Fits(k)
  PROVE  On(Append(s, k)) = On(s) \cup Piece(k) /\ Fitting(Append(s, k))
<1>1. Append(s, k) = s \o <<k>>
  <2>1. s \in Seq(RlLocks) /\ k \in RlLocks
    BY DEF Fitting, Fits
  <2> QED BY <2>1
<1>2. Fitting(<<k>>) /\ On(<<k>>) = Piece(k)
  BY OnOne
<1>3. PICK t : t = <<k>>
  OBVIOUS
<1>4. On(s \o t) = On(s) \cup On(t) /\ Fitting(s \o t)
  BY <1>2, <1>3, OnBoth
<1> QED BY <1>1, <1>2, <1>3, <1>4

\* extract leaves of a lock the bytes that are not cut out.
LEMMA ExtractBytes ==
  ASSUME NEW k, NEW l, Fits(k), Fits(l), nextmeet(l, k), k.proc = l.proc
  PROVE  /\ Fitting(extract(k, l))
         /\ On(extract(k, l)) \subseteq Piece(k)
         /\ Piece(k) \subseteq On(extract(k, l)) \cup Cut(l)
<1>1. PICK a, b : /\ a = [k EXCEPT !.end = l.start - 1]
                  /\ b = [k EXCEPT !.start = l.end + 1]
  OBVIOUS
<1>2. PICK A, B : /\ A <=> l.start > k.start
                  /\ B <=> l.end # EOF /\ (k.end = EOF \/ l.end < k.end)
  OBVIOUS
<1>3. PICK s, t : s = (IF A THEN <<a>> ELSE << >>) /\ t = (IF B THEN <<b>> ELSE << >>)
  OBVIOUS
<1>4. extract(k, l) = s \o t
  BY <1>1, <1>2, <1>3 DEF extract
<1>5. k \in RlLocks /\ l \in RlLocks
  BY DEF Fits
<1>6. A => /\ Fits(a) /\ a.proc = k.proc /\ a.type = k.type
           /\ a.start = k.start /\ a.end = l.start - 1 /\ a.end # EOF
  BY <1>1, <1>2, <1>5, RlAssumption DEF Fits, RlLocks, EOF
<1>7. B => /\ Fits(b) /\ b.proc = k.proc /\ b.type = k.type
           /\ b.start = l.end + 1 /\ b.end = k.end
  BY <1>1, <1>2, <1>5, RlAssumption DEF Fits, RlLocks, EOF
<1>8. /\ A => On(s) = Piece(a) /\ Fitting(s)
      /\ ~ A => On(s) = {} /\ Fitting(s)
      /\ B => On(t) = Piece(b) /\ Fitting(t)
      /\ ~ B => On(t) = {} /\ Fitting(t)
  <2>1. /\ A => s = <<a>>
        /\ ~ A => s = << >>
        /\ B => t = <<b>>
        /\ ~ B => t = << >>
    BY <1>3
  <2> QED BY <1>6, <1>7, <2>1, OnOne, OnNone
<1>9. Fitting(s \o t) /\ On(s \o t) = On(s) \cup On(t)
  BY <1>8, OnBoth
<1>10. /\ A => \A i : i \in RlBytes(a) <=> i \in RlBytes(k) /\ i < l.start
       /\ B => \A i : i \in RlBytes(b) <=> i \in RlBytes(k) /\ i > l.end
  <2>1. ASSUME A, NEW i PROVE i \in RlBytes(a) <=> i \in RlBytes(k) /\ i < l.start
    <3>1. i \in RlBytes(a) <=> i \in 0 .. RlLast /\ k.start <= i /\ i <= l.start - 1
      BY <1>6, <2>1, BytesIs
    <3>2. i \in RlBytes(k) <=> i \in 0 .. RlLast /\ k.start <= i /\ (k.end = EOF \/ i <= k.end)
      BY BytesIs
    <3>3. k.end = EOF \/ l.start <= k.end
      BY DEF nextmeet
    <3> QED BY <1>5, <3>1, <3>2, <3>3, RlAssumption DEF RlLocks, EOF
  <2>2. ASSUME B, NEW i PROVE i \in RlBytes(b) <=> i \in RlBytes(k) /\ i > l.end
    <3>1. i \in RlBytes(b) <=> i \in 0 .. RlLast /\ l.end + 1 <= i /\ (k.end = EOF \/ i <= k.end)
      BY <1>7, <2>2, BytesIs
    <3>2. i \in RlBytes(k) <=> i \in 0 .. RlLast /\ k.start <= i /\ (k.end = EOF \/ i <= k.end)
      BY BytesIs
    <3>3. l.end # EOF /\ k.start <= l.end
      BY <1>2, <2>2 DEF nextmeet
    <3> QED BY <1>5, <3>1, <3>2, <3>3, RlAssumption DEF RlLocks, EOF
  <2> QED BY <2>1, <2>2
<1>11. On(s \o t) \subseteq Piece(k)
  <2>1. ASSUME NEW h, h \in On(s) PROVE h \in Piece(k)
    <3>1. A /\ h \in Piece(a)
      BY <1>8, <2>1
    <3> QED BY <1>6, <1>10, <3>1, PieceIs
  <2>2. ASSUME NEW h, h \in On(t) PROVE h \in Piece(k)
    <3>1. B /\ h \in Piece(b)
      BY <1>8, <2>2
    <3> QED BY <1>7, <1>10, <3>1, PieceIs
  <2> QED BY <1>9, <2>1, <2>2
<1>12. ASSUME NEW h, h \in Piece(k) PROVE h \in On(s \o t) \cup Cut(l)
  <2>1. PICK i \in RlBytes(k) : h = <<k.proc, i, k.type>>
    BY <1>12, PieceIs
  <2>2. /\ i \in 0 .. RlLast /\ k.start <= i /\ (k.end = EOF \/ i <= k.end)
    BY <2>1, BytesIs
  <2>3. CASE i < l.start
    <3>1. A /\ i \in RlBytes(a)
      BY <1>2, <1>5, <1>10, <2>1, <2>2, <2>3, RlAssumption DEF RlLocks
    <3>2. h \in Piece(a)
      BY <1>6, <2>1, <3>1, PieceIs
    <3> QED BY <1>8, <1>9, <3>1, <3>2
  <2>4. CASE l.end # EOF /\ i > l.end
    <3>1. B /\ i \in RlBytes(b)
      BY <1>2, <1>5, <1>10, <2>1, <2>2, <2>4, RlAssumption DEF RlLocks, EOF
    <3>2. h \in Piece(b)
      BY <1>7, <2>1, <3>1, PieceIs
    <3> QED BY <1>8, <1>9, <3>1, <3>2
  <2>5. CASE ~ (i < l.start) /\ ~ (l.end # EOF /\ i > l.end)
    <3>1. i \in RlBytes(l)
      <4>1. l.start <= i /\ (l.end = EOF \/ i <= l.end)
        BY <1>5, <2>2, <2>5, RlAssumption DEF RlLocks, EOF
      <4> QED BY <2>2, <4>1, BytesIs
    <3>2. k.type \in {0, 1}
      BY <1>5 DEF RlLocks
    <3>3. h \in Cut(l)
      BY <2>1, <3>1, <3>2, CutIs
    <3> QED BY <3>3
  <2> QED BY <2>3, <2>4, <2>5
<1> QED BY <1>4, <1>9, <1>11, <1>12

\* The bytes of the first n elements but those at the places in S.
Without(old, S, n) == UNION {Piece(old[i]) : i \in (1 .. n) \ S}

\* The list new has the bytes B but for some that are cut out with l.
Less(new, B, l) ==
  Fitting(new) /\ On(new) \subseteq B /\ B \subseteq On(new) \cup Cut(l)

LEMMA WithoutMore ==
  ASSUME NEW old, NEW S, NEW n \in Nat \ {0}
  PROVE  Without(old, S, n) = Without(old, S, n - 1) \cup (IF n \in S THEN {} ELSE Piece(old[n]))
<1> DEFINE T == (1 .. n) \ S
           R == (1 .. n - 1) \ S
           A == UNION {Piece(old[i]) : i \in T}
           B == UNION {Piece(old[i]) : i \in R}
<1>1. Without(old, S, n) = A /\ Without(old, S, n - 1) = B
  BY DEF Without
<1>2. /\ n \in S => T = R
      /\ n \notin S => T = R \cup {n}
  OBVIOUS
<1> HIDE DEF T, R
<1>3. CASE n \in S
  BY <1>1, <1>2, <1>3
<1>4. CASE n \notin S
  <2>1. A = B \cup Piece(old[n])
    BY <1>2, <1>4
  <2> QED BY <1>1, <1>4, <2>1
<1> QED BY <1>3, <1>4

\* What remlock does to one more lock of the list.
LEMMA StepBytes ==
  ASSUME NEW a \in RlStates, NEW k, NEW l, Fits(k), Fits(l), NEW B, Less(a.list, B, l)
  PROVE  Less(remlockStep(a, k, l).list, B \cup Piece(k), l)
<1>1. PICK rest, s : rest = extract(k, l) /\ s = a.list
  OBVIOUS
<1>2. Fitting(s) /\ On(s) \subseteq B /\ B \subseteq On(s) \cup Cut(l)
  BY <1>1 DEF Less
<1>3. Less(Append(s, k), B \cup Piece(k), l)
  <2>1. On(Append(s, k)) = On(s) \cup Piece(k) /\ Fitting(Append(s, k))
    BY <1>2, OnAppend
  <2> QED BY <1>2, <2>1 DEF Less
<1>4. ASSUME nextmeet(l, k), k.proc = l.proc PROVE Less(s \o rest, B \cup Piece(k), l)
  <2>1. Fitting(rest) /\ On(rest) \subseteq Piece(k) /\ Piece(k) \subseteq On(rest) \cup Cut(l)
    BY <1>1, <1>4, ExtractBytes
  <2>2. On(s \o rest) = On(s) \cup On(rest) /\ Fitting(s \o rest)
    BY <1>2, <2>1, OnBoth
  <2> QED BY <1>2, <2>1, <2>2 DEF Less
<1>5. PICK r : r = remlockStep(a, k, l)
  OBVIOUS
<1>6. \/ r.list = Append(s, k)
      \/ r.list = s \o rest /\ nextmeet(l, k) /\ k.proc = l.proc
  BY <1>1, <1>5 DEF remlockStep, RlStates
<1> QED BY <1>3, <1>4, <1>5, <1>6

\* remlock releases bytes it was asked for, of the process that asked.
LEMMA RemlockBytes ==
  ASSUME NEW old, Fitting(old), NEW l, Fits(l), NEW free \in Int
  PROVE  Less(remlock(old, l, free).list, On(old), l)
<1> DEFINE N == Len(old)
<1>0. old \in Seq(RlLocks) /\ N \in Nat /\ l \in RlLocks /\ \A n \in 1 .. N : Fits(old[n])
  BY DEF Fitting, Fits
<1>1. PICK g : RemlockRun(g, old, l, free) /\ remlock(old, l, free) = g[N]
  BY <1>0, RemlockRuns
<1>2. /\ g[0].list = << >>
      /\ \A n \in 1 .. N : g[n] = remlockStep(g[n - 1], old[n], l)
      /\ \A n \in 0 .. N : g[n] \in RlStates
  BY <1>1 DEF RemlockRun
<1> DEFINE G == {n \in 0 .. N : Less(g[n].list, Without(old, {}, n), l)}
<1>3. 0 \in G
  <2>1. Without(old, {}, 0) = {}
    BY DEF Without
  <2>2. Less(<< >>, {}, l)
    BY OnNone DEF Less
  <2>3. Less(g[0].list, Without(old, {}, 0), l)
    BY <1>2, <2>1, <2>2
  <2> QED BY <1>0, <2>3
<1>4. ASSUME NEW n \in 1 .. N, n - 1 \in G PROVE n \in G
  <2>1. PICK a, k, B : a = g[n - 1] /\ k = old[n] /\ B = Without(old, {}, n - 1)
    OBVIOUS
  <2>2. n \in 0 .. N /\ n - 1 \in 0 .. N /\ n \in Nat \ {0}
    BY <1>0
  <2>3. a \in RlStates /\ Fits(k) /\ Less(a.list, B, l)
    BY <1>0, <1>2, <1>4, <2>1, <2>2
  <2>4. Less(remlockStep(a, k, l).list, B \cup Piece(k), l)
    BY <2>3, StepBytes
  <2>5. Without(old, {}, n) = B \cup Piece(k)
    BY <2>1, <2>2, WithoutMore
  <2> QED BY <1>2, <2>1, <2>2, <2>4, <2>5
<1>5. N \in G
  <2> HIDE DEF G, N
  <2>1. \A n \in 0 .. N : n \in G
    BY <1>0, <1>3, <1>4, Upwards
  <2> QED BY <1>0, <2>1
<1>6. Without(old, {}, N) = On(old)
  <2>1. DOMAIN old = 1 .. N
    BY <1>0
  <2> QED BY <2>1 DEF Without, On
<1> QED BY <1>1, <1>5, <1>6

\* freelock leaves the elements at the other places.
LEMMA FreelockBytes ==
  ASSUME NEW old, Fitting(old), NEW S \in SUBSET (1 .. Len(old))
  PROVE  /\ Fitting(freelock(old, S))
         /\ On(freelock(old, S)) = Without(old, S, Len(old))
<1> DEFINE N == Len(old)
<1>0. old \in Seq(RlLocks) /\ N \in Nat /\ \A n \in 1 .. N : Fits(old[n])
  BY DEF Fitting
<1>1. PICK g : FreelockRun(g, old, S) /\ freelock(old, S) = g[N]
  BY <1>0, FreelockRuns
<1>2. /\ g[0] = << >>
      /\ \A n \in 1 .. N : g[n] = IF n \in S THEN g[n - 1] ELSE Append(g[n - 1], old[n])
  BY <1>1 DEF FreelockRun
<1> DEFINE G == {n \in 0 .. N : Fitting(g[n]) /\ On(g[n]) = Without(old, S, n)}
<1>3. 0 \in G
  <2>1. Without(old, S, 0) = {}
    BY DEF Without
  <2>2. PICK e : e = << >>
    OBVIOUS
  <2>3. Fitting(e) /\ On(e) = {}
    BY <2>2, OnNone
  <2>4. Fitting(g[0]) /\ On(g[0]) = Without(old, S, 0)
    BY <1>2, <2>1, <2>2, <2>3
  <2> QED BY <1>0, <2>4
<1>4. ASSUME NEW n \in 1 .. N, n - 1 \in G PROVE n \in G
  <2>1. PICK s, k, B : s = g[n - 1] /\ k = old[n] /\ B = Without(old, S, n - 1)
    OBVIOUS
  <2>2. n \in 0 .. N /\ n - 1 \in 0 .. N /\ n \in Nat \ {0}
    BY <1>0
  <2>3. Fitting(s) /\ Fits(k) /\ On(s) = B
    BY <1>0, <1>4, <2>1
  <2>4. Without(old, S, n) = B \cup (IF n \in S THEN {} ELSE Piece(k))
    BY <2>1, <2>2, WithoutMore
  <2>5. On(Append(s, k)) = On(s) \cup Piece(k) /\ Fitting(Append(s, k))
    BY <2>3, OnAppend
  <2> QED BY <1>2, <2>1, <2>2, <2>3, <2>4, <2>5
<1>5. N \in G
  <2> HIDE DEF G, N
  <2>1. \A n \in 0 .. N : n \in G
    BY <1>0, <1>3, <1>4, Upwards
  <2> QED BY <1>0, <2>1
<1> QED BY <1>1, <1>5

\* The neighbourhood of a lock: its bytes, one before and one after them.
Around(l) ==
  [l EXCEPT !.start = IF @ = 0 THEN 0 ELSE @ - 1, !.end = IF @ = EOF THEN EOF ELSE @ + 1]

\* addlock's combined lock has the bytes of l and of its neighbours, and no
\* byte between them that none of them has.
LEMMA CombinedBytes ==
  ASSUME NEW l, Fits(l), NEW near, NEW new, Spans(new, l, near),
         \A k \in near : Fits(k) /\ nextmeet(Around(l), k)
  PROVE  /\ Fits(new)
         /\ RlBytes(l) \subseteq RlBytes(new)
         /\ \A k \in near : RlBytes(k) \subseteq RlBytes(new)
         /\ \A i \in RlBytes(new) : i \in RlBytes(l) \/ \E k \in near : i \in RlBytes(k)
<1>0. /\ RlLast \in Nat /\ EOF \notin Nat
      /\ l \in RlLocks /\ l.start \in Nat /\ l.end \in Nat \cup {EOF} /\ l.start <= RlLast
      /\ l.end # EOF => l.start <= l.end /\ l.end < RlLast
  BY RlAssumption DEF Fits, RlLocks, EOF
<1>1. \A k \in near : /\ k.start \in Nat /\ k.end \in Nat \cup {EOF} /\ k.start <= RlLast
                      /\ k.end # EOF => k.start <= k.end /\ k.end < RlLast
  BY DEF Fits, RlLocks
<1>2. \A k \in near : /\ l.end = EOF \/ l.end + 1 >= k.start
                      /\ k.end = EOF \/ k.end >= l.start - 1
  <2> TAKE k \in near
  <2>1. PICK w : w = Around(l)
    OBVIOUS
  <2>2. /\ w.start = IF l.start = 0 THEN 0 ELSE l.start - 1
        /\ w.end = IF l.end = EOF THEN EOF ELSE l.end + 1
    BY <1>0, <2>1 DEF Around, RlLocks
  <2>3. (w.end = EOF \/ w.end >= k.start) /\ (k.end = EOF \/ k.end >= w.start)
    BY <2>1 DEF nextmeet
  <2> QED BY <1>0, <1>1, <2>2, <2>3
<1>3. /\ new \in RlLocks /\ new.start \in Nat /\ new.end \in Nat \cup {EOF}
      /\ new.start \in {l.start} \cup {k.start : k \in near}
      /\ new.start <= l.start /\ \A k \in near : new.start <= k.start
      /\ new.end \in {l.end} \cup {k.end : k \in near}
      /\ new.end # EOF => /\ l.end # EOF /\ l.end <= new.end
                          /\ \A k \in near : k.end # EOF /\ k.end <= new.end
  BY DEF Spans, RlLocks
<1>4. Fits(new)
  <2>1. new.start <= RlLast
    BY <1>0, <1>3
  <2>2. new.end # EOF => new.start <= new.end
    BY <1>0, <1>3
  <2>3. new.end # EOF => new.end < RlLast
    BY <1>0, <1>1, <1>3
  <2> QED BY <1>3, <2>1, <2>2, <2>3 DEF Fits
<1>5. \A i : i \in RlBytes(new)
               <=> i \in 0 .. RlLast /\ new.start <= i /\ (new.end = EOF \/ i <= new.end)
  BY <1>4, BytesIs
<1>6. \A i : i \in RlBytes(l)
               <=> i \in 0 .. RlLast /\ l.start <= i /\ (l.end = EOF \/ i <= l.end)
  BY BytesIs
<1>7. \A k \in near : \A i : i \in RlBytes(k)
               <=> i \in 0 .. RlLast /\ k.start <= i /\ (k.end = EOF \/ i <= k.end)
  BY BytesIs
<1>8. RlBytes(l) \subseteq RlBytes(new)
  BY <1>0, <1>3, <1>5, <1>6
<1>9. ASSUME NEW k \in near PROVE RlBytes(k) \subseteq RlBytes(new)
  BY <1>1, <1>3, <1>5, <1>7
<1>10. ASSUME NEW i \in RlBytes(new)
       PROVE  i \in RlBytes(l) \/ \E k \in near : i \in RlBytes(k)
  <2>1. i \in 0 .. RlLast /\ new.start <= i /\ (new.end = EOF \/ i <= new.end)
    BY <1>5
  <2>2. CASE i < l.start
    <3>1. PICK k \in near : new.start = k.start
      BY <1>0, <1>3, <2>1, <2>2
    <3>2. k.start <= i /\ (k.end = EOF \/ i <= k.end)
      BY <1>0, <1>1, <1>2, <2>1, <2>2, <3>1
    <3> QED BY <1>7, <2>1, <3>2
  <2>3. CASE l.end # EOF /\ i > l.end
    <3>1. new.end # l.end
      BY <1>0, <2>1, <2>3
    <3>2. PICK k \in near : new.end = k.end
      BY <1>3, <3>1
    <3>3. k.start <= i /\ (k.end = EOF \/ i <= k.end)
      BY <1>0, <1>1, <1>2, <2>1, <2>3, <3>2
    <3> QED BY <1>7, <2>1, <3>3
  <2>4. CASE ~ (i < l.start) /\ ~ (l.end # EOF /\ i > l.end)
    <3>1. l.start <= i /\ (l.end = EOF \/ i <= l.end)
      BY <1>0, <2>1, <2>4
    <3> QED BY <1>6, <2>1, <3>1
  <2> QED BY <2>2, <2>3, <2>4
<1> QED BY <1>4, <1>8, <1>9, <1>10

\* What a table of bytes says of addlock: the lock is there, of the bytes B
\* all that is lost was the owner's, of the other type.
LocksBytes(new, B, l, a) ==
  /\ Fitting(new)
  /\ On(new) \subseteq B \cup Piece(a) /\ Piece(a) \subseteq On(new)
  /\ \A h \in B : h \in On(new) \/ h \in {l.proc} \X RlBytes(a) \X {1 - l.type}

\* addlock adds a lock that has the bytes of l and of neighbours of the same
\* owner and type, or does nothing for want of a structure.
LEMMA AddlockBytes ==
  ASSUME NEW old, Fitting(old), NEW l, Fits(l), NEW free \in Int
  PROVE  LET new == addlock(old, l, free).list
         IN \/ new = old
            \/ \E a : /\ Fits(a) /\ a.proc = l.proc /\ a.type = l.type
                      /\ \A i \in RlBytes(a) : i \in RlBytes(l) \/ <<l.proc, i, l.type>> \in On(old)
                      /\ LocksBytes(new, On(old), l, a)
<1>0. /\ old \in Seq(RlLocks) /\ l \in RlLocks /\ Len(old) \in Nat /\ DOMAIN old = 1 .. Len(old)
      /\ \A i \in 1 .. Len(old) : Fits(old[i]) /\ old[i] \in RlLocks
  BY DEF Fitting, Fits
<1>1. PICK wide : wide = Around(l)
  OBVIOUS
<1>2. PICK near : near = {i \in DOMAIN old : /\ nextmeet(wide, old[i]) /\ old[i].proc = l.proc
                                             /\ old[i].type = l.type}
  OBVIOUS
<1>3. near \in SUBSET (1 .. Len(old)) /\ IsFiniteSet(near) /\ Cardinality(near) \in Nat
  <2>1. IsFiniteSet(1 .. Len(old)) /\ near \subseteq 1 .. Len(old)
    BY <1>0, <1>2, FS_Interval
  <2> QED BY <2>1, FS_Subset, FS_CardinalityType
<1>4. PICK T : T = {old[i] : i \in near}
  OBVIOUS
<1>5. T \subseteq RlLocks /\ IsFiniteSet(T)
  <2> DEFINE h == [i \in near |-> old[i]]
  <2>1. h \in Surjection(near, T)
    BY <1>4 DEF Surjection
  <2>2. IsFiniteSet(T)
    <3> HIDE DEF h
    <3> QED BY <1>3, <2>1, FS_Surjection
  <2> QED BY <1>0, <1>3, <1>4, <2>2
<1>6. PICK a : a = Combined(l, T)
  OBVIOUS
<1>7. Spans(a, l, T)
  BY <1>0, <1>5, <1>6, CombinedIs
<1>8. \A k \in T : Fits(k) /\ nextmeet(Around(l), k) /\ k.proc = l.proc /\ k.type = l.type
  BY <1>0, <1>1, <1>2, <1>4
<1>9. /\ Fits(a) /\ a.proc = l.proc /\ a.type = l.type
      /\ \A k \in T : RlBytes(k) \subseteq RlBytes(a)
      /\ \A i \in RlBytes(a) : i \in RlBytes(l) \/ \E k \in T : i \in RlBytes(k)
  <2>1. \A k \in T : Fits(k) /\ nextmeet(Around(l), k)
    BY <1>8
  <2>2. a.proc = l.proc /\ a.type = l.type
    BY <1>7 DEF Spans
  <2> QED BY <1>7, <2>1, <2>2, CombinedBytes
<1>10. PICK room, mid : room = free + Cardinality(near) /\ mid = freelock(old, near)
  OBVIOUS
<1>11. /\ room - 1 \in Int /\ Fitting(mid)
       /\ On(mid) = Without(old, near, Len(old))
  <2>1. room - 1 \in Int
    BY <1>3, <1>10
  <2> QED BY <1>3, <1>10, <2>1, FreelockBytes
<1>12. PICK r, q : r = remlock(mid, a, q) /\ q = room - 1
  OBVIOUS
<1>13. Less(r.list, On(mid), a)
  BY <1>9, <1>11, <1>12, RemlockBytes
<1>14. addlock(old, l, free).list = IF room = 0 THEN old ELSE <<a>> \o r.list
  BY <1>1, <1>2, <1>4, <1>6, <1>10, <1>12 DEF addlock, Around
<1>15. \A i \in RlBytes(a) : i \in RlBytes(l) \/ <<l.proc, i, l.type>> \in On(old)
  <2> SUFFICES ASSUME NEW i \in RlBytes(a), NEW k \in T, i \in RlBytes(k)
               PROVE  <<l.proc, i, l.type>> \in On(old)
    BY <1>9
  <2>1. <<l.proc, i, l.type>> \in Piece(k)
    BY <1>8, PieceIs
  <2>2. PICK n \in DOMAIN old : k = old[n]
    BY <1>0, <1>3, <1>4
  <2> QED BY <2>1, <2>2 DEF On
<1>16. PICK new : new = <<a>> \o r.list
  OBVIOUS
<1>17. Fitting(new) /\ On(new) = Piece(a) \cup On(r.list)
  <2>1. Fitting(r.list)
    BY <1>13 DEF Less
  <2>2. PICK s, t : s = <<a>> /\ t = r.list
    OBVIOUS
  <2>3. Fitting(s) /\ On(s) = Piece(a)
    BY <1>9, <2>2, OnOne
  <2>4. Fitting(s \o t) /\ On(s \o t) = On(s) \cup On(t)
    BY <2>1, <2>2, <2>3, OnBoth
  <2> QED BY <1>16, <2>2, <2>3, <2>4
<1>18. On(mid) \subseteq On(old)
  BY <1>0, <1>11 DEF On, Without
<1>19. On(new) \subseteq On(old) \cup Piece(a) /\ Piece(a) \subseteq On(new)
  BY <1>13, <1>17, <1>18 DEF Less
<1>20. ASSUME NEW h \in On(old)
       PROVE  h \in On(new) \/ h \in {l.proc} \X RlBytes(a) \X {1 - l.type}
  <2>1. PICK n \in DOMAIN old : h \in Piece(old[n])
    BY DEF On
  <2>2. CASE n \in near
    <3>1. old[n] \in T
      BY <1>4, <2>2
    <3>2. PICK k : k = old[n]
      OBVIOUS
    <3>3. k.proc = a.proc /\ k.type = a.type /\ RlBytes(k) \subseteq RlBytes(a)
      BY <1>8, <1>9, <3>1, <3>2
    <3>4. h \in Piece(a)
      BY <2>1, <3>2, <3>3, PieceIs
    <3> QED BY <1>19, <3>4
  <2>3. CASE n \notin near
    <3>1. h \in On(mid)
      BY <1>0, <1>11, <2>1, <2>3 DEF Without
    <3>2. h \in On(r.list) \/ h \in Cut(a)
      BY <1>13, <3>1 DEF Less
    <3>3. ASSUME h \in Cut(a) PROVE h \in Piece(a) \/ h \in {l.proc} \X RlBytes(a) \X {1 - l.type}
      <4>1. PICK i \in RlBytes(a), t \in {0, 1} : h = <<a.proc, i, t>>
        BY <3>3, CutIs
      <4>2. a.type \in {0, 1}
        BY <1>9 DEF Fits, RlLocks
      <4>3. CASE t = a.type
        <5>1. h \in Piece(a)
          BY <4>1, <4>3, PieceIs
        <5> QED BY <5>1
      <4>4. CASE t # a.type
        <5>1. t = 1 - l.type
          BY <1>9, <4>1, <4>2, <4>4
        <5> QED BY <1>9, <4>1, <5>1
      <4> QED BY <4>3, <4>4
    <3> QED BY <1>17, <3>2, <3>3
  <2> QED BY <2>2, <2>3
<1>21. LocksBytes(new, On(old), l, a)
  BY <1>17, <1>19, <1>20 DEF LocksBytes
<1>22. CASE room = 0
  BY <1>14, <1>22
<1>23. CASE room # 0
  <2>1. addlock(old, l, free).list = new
    BY <1>14, <1>16, <1>23
  <2> QED BY <1>9, <1>15, <1>21, <2>1
<1> QED BY <1>22, <1>23

\* The lists, and what processes wait for, are locks of bytes that there are.
RlFit ==
  /\ \A f \in RlFiles : Fitting(i_rl[f])
  /\ \A p \in RlProcs : p_prl[p] # Nothing => Fits(p_prl[p].lock)

\* No byte is locked by two processes unless both lock it for reading.
RlCompatible ==
  \A f \in RlFiles : \A h, g \in RlHeld[f] : h[1] # g[1] /\ h[2] = g[2] => h[3] = 0 /\ g[3] = 0

RlBytesInv == RlInv /\ RlFit /\ RlCompatible

\* One list changes: what that is for the table.
LEMMA TableChanges ==
  ASSUME RlInv, NEW p, NEW f \in RlFiles, NEW list, i_rl' = [i_rl EXCEPT ![f] = list],
         NEW new, NEW lost, new \subseteq On(list), On(list) \subseteq On(i_rl[f]) \cup new,
         \A h \in On(i_rl[f]) : h \in On(list) \/ h \in lost
  PROVE  ByteTable!Changes(p, f, new, lost)
<1>1. i_rl' = [g \in RlFiles |-> IF g = f THEN list ELSE i_rl[g]]
  BY DEF RlInv, RlTyped
<1>2. /\ RlHeld = [g \in RlFiles |-> On(i_rl[g])]
      /\ RlHeld' = [g \in RlFiles |-> On(i_rl'[g])]
  BY DEF RlHeld, On, Piece
<1>3. /\ DOMAIN RlHeld' = RlFiles
      /\ RlHeld[f] = On(i_rl[f]) /\ RlHeld'[f] = On(list)
      /\ \A g \in RlFiles \ {f} : RlHeld'[g] = RlHeld[g]
  BY <1>1, <1>2
<1>4. RlHeld[f] \ RlHeld'[f] \subseteq lost
  BY <1>3
<1> QED BY <1>3, <1>4 DEF ByteTable!Changes

\* The last byte of a lock.
LastByte(l) == IF l.end = EOF THEN RlLast ELSE l.end

LEMMA IntervalIs ==
  ASSUME NEW l, Fits(l)
  PROVE  /\ l.start \in 0 .. RlLast /\ LastByte(l) \in 0 .. RlLast
         /\ ByteTable!Interval(l.start, LastByte(l)) = RlBytes(l)
<1>1. l.start \in Nat /\ l.end \in Nat \cup {EOF} /\ RlLast \in Nat /\ l.start <= RlLast
      /\ (l.end # EOF => l.start <= l.end /\ l.end < RlLast)
  BY RlAssumption DEF Fits, RlLocks
<1>2. l.start \in 0 .. RlLast /\ LastByte(l) \in 0 .. RlLast
  BY <1>1 DEF LastByte, EOF
<1>3. RlBytes(l) = l.start .. LastByte(l)
  BY DEF RlBytes, LastByte
<1>4. ByteTable!Interval(l.start, LastByte(l)) = RlBytes(l)
  BY <1>1, <1>2, <1>3 DEF ByteTable!Interval
<1> QED BY <1>2, <1>4

\* A step that is one of the table, or none, and keeps the lists fit.
TableStep ==
  /\ ByteTable!BytesNext \/ UNCHANGED RlHeld
  /\ RlFit' /\ RlCompatible'

\* A step that changes no list, whatever a process waits for then.
LEMMA SameTable ==
  ASSUME RlBytesInv, UNCHANGED i_rl,
         \A p \in RlProcs : p_prl'[p] = p_prl[p] \/ p_prl'[p] = Nothing \/ Fits(p_prl'[p].lock)
  PROVE  TableStep
<1>1. UNCHANGED RlHeld
  BY DEF RlHeld
<1>2. RlCompatible'
  BY <1>1 DEF RlBytesInv, RlCompatible
<1>3. RlFit'
  BY DEF RlBytesInv, RlFit
<1> QED BY <1>1, <1>2, <1>3 DEF TableStep

\* The lists after a change of one.
LEMMA FitAfter ==
  ASSUME RlBytesInv, NEW f \in RlFiles, NEW list, i_rl' = [i_rl EXCEPT ![f] = list], Fitting(list),
         \A p \in RlProcs : p_prl'[p] = p_prl[p] \/ p_prl'[p] = Nothing
  PROVE  RlFit'
<1>1. \A g \in RlFiles : i_rl'[g] = IF g = f THEN list ELSE i_rl[g]
  BY DEF RlBytesInv, RlInv, RlTyped
<1> QED BY <1>1 DEF RlBytesInv, RlFit

LEMMA CompatibleAfter ==
  ASSUME RlCompatible, NEW f \in RlFiles, NEW p, NEW B, NEW t, NEW lost,
         \A i \in B : ByteTable!Free(f, p, i, t), ByteTable!Changes(p, f, {p} \X B \X {t}, lost)
  PROVE  RlCompatible'
<1>1. /\ \A g \in RlFiles \ {f} : RlHeld'[g] = RlHeld[g]
      /\ \A h \in RlHeld'[f] : h \in RlHeld[f] \/ h \in {p} \X B \X {t}
  BY DEF ByteTable!Changes
<1>2. \A h \in {p} \X B \X {t} : h[1] = p /\ h[2] \in B /\ h[3] = t
  OBVIOUS
<1>3. \A h \in RlHeld[f] : \A i \in B : h[1] # p /\ h[2] = i => t = 0 /\ h[3] = 0
  BY DEF ByteTable!Free
<1> SUFFICES ASSUME NEW e \in RlFiles, NEW h \in RlHeld'[e], NEW g \in RlHeld'[e],
                    h[1] # g[1], h[2] = g[2]
             PROVE  h[3] = 0 /\ g[3] = 0
  BY DEF RlCompatible
<1>4. CASE e # f
  BY <1>1, <1>4 DEF RlCompatible
<1>5. CASE e = f
  <2>1. CASE h \in RlHeld[f] /\ g \in RlHeld[f]
    BY <2>1 DEF RlCompatible
  <2>2. CASE h \in RlHeld[f] /\ g \in {p} \X B \X {t}
    BY <1>2, <1>3, <2>2
  <2>3. CASE h \in {p} \X B \X {t} /\ g \in RlHeld[f]
    BY <1>2, <1>3, <2>3
  <2>4. CASE h \in {p} \X B \X {t} /\ g \in {p} \X B \X {t}
    BY <1>2, <2>4
  <2> QED BY <1>1, <1>5, <2>1, <2>2, <2>3, <2>4
<1> QED BY <1>4, <1>5

\* F_UNLCK and fd_close unlock.
LEMMA TableUnlocks ==
  ASSUME RlBytesInv, NEW p \in RlProcs, NEW f \in RlFiles, NEW l, Fits(l), l.proc = p,
         rlockUNLCK(p, f, l)
  PROVE  TableStep
<1>1. RlInv /\ RlCompatible /\ Fitting(i_rl[f]) /\ freerl \in Int
  BY DEF RlBytesInv, RlFit, RlInv, RlTyped
<1>2. PICK list : list = remlock(i_rl[f], l, freerl).list
  OBVIOUS
<1>3. Fitting(list) /\ On(list) \subseteq On(i_rl[f]) /\ On(i_rl[f]) \subseteq On(list) \cup Cut(l)
  BY <1>1, <1>2, RemlockBytes DEF Less
<1>4. i_rl' = [i_rl EXCEPT ![f] = list] /\ p_prl' = p_prl
  BY <1>2 DEF rlockUNLCK, Result
<1>5. ByteTable!Changes(p, f, {}, Cut(l))
  <2>1. PICK none : none = {}
    OBVIOUS
  <2>2. none \subseteq On(list) /\ On(list) \subseteq On(i_rl[f]) \cup none
        /\ \A h \in On(i_rl[f]) : h \in On(list) \/ h \in Cut(l)
    BY <1>3, <2>1
  <2>3. ByteTable!Changes(p, f, none, Cut(l))
    BY <1>1, <1>4, <2>2, TableChanges
  <2> QED BY <2>1, <2>3
<1>6. l.start \in 0 .. RlLast /\ LastByte(l) \in 0 .. RlLast
      /\ ByteTable!Interval(l.start, LastByte(l)) = RlBytes(l)
  BY IntervalIs
<1>7. ByteTable!Unlock(p, f, l.start, LastByte(l))
  BY <1>5, <1>6 DEF ByteTable!Unlock, ByteTable!LockType, Cut
<1>8. ByteTable!BytesNext
  BY <1>6, <1>7 DEF ByteTable!BytesNext
<1>9. RlFit'
  BY <1>3, <1>4, FitAfter
<1>10. RlCompatible'
  <2>1. PICK B : B = {}
    OBVIOUS
  <2>2. (\A i \in B : ByteTable!Free(f, p, i, 0)) /\ {p} \X B \X {0} = {}
    BY <2>1
  <2>3. ByteTable!Changes(p, f, {p} \X B \X {0}, Cut(l))
    BY <1>5, <2>2
  <2> QED BY <1>1, <2>2, <2>3, CompatibleAfter
<1> QED BY <1>8, <1>9, <1>10 DEF TableStep

\* A lock in nobody's way is free in the table.
LEMMA NoneInTheWay ==
  ASSUME RlFit, NEW f \in RlFiles, NEW l, Fits(l), Blockers(f, l) = {}, NEW i \in RlBytes(l)
  PROVE  ByteTable!Free(f, l.proc, i, l.type)
<1> SUFFICES ASSUME NEW h \in RlHeld[f], h[1] # l.proc, h[2] = i
             PROVE  l.type = 0 /\ h[3] = 0
  BY DEF ByteTable!Free
<1>1. Fitting(i_rl[f]) /\ RlHeld[f] = On(i_rl[f])
  BY DEF RlFit, RlHeld, On, Piece
<1>2. PICK n \in DOMAIN i_rl[f] : h \in Piece(i_rl[f][n])
  BY <1>1 DEF On
<1>3. PICK k : k = i_rl[f][n]
  OBVIOUS
<1>4. Fits(k) /\ h \in Piece(k)
  BY <1>1, <1>2, <1>3 DEF Fitting
<1>5. PICK j \in RlBytes(k) : h = <<k.proc, j, k.type>>
  BY <1>4, PieceIs
<1>6. i \in RlBytes(k) /\ k.proc # l.proc /\ h[3] = k.type
  BY <1>5
<1>7. nextmeet(l, k)
  <2>1. /\ i \in 0 .. RlLast /\ k.start <= i /\ (k.end = EOF \/ i <= k.end)
        /\ l.start <= i /\ (l.end = EOF \/ i <= l.end)
    BY <1>4, <1>6, BytesIs
  <2>2. /\ k.start \in Nat /\ k.end \in Nat \cup {EOF} /\ l.start \in Nat /\ l.end \in Nat \cup {EOF}
        /\ RlLast \in Nat
    BY <1>4, RlAssumption DEF Fits, RlLocks
  <2> QED BY <2>1, <2>2 DEF nextmeet
<1>8. ~ nextblock(l, k)
  BY <1>2, <1>3 DEF Blockers
<1>9. l.type # 1 /\ k.type # 1 /\ l.type \in {0, 1} /\ k.type \in {0, 1}
  BY <1>4, <1>6, <1>7, <1>8 DEF nextblock, Fits, RlLocks
<1> QED BY <1>6, <1>9

\* A lock that is set is one of the table, or there was no structure for it.
LEMMA TableLocks ==
  ASSUME RlBytesInv, NEW p \in RlProcs, NEW f \in RlFiles, NEW l, Fits(l), l.proc = p,
         Blockers(f, l) = {}, NEW free \in Int, Result(f, addlock(i_rl[f], l, free)),
         \A q \in RlProcs : p_prl'[q] = p_prl[q] \/ p_prl'[q] = Nothing
  PROVE  TableStep
<1>1. RlInv /\ RlCompatible /\ RlFit /\ Fitting(i_rl[f]) /\ RlHeld[f] = On(i_rl[f])
  BY DEF RlBytesInv, RlFit, RlHeld, On, Piece
<1>2. PICK list, old : list = addlock(i_rl[f], l, free).list /\ old = i_rl[f]
  OBVIOUS
<1>3. i_rl' = [i_rl EXCEPT ![f] = list]
  BY <1>2 DEF Result
<1>4. Fitting(old)
  BY <1>1, <1>2
<1>5. \/ list = old
      \/ \E a : /\ Fits(a) /\ a.proc = l.proc /\ a.type = l.type
                /\ \A i \in RlBytes(a) : i \in RlBytes(l) \/ <<l.proc, i, l.type>> \in On(old)
                /\ LocksBytes(list, On(old), l, a)
  BY <1>2, <1>4, AddlockBytes
<1>6. CASE list = old
  <2>1. UNCHANGED i_rl
    BY <1>2, <1>3, <1>6 DEF RlBytesInv, RlInv, RlTyped
  <2> QED BY <2>1, SameTable
<1>7. CASE \E a : /\ Fits(a) /\ a.proc = l.proc /\ a.type = l.type
                  /\ \A i \in RlBytes(a) : i \in RlBytes(l) \/ <<l.proc, i, l.type>> \in On(old)
                  /\ LocksBytes(list, On(old), l, a)
  <2>1. PICK a : /\ Fits(a) /\ a.proc = l.proc /\ a.type = l.type
                 /\ \A i \in RlBytes(a) : i \in RlBytes(l) \/ <<l.proc, i, l.type>> \in On(old)
                 /\ LocksBytes(list, On(old), l, a)
    BY <1>7
  <2>2. PICK t : t = l.type
    OBVIOUS
  <2>3. t \in {0, 1} /\ a.proc = p /\ a.type = t
    BY <2>1, <2>2 DEF Fits, RlLocks
  <2>4. Fitting(list) /\ On(list) \subseteq On(old) \cup Piece(a) /\ Piece(a) \subseteq On(list)
        /\ \A h \in On(old) : h \in On(list) \/ h \in {p} \X RlBytes(a) \X {1 - t}
    BY <2>1, <2>2 DEF LocksBytes
  <2>5. Piece(a) = {p} \X RlBytes(a) \X {t}
    BY <2>3 DEF Piece
  <2>6. ByteTable!Changes(p, f, {p} \X RlBytes(a) \X {t}, {p} \X RlBytes(a) \X {1 - t})
    <3>1. PICK new, lost : new = Piece(a) /\ lost = {p} \X RlBytes(a) \X {1 - t}
      OBVIOUS
    <3>2. ByteTable!Changes(p, f, new, lost)
      BY <1>1, <1>2, <1>3, <2>4, <3>1, TableChanges
    <3> QED BY <2>5, <3>1, <3>2
  <2>7. ASSUME NEW i \in RlBytes(a) PROVE ByteTable!Free(f, p, i, t)
    <3>1. CASE i \in RlBytes(l)
      BY <1>1, <2>2, <3>1, NoneInTheWay
    <3>2. CASE <<p, i, t>> \in On(old)
      <4>1. <<p, i, t>> \in RlHeld[f]
        BY <1>1, <1>2, <3>2
      <4>2. PICK g : g = <<p, i, t>>
        OBVIOUS
      <4>3. g[1] = p /\ g[2] = i /\ g[3] = t /\ g \in RlHeld[f]
        BY <4>1, <4>2
      <4>4. \A h \in RlHeld[f] : h[1] # p /\ h[2] = i => t = 0 /\ h[3] = 0
        BY <1>1, <4>3 DEF RlCompatible
      <4> QED BY <4>4 DEF ByteTable!Free
    <3> QED BY <2>1, <2>2, <3>1, <3>2
  <2>8. a.start \in 0 .. RlLast /\ LastByte(a) \in 0 .. RlLast
        /\ ByteTable!Interval(a.start, LastByte(a)) = RlBytes(a)
    BY <2>1, IntervalIs
  <2>9. ByteTable!Lock(p, f, a.start, LastByte(a), t)
    BY <2>6, <2>7, <2>8 DEF ByteTable!Lock
  <2>10. ByteTable!BytesNext
    BY <2>3, <2>8, <2>9 DEF ByteTable!BytesNext, ByteTable!LockType
  <2>11. RlFit'
    BY <1>3, <2>4, FitAfter
  <2>12. RlCompatible'
    BY <1>1, <2>6, <2>7, CompatibleAfter
  <2> QED BY <2>10, <2>11, <2>12 DEF TableStep
<1> QED BY <1>5, <1>6, <1>7

----------------------------------------------------------------------------
LEMMA RequestFits ==
  ASSUME NEW p \in RlProcs, NEW t \in {0, 1}, NEW r \in RlRanges
  PROVE  Fits(RlRequest(p, t, r)) /\ RlRequest(p, t, r).proc = p
<1>1. PICK l : l = RlRequest(p, t, r)
  OBVIOUS
<1>2. l \in RlLocks /\ l.proc = p
  BY <1>1, RlRequestIs
<1>3. l.start = r[1] /\ l.end = r[2]
  BY <1>1 DEF RlRequest
<1>4. /\ r[1] \in 0 .. RlLast /\ r[2] \in -1 .. RlLast - 1 /\ (r[2] = -1 \/ r[1] <= r[2])
      /\ RlLast \in Nat
  BY RlAssumption
<1>5. Fits(l)
  BY <1>2, <1>3, <1>4 DEF Fits, EOF
<1> QED BY <1>1, <1>2, <1>5

LEMMA TableWaits ==
  ASSUME RlBytesInv, NEW p \in RlProcs, NEW f \in RlFiles, NEW l, Fits(l), waitlock(p, f, l)
  PROVE  TableStep
<1>1. UNCHANGED i_rl /\ (p_prl' = p_prl \/ p_prl' = [p_prl EXCEPT ![p] = [file |-> f, lock |-> l]])
  BY DEF waitlock
<1>2. \A q \in RlProcs : p_prl'[q] = p_prl[q] \/ Fits(p_prl'[q].lock)
  <2>1. p_prl \in [RlProcs -> RlWaits \cup {Nothing}]
    BY DEF RlBytesInv, RlInv, RlTyped
  <2> QED BY <1>1, <2>1
<1> QED BY <1>1, <1>2, SameTable

LEMMA TableGets ==
  ASSUME RlBytesInv, NEW p \in RlProcs, waitlockGets(p)
  PROVE  TableStep
<1>1. PICK f, l : f = p_prl[p].file /\ l = p_prl[p].lock
  OBVIOUS
<1>2. RlTyped /\ RlFit
  BY DEF RlBytesInv, RlInv
<1>3. p_prl[p] # Nothing /\ p_prl \in [RlProcs -> RlWaits \cup {Nothing}] /\ freerl + 1 \in Int
  BY <1>2 DEF RlTyped, waitlockGets
<1>4. f \in RlFiles /\ Fits(l) /\ l.proc = p
  BY <1>1, <1>2, <1>3, WaitAt DEF RlTyped, RlFit
<1>5. /\ p_prl' = [p_prl EXCEPT ![p] = Nothing] /\ Blockers(f, l) = {}
      /\ Result(f, addlock(i_rl[f], l, freerl + 1))
  BY <1>1 DEF waitlockGets
<1>6. \A q \in RlProcs : p_prl'[q] = p_prl[q] \/ p_prl'[q] = Nothing
  BY <1>3, <1>5
<1>7. PICK n : n = freerl + 1
  OBVIOUS
<1> QED BY <1>3, <1>4, <1>5, <1>6, <1>7, TableLocks

LEMMA RlTableNext == RlBytesInv /\ [RlNext]_rlVars => TableStep
<1> SUFFICES ASSUME RlBytesInv, [RlNext]_rlVars PROVE TableStep
  OBVIOUS
<1>0. freerl \in Int /\ p_prl \in [RlProcs -> RlWaits \cup {Nothing}]
  BY DEF RlBytesInv, RlInv, RlTyped
<1>1. ASSUME NEW p \in RlProcs, NEW f \in RlFiles, fd_close(p, f) PROVE TableStep
  <2>1. PICK l : l = [type |-> 1, start |-> 0, end |-> EOF, proc |-> p]
    OBVIOUS
  <2>2. Fits(l) /\ l.proc = p
    BY <2>1, RlAssumption DEF Fits, RlLocks
  <2>3. rlockUNLCK(p, f, l)
    BY <1>1, <2>1 DEF fd_close
  <2> QED BY <2>2, <2>3, TableUnlocks
<1>2. ASSUME NEW p \in RlProcs, NEW f \in RlFiles, NEW t \in {0, 1}, NEW r \in RlRanges,
             \/ rlockUNLCK(p, f, RlRequest(p, t, r))
             \/ rlockSETLK(p, f, RlRequest(p, t, r))
             \/ rlockRefused(p, f, RlRequest(p, t, r))
             \/ waitlock(p, f, RlRequest(p, t, r))
      PROVE  TableStep
  <2>1. PICK l : l = RlRequest(p, t, r)
    OBVIOUS
  <2>2. Fits(l) /\ l.proc = p
    BY <2>1, RequestFits
  <2>3. CASE rlockUNLCK(p, f, l)
    BY <2>2, <2>3, TableUnlocks
  <2>4. CASE rlockSETLK(p, f, l)
    <3>1. /\ Blockers(f, l) = {} /\ Result(f, addlock(i_rl[f], l, freerl))
          /\ \A q \in RlProcs : p_prl'[q] = p_prl[q] \/ p_prl'[q] = Nothing
      BY <2>4 DEF rlockSETLK
    <3> QED BY <1>0, <2>2, <3>1, TableLocks
  <2>5. CASE rlockRefused(p, f, l)
    <3>1. UNCHANGED i_rl
          /\ \A q \in RlProcs : p_prl'[q] = p_prl[q] \/ p_prl'[q] = Nothing \/ Fits(p_prl'[q].lock)
      BY <2>5 DEF rlockRefused
    <3> QED BY <3>1, SameTable
  <2>6. CASE waitlock(p, f, l)
    BY <2>2, <2>6, TableWaits
  <2> QED BY <1>2, <2>1, <2>3, <2>4, <2>5, <2>6
<1>3. ASSUME \/ UNCHANGED rlVars
             \/ \E p \in RlProcs : RlSignal(p) \/ waitlockFails(p) \/ waitlockAgain(p)
      PROVE  TableStep
  <2>1. UNCHANGED i_rl
    BY <1>3 DEF rlVars, RlSignal, waitlockFails, waitlockAgain
  <2>2. p_prl' = p_prl \/ \E p \in RlProcs : p_prl' = [p_prl EXCEPT ![p] = Nothing]
    BY <1>3 DEF rlVars, RlSignal, waitlockFails, waitlockAgain, cleanup
  <2>3. \A q \in RlProcs : p_prl'[q] = p_prl[q] \/ p_prl'[q] = Nothing
    BY <1>0, <2>2
  <2> QED BY <2>1, <2>3, SameTable
<1>4. CASE RlNext
  <2>1. PICK p \in RlProcs :
          \/ \E f \in RlFiles :
               \/ fd_close(p, f)
               \/ \E r \in RlRanges : rlockUNLCK(p, f, RlRequest(p, 1, r))
               \/ \E t \in {0, 1}, r \in RlRanges :
                    \/ rlockSETLK(p, f, RlRequest(p, t, r))
                    \/ rlockRefused(p, f, RlRequest(p, t, r))
                    \/ waitlock(p, f, RlRequest(p, t, r))
          \/ RlSignal(p) \/ waitlockFails(p) \/ waitlockAgain(p) \/ waitlockGets(p)
    BY <1>4 DEF RlNext
  <2>2. 1 \in {0, 1}
    OBVIOUS
  <2> QED BY <1>1, <1>2, <1>3, <2>1, <2>2, TableGets
<1> QED BY <1>3, <1>4

LEMMA RlBytesInit == RlInit => RlBytesInv /\ ByteTable!BytesInit
<1> SUFFICES ASSUME RlInit PROVE RlBytesInv /\ ByteTable!BytesInit
  OBVIOUS
<1>1. \A f \in RlFiles : i_rl[f] = << >>
  BY DEF RlInit
<1>2. \A f \in RlFiles : Fitting(i_rl[f]) /\ On(i_rl[f]) = {}
  <2>1. PICK e : e = << >>
    OBVIOUS
  <2>2. Fitting(e) /\ On(e) = {}
    BY <2>1, OnNone
  <2> QED BY <1>1, <2>1, <2>2
<1>3. RlHeld = [f \in RlFiles |-> On(i_rl[f])]
  BY DEF RlHeld, On, Piece
<1>4. RlHeld = [f \in RlFiles |-> {}]
  BY <1>2, <1>3
<1>5. RlFit
  BY <1>2 DEF RlFit, RlInit
<1>6. RlCompatible
  BY <1>4 DEF RlCompatible
<1> QED BY <1>4, <1>5, <1>6, RlInitInv DEF RlBytesInv, ByteTable!BytesInit

LEMMA RlBytesNextInv == RlBytesInv /\ [RlNext]_rlVars => RlBytesInv'
BY RlTableNext, RlNextInv DEF RlBytesInv, TableStep

(***************************************************************************)
(* No byte of a file is locked by two processes unless both lock it for    *)
(* reading, whatever is combined, cut, waited for or refused (rlock.c).    *)
(***************************************************************************)
THEOREM RecordLocksExclude == RlSpec => []RlCompatible
<1>1. RlInit => RlBytesInv
  BY RlBytesInit
<1>2. RlBytesInv /\ [RlNext]_rlVars => RlBytesInv'
  BY RlBytesNextInv
<1>3. RlBytesInv => RlCompatible
  BY DEF RlBytesInv
<1> QED BY <1>1, <1>2, <1>3, PTL DEF RlSpec

(***************************************************************************)
(* The lists of record locks implement the table of bytes: whatever is     *)
(* combined, cut in two or left for want of a structure, no step gives a   *)
(* byte away that is held in conflict, and none releases a byte but those  *)
(* it was asked to, of the process that asked (rlock.c).                   *)
(***************************************************************************)
THEOREM RecordLocksImplement == RlSpec => RlImplementsBytes
<1>1. RlInit => RlBytesInv
  BY RlBytesInit
<1>2. RlInit => ByteTable!BytesInit
  BY RlBytesInit
<1>3. RlBytesInv /\ [RlNext]_rlVars => RlBytesInv'
  BY RlBytesNextInv
<1>4. RlBytesInv /\ [RlNext]_rlVars => [ByteTable!BytesNext]_RlHeld
  BY RlTableNext DEF TableStep
<1> QED BY <1>1, <1>2, <1>3, <1>4, PTL DEF RlSpec, RlImplementsBytes, ByteTable!BytesSpec

----------------------------------------------------------------------------
(* Semaphores.                                                             *)

SemArrays == {<< >>} \cup SemOps

LEMMA FirstChan == <<0, "n">> \in Chans
<1>1. NSEMS \in Nat \ {0}
  BY SemAssumption
<1>2. 0 \in SemNums
  BY <1>1 DEF SemNums
<1> QED BY <1>2 DEF Chans

LEMMA SemArrayIs == \A ops \in SemArrays : Len(ops) \in Nat
BY SemAssumption DEF SemArrays

\* The record that a call of usemop works with, if its channel is one.
IsCall(a) ==
  \E st, val, u, woke : \E chan \in Chans :
    a = [st |-> st, val |-> val, u |-> u, woke |-> woke, chan |-> chan]

LEMMA CallSet ==
  ASSUME NEW a, IsCall(a), NEW v
  PROVE  /\ IsCall([a EXCEPT !.st = v]) /\ IsCall([a EXCEPT !.val = v])
         /\ IsCall([a EXCEPT !.u = v]) /\ IsCall([a EXCEPT !.woke = v])
         /\ v \in Chans => IsCall([a EXCEPT !.chan = v])
         /\ a.chan \in Chans
<1>1. PICK st, val, u, woke, chan :
        chan \in Chans /\ a = [st |-> st, val |-> val, u |-> u, woke |-> woke, chan |-> chan]
  BY DEF IsCall
<1>2. /\ [a EXCEPT !.st = v] = [st |-> v, val |-> val, u |-> u, woke |-> woke, chan |-> chan]
      /\ [a EXCEPT !.val = v] = [st |-> st, val |-> v, u |-> u, woke |-> woke, chan |-> chan]
      /\ [a EXCEPT !.u = v] = [st |-> st, val |-> val, u |-> v, woke |-> woke, chan |-> chan]
      /\ [a EXCEPT !.woke = v] = [st |-> st, val |-> val, u |-> u, woke |-> v, chan |-> chan]
      /\ [a EXCEPT !.chan = v] = [st |-> st, val |-> val, u |-> u, woke |-> woke, chan |-> v]
  BY <1>1
<1>3. \A b, c, d, e : \A g \in Chans : IsCall([st |-> b, val |-> c, u |-> d, woke |-> e, chan |-> g])
  BY DEF IsCall
<1>4. a.chan \in Chans
  BY <1>1
<1> QED BY <1>1, <1>2, <1>3, <1>4

LEMMA StoppedIs ==
  ASSUME NEW a, IsCall(a), NEW s, NEW ops, NEW k, NEW st, NEW chan \in Chans
  PROVE  IsCall(Stopped(s, ops, k, a, st, chan))
<1>1. PICK val, u : val = semundo(s, ops, k, a.val, a.u).val /\ u = semundo(s, ops, k, a.val, a.u).u
  OBVIOUS
<1>2. PICK a1 : a1 = [a EXCEPT !.val = val]
  OBVIOUS
<1>3. PICK a2 : a2 = [a1 EXCEPT !.u = u]
  OBVIOUS
<1>4. PICK a3 : a3 = [a2 EXCEPT !.st = st]
  OBVIOUS
<1>5. PICK a4 : a4 = [a3 EXCEPT !.chan = chan]
  OBVIOUS
<1>6. IsCall(a1) /\ IsCall(a2) /\ IsCall(a3) /\ IsCall(a4)
  BY <1>2, <1>3, <1>4, <1>5, CallSet
<1>7. Stopped(s, ops, k, a, st, chan) = a4
  BY <1>1, <1>2, <1>3, <1>4, <1>5 DEF Stopped
<1> QED BY <1>6, <1>7

LEMMA OperationIs ==
  ASSUME NEW a, IsCall(a), NEW p, NEW s, NEW ops, NEW i, ops[i].num \in SemNums,
         NEW cnt, NEW fresh, NEW full
  PROVE  /\ IsCall(Decrement(p, s, ops, i, a, cnt, fresh, full))
         /\ IsCall(TestZero(p, s, ops, i, a))
         /\ IsCall(Increment(p, s, ops, i, a, cnt, fresh, full))
<1>0. <<ops[i].num, "n">> \in Chans /\ <<ops[i].num, "z">> \in Chans /\ a.chan \in Chans
  BY CallSet DEF Chans
<1>1. IsCall(Denied(a))
  BY CallSet DEF Denied
<1>2. IsCall(Blocked(s, ops, i, a, "n")) /\ IsCall(Blocked(s, ops, i, a, "z"))
  <2>1. PICK st, n, z : /\ st = (IF ops[i].nowait THEN "fail" ELSE "wait")
                        /\ n = <<ops[i].num, "n">> /\ z = <<ops[i].num, "z">>
    OBVIOUS
  <2>2. IsCall(Stopped(s, ops, i - 1, a, st, n)) /\ IsCall(Stopped(s, ops, i - 1, a, st, z))
    BY <1>0, <2>1, StoppedIs
  <2> QED BY <2>1, <2>2 DEF Blocked
<1>3. ASSUME NEW b, IsCall(b) PROVE IsCall(Stopped(s, ops, i - 1, b, "fail", a.chan))
  <2>1. PICK st, n : st = "fail" /\ n = a.chan
    OBVIOUS
  <2> QED BY <1>0, <1>3, <2>1, StoppedIs
<1>4. IsCall(Decrement(p, s, ops, i, a, cnt, fresh, full))
  <2>1. PICK o, r, val, woke :
          /\ o = ops[i] /\ r = iSubAdj(a.u, <<s, o.num>>, o.op, fresh, full)
          /\ val = [a.val EXCEPT ![o.num] = @ + o.op]
          /\ woke = IF val[o.num] = 0 THEN a.woke \cup Counted(cnt, {<<o.num, "z">>}) ELSE a.woke
    OBVIOUS
  <2>2. PICK b1 : b1 = [a EXCEPT !.val = val]
    OBVIOUS
  <2>3. PICK b2 : b2 = [b1 EXCEPT !.woke = woke]
    OBVIOUS
  <2>4. PICK b3 : b3 = [b2 EXCEPT !.u = r.u]
    OBVIOUS
  <2>5. IsCall(b1) /\ IsCall(b2) /\ IsCall(b3)
    BY <2>2, <2>3, <2>4, CallSet
  <2>6. b2 = [a EXCEPT !.val = val,
                       !.woke = IF val[o.num] = 0
                                THEN @ \cup Counted(cnt, {<<o.num, "z">>}) ELSE @]
    <3>1. PICK st, v, u, w, chan :
            a = [st |-> st, val |-> v, u |-> u, woke |-> w, chan |-> chan]
      BY DEF IsCall
    <3> QED BY <2>1, <2>2, <2>3, <3>1
  <2>7. Decrement(p, s, ops, i, a, cnt, fresh, full) \in
          {Denied(a), Blocked(s, ops, i, a, "n"), Stopped(s, ops, i - 1, b2, "fail", a.chan), b3, b2}
    BY <2>1, <2>4, <2>6 DEF Decrement
  <2> QED BY <1>1, <1>2, <1>3, <2>5, <2>7
<1>5. IsCall(TestZero(p, s, ops, i, a))
  BY <1>1, <1>2, <1>3 DEF TestZero
<1>6. IsCall(Increment(p, s, ops, i, a, cnt, fresh, full))
  <2>1. PICK o, r : o = ops[i] /\ r = iSubAdj(a.u, <<s, o.num>>, o.op, fresh, full)
    OBVIOUS
  <2>2. PICK b : b = IF o.undo THEN [a EXCEPT !.u = r.u] ELSE a
    OBVIOUS
  <2>3. IsCall(b)
    BY <2>2, CallSet
  <2>4. PICK c, d : /\ c = Stopped(s, ops, i - 1, b, "fail", a.chan)
                    /\ d = [c EXCEPT !.u = UnAdj(c.u, s, o)]
    OBVIOUS
  <2>5. IsCall(c) /\ IsCall(d)
    BY <1>3, <2>3, <2>4, CallSet
  <2>6. PICK val, woke, e, g :
          /\ val = [b.val EXCEPT ![o.num] = @ + o.op]
          /\ woke = b.woke \cup Counted(cnt, {<<o.num, "n">>})
          /\ e = [b EXCEPT !.val = val] /\ g = [e EXCEPT !.woke = woke]
    OBVIOUS
  <2>7. IsCall(e) /\ IsCall(g)
    BY <2>3, <2>6, CallSet
  <2>8. g = [b EXCEPT !.val[o.num] = @ + o.op,
                      !.woke = @ \cup Counted(cnt, {<<o.num, "n">>})]
    <3>1. PICK st, v, u, w, chan :
            b = [st |-> st, val |-> v, u |-> u, woke |-> w, chan |-> chan]
      BY <2>3 DEF IsCall
    <3> QED BY <2>6, <3>1
  <2>9. Increment(p, s, ops, i, a, cnt, fresh, full) \in
          {Denied(a), Stopped(s, ops, i - 1, a, "fail", a.chan), d, g}
    BY <2>1, <2>2, <2>4, <2>8 DEF Increment
  <2> QED BY <1>1, <1>3, <2>5, <2>7, <2>9
<1> QED BY <1>4, <1>5, <1>6

LEMMA SemStepIs ==
  ASSUME NEW p, NEW s, NEW ops, NEW cnt, NEW fresh, NEW full, NEW b, NEW i, IsCall(b)
  PROVE  IsCall(SemStep(p, s, ops, i, b, cnt, fresh, full))
<1>1. IsCall(Stopped(s, ops, i - 1, b, "fail", b.chan))
  <2>1. PICK st, c : st = "fail" /\ c = b.chan
    OBVIOUS
  <2>2. c \in Chans
    BY <2>1, CallSet
  <2> QED BY <2>1, <2>2, StoppedIs
<1>2. CASE b.st # "go"
  BY <1>2 DEF SemStep
<1>3. CASE b.st = "go" /\ ops[i].num \notin SemNums
  BY <1>1, <1>3 DEF SemStep
<1>4. CASE b.st = "go" /\ ops[i].num \in SemNums
  <2>1. SemStep(p, s, ops, i, b, cnt, fresh, full) \in
          {Decrement(p, s, ops, i, b, cnt, fresh, full), TestZero(p, s, ops, i, b),
           Increment(p, s, ops, i, b, cnt, fresh, full)}
    BY <1>4 DEF SemStep
  <2> QED BY <1>4, <2>1, OperationIs
<1> QED BY <1>2, <1>3, <1>4

IsTry(g, n, p, s, ops, cnt, fresh, full) ==
  g = [i \in 0 .. n |-> IF i = 0 THEN Going(semval[s], semu[p], {})
                        ELSE SemStep(p, s, ops, i, g[i - 1], cnt, fresh, full)]

LEMMA TryExists ==
  ASSUME NEW N \in Nat, NEW p, NEW s, NEW ops, NEW cnt, NEW fresh, NEW full
  PROVE  \E g : IsTry(g, N, p, s, ops, cnt, fresh, full)
<1> DEFINE base == Going(semval[s], semu[p], {})
           Step(b, i) == SemStep(p, s, ops, i, b, cnt, fresh, full)
           Has(n) == \E g : g = [i \in 0 .. n |-> IF i = 0 THEN base ELSE Step(g[i - 1], i)]
           G == {n \in 0 .. N : Has(n)}
<1>1. 0 \in G
  <2>1. PICK g : g = [i \in 0 .. 0 |-> base]
    OBVIOUS
  <2> HIDE DEF base, Step
  <2>2. g = [i \in 0 .. 0 |-> IF i = 0 THEN base ELSE Step(g[i - 1], i)]
    BY <2>1
  <2> QED BY <2>2
<1>2. ASSUME NEW n \in 1 .. N, n - 1 \in G PROVE n \in G
  <2> HIDE DEF base, Step
  <2>1. PICK g0 : g0 = [i \in 0 .. n - 1 |-> IF i = 0 THEN base ELSE Step(g0[i - 1], i)]
    BY <1>2
  <2>2. PICK last : last = Step(g0[n - 1], n)
    OBVIOUS
  <2>3. PICK g : g = [i \in 0 .. n |-> IF i = n THEN last ELSE g0[i]]
    OBVIOUS
  <2>4. ASSUME NEW i \in 0 .. n PROVE g[i] = IF i = 0 THEN base ELSE Step(g[i - 1], i)
    <3>1. CASE i = n
      <4>1. g[n] = last /\ n - 1 \in 0 .. n /\ n - 1 # n /\ n # 0
        BY <2>3
      <4>2. g[n - 1] = g0[n - 1]
        BY <2>3, <4>1
      <4> QED BY <2>2, <3>1, <4>1, <4>2
    <3>2. CASE i # n
      <4>1. i \in 0 .. n - 1 /\ g[i] = g0[i]
        BY <2>3, <3>2
      <4>2. g0[i] = IF i = 0 THEN base ELSE Step(g0[i - 1], i)
        BY <2>1, <4>1
      <4>3. i # 0 => g[i - 1] = g0[i - 1]
        BY <2>3, <3>2
      <4> QED BY <4>1, <4>2, <4>3
    <3> QED BY <3>1, <3>2
  <2>5. g = [i \in 0 .. n |-> g[i]]
    BY <2>3
  <2>6. g = [i \in 0 .. n |-> IF i = 0 THEN base ELSE Step(g[i - 1], i)]
    <3> HIDE <2>3
    <3> QED BY <2>4, <2>5
  <2>7. n \in 0 .. N
    OBVIOUS
  <2> QED BY <2>6, <2>7
<1>3. N \in G
  <2> HIDE DEF G
  <2>1. \A n \in 0 .. N : n \in G
    BY <1>1, <1>2, Upwards
  <2> QED BY <2>1
<1> QED BY <1>3 DEF IsTry

\* Whatever usemop sleeps on is a channel.
LEMMA TryIs ==
  ASSUME NEW p, NEW s, NEW ops \in SemArrays, NEW cnt, NEW fresh, NEW full
  PROVE  SemTry(p, s, ops, cnt, fresh, full).chan \in Chans
<1> DEFINE N == Len(ops)
           Is(h) == IsTry(h, N, p, s, ops, cnt, fresh, full)
<1>0. N \in Nat
  BY SemArrayIs
<1>1. PICK g : g = CHOOSE h : Is(h)
  OBVIOUS
<1>2. Is(g)
  <2>1. \E h : Is(h)
    <3> HIDE DEF N
    <3> QED BY <1>0, TryExists
  <2> HIDE DEF Is
  <2> QED BY <1>1, <2>1
<1>3. SemTry(p, s, ops, cnt, fresh, full) = g[N]
  BY <1>1 DEF SemTry, IsTry, SemStep
<1> HIDE DEF N
<1>4. /\ g[0] = Going(semval[s], semu[p], {})
      /\ \A i \in 1 .. N : g[i] = SemStep(p, s, ops, i, g[i - 1], cnt, fresh, full)
  <2>1. 0 \in 0 .. N /\ \A i \in 1 .. N : i \in 0 .. N /\ i # 0
    BY <1>0
  <2> QED BY <1>2, <2>1 DEF IsTry
<1> DEFINE G == {i \in 0 .. N : IsCall(g[i])}
<1>5. 0 \in G
  <2>1. <<0, "n">> \in Chans
    BY FirstChan
  <2>2. IsCall(Going(semval[s], semu[p], {}))
    <3>1. PICK st, val, u, woke, chan : /\ st = "go" /\ val = semval[s] /\ u = semu[p] /\ woke = {}
                                        /\ chan = <<0, "n">>
      OBVIOUS
    <3>2. Going(semval[s], semu[p], {}) = [st |-> st, val |-> val, u |-> u, woke |-> woke, chan |-> chan]
      BY <3>1 DEF Going
    <3> QED BY <2>1, <3>1, <3>2 DEF IsCall
  <2> QED BY <1>0, <1>4, <2>2
<1>6. ASSUME NEW i \in 1 .. N, i - 1 \in G PROVE i \in G
  <2>1. PICK b : b = g[i - 1]
    OBVIOUS
  <2>2. IsCall(SemStep(p, s, ops, i, b, cnt, fresh, full))
    BY <1>6, <2>1, SemStepIs
  <2> QED BY <1>0, <1>4, <2>1, <2>2
<1>7. N \in G
  <2> HIDE DEF G
  <2>1. \A i \in 0 .. N : i \in G
    BY <1>0, <1>5, <1>6, Upwards
  <2> QED BY <1>0, <2>1
<1> QED BY <1>3, <1>7, CallSet

----------------------------------------------------------------------------
SemTypes ==
  /\ semAlloc \in [SemSets -> BOOLEAN] /\ semGen \in [SemSets -> Nat]
  /\ semcnt \in [SemSets -> [Chans -> Nat]]
  /\ semPc \in [SemProcs -> {"run", "sleep", "woken", "intr"}]
  /\ semArg \in [SemProcs -> [set : SemSets \cup {0}, gen : Nat, ops : SemArrays, chan : Chans]]
  /\ \A s \in SemSets : semAlloc[s] => 1 <= semGen[s]

\* Who is inside semwait is there for a set that was created, perhaps again.
SemInside ==
  \A p \in SemProcs : semPc[p] # "run" =>
    semArg[p].set \in SemSets /\ semArg[p].gen \in 1 .. semGen[semArg[p].set]

\* The counts and the wakeups of the sets whose identifier was used once.
SemCounted ==
  \A s \in SemSets : semAlloc[s] /\ semGen[s] <= 1 =>
    \A c \in Chans : semcnt[s][c] = Cardinality(Sleepers(s, c))
SemAwake ==
  \A p \in SemProcs : semPc[p] = "sleep" /\ semGen[semArg[p].set] <= 1 =>
    semAlloc[semArg[p].set]

SemInv == SemTypes /\ SemInside /\ SemCounted /\ SemAwake

\* One generation: all who are inside semwait for s count.
LEMMA OneGeneration ==
  SemTypes /\ SemInside =>
    \A s \in SemSets, c \in Chans : semGen[s] <= 1 =>
      Sleepers(s, c) = {p \in SemProcs : semPc[p] # "run" /\ semArg[p].set = s
                                         /\ semArg[p].chan = c}
<1> SUFFICES ASSUME SemTypes, SemInside, NEW s \in SemSets, NEW c \in Chans, semGen[s] <= 1,
                    NEW p \in SemProcs, semPc[p] # "run", semArg[p].set = s
             PROVE  semArg[p].gen = semGen[s]
  BY DEF Sleepers
<1>1. semGen[s] \in Nat /\ semArg[p].gen \in 1 .. semGen[s]
  BY DEF SemTypes, SemInside
<1> QED BY <1>1

\* The width of a ushort, and values that have that width.
LEMMA UshortIs == USHORT \in Nat /\ 32768 < USHORT
BY DEF USHORT

LEMMA UshortSame == \A y \in Nat : y < USHORT => y % USHORT = y
<1> SUFFICES ASSUME NEW y \in Nat, y < USHORT
             PROVE  y % USHORT = y
  OBVIOUS
<1>1. USHORT = 65536
  BY DEF USHORT
<1>2. 0 <= y /\ y < 65536
  BY <1>1
<1>3. y % 65536 = y
  BY <1>2
<1> QED BY <1>1, <1>3

\* A ushort is in range.
LEMMA FoldIs ==
  ASSUME NEW x \in Int
  PROVE  x % USHORT \in 0 .. USHORT - 1
<1>1. PICK y : y = x % USHORT
  OBVIOUS
<1>2. y \in Int /\ 0 <= y /\ y < USHORT
  BY <1>1 DEF USHORT
<1>3. y \in 0 .. USHORT - 1
  BY <1>2, UshortIs
<1> QED BY <1>1, <1>3

LEMMA SleepersFinite ==
  ASSUME NEW s, NEW c
  PROVE  IsFiniteSet(Sleepers(s, c)) /\ Cardinality(Sleepers(s, c)) \in 0 .. USHORT - 1
<1>1. Sleepers(s, c) \subseteq SemProcs
  BY DEF Sleepers
<1>2. /\ IsFiniteSet(Sleepers(s, c)) /\ Cardinality(Sleepers(s, c)) <= Cardinality(SemProcs)
      /\ Cardinality(Sleepers(s, c)) \in Nat /\ Cardinality(SemProcs) \in Nat
  BY <1>1, SemAssumption, FS_Subset, FS_CardinalityType
<1>3. PICK x, y : x = Cardinality(Sleepers(s, c)) /\ y = Cardinality(SemProcs)
  OBVIOUS
<1>4. x \in Nat /\ y \in Nat /\ x <= y /\ y < USHORT
  BY <1>2, <1>3, SemAssumption
<1>5. x \in 0 .. USHORT - 1
  <2>1. USHORT \in Nat
    BY UshortIs
  <2> QED BY <1>4, <2>1
<1> QED BY <1>2, <1>3, <1>5

\* wakeup changes nothing but who sleeps.
LEMMA SemWokenIs ==
  SemTypes => \A s, chans :
    /\ SemWoken(s, chans, semPc) \in [SemProcs -> {"run", "sleep", "woken", "intr"}]
    /\ \A q \in SemProcs :
         /\ SemWoken(s, chans, semPc)[q] = "run" <=> semPc[q] = "run"
         /\ SemWoken(s, chans, semPc)[q] = "sleep" =>
              semPc[q] = "sleep" /\ ~ (/\ semArg[q].set = s /\ semArg[q].gen = semGen[s]
                                       /\ semArg[q].chan \in chans)
<1> SUFFICES ASSUME SemTypes, NEW s, NEW chans
             PROVE  /\ SemWoken(s, chans, semPc) \in [SemProcs -> {"run", "sleep", "woken", "intr"}]
                    /\ \A q \in SemProcs :
                         /\ SemWoken(s, chans, semPc)[q] = "run" <=> semPc[q] = "run"
                         /\ SemWoken(s, chans, semPc)[q] = "sleep" =>
                              semPc[q] = "sleep"
                              /\ ~ (/\ semArg[q].set = s /\ semArg[q].gen = semGen[s]
                                    /\ semArg[q].chan \in chans)
  OBVIOUS
<1>1. \A q \in SemProcs : semPc[q] \in {"run", "sleep", "woken", "intr"}
  BY DEF SemTypes
<1> QED BY <1>1 DEF SemWoken

\* A step after which the same processes are inside semwait.
SameInside ==
  /\ \A q \in SemProcs : semPc'[q] = "run" <=> semPc[q] = "run"
  /\ UNCHANGED <<semGen, semArg>>

LEMMA SameSleepers ==
  ASSUME SameInside, NEW s, NEW c
  PROVE  Sleepers(s, c)' = Sleepers(s, c)
BY DEF SameInside, Sleepers

LEMMA SemInitInv == SemInit => SemInv
<1> SUFFICES ASSUME SemInit PROVE SemInv
  OBVIOUS
<1>1. <<0, "n">> \in Chans
  BY FirstChan
<1>2. NoArg \in [set : SemSets \cup {0}, gen : Nat, ops : SemArrays, chan : Chans]
  BY <1>1 DEF NoArg, SemArrays
<1>3. SemTypes
  BY <1>2 DEF SemInit, SemTypes
<1> QED BY <1>3 DEF SemInv, SemInit, SemInside, SemCounted, SemAwake

\* The counts that one pass of usemop starts from: p itself is not counted.
Uncounted(p, s, cnt) ==
  /\ cnt \in [Chans -> Nat]
  /\ semGen[s] <= 1 => \A c \in Chans : cnt[c] = Cardinality(Sleepers(s, c) \ {p})

LEMMA AttemptKeeps ==
  ASSUME SemInv, NEW p \in SemProcs, NEW s \in SemSets, NEW ops \in SemArrays, NEW cnt,
         semAlloc[s], semPc[p] # "run" => semArg[p].set = s,
         Uncounted(p, s, cnt), Attempt(p, s, ops, cnt)
  PROVE  SemInv'
<1>1. PICK fresh \in SemFresh, full \in SemFull :
        LET r == SemTry(p, s, ops, cnt, fresh, full) IN
        /\ semPc' = [SemWoken(s, r.woke, semPc) EXCEPT ![p] = IF r.st = "wait" THEN "sleep" ELSE "run"]
        /\ semcnt' = [semcnt EXCEPT ![s] = IF r.st = "wait" THEN [cnt EXCEPT ![r.chan] = @ + 1] ELSE cnt]
        /\ semArg' = [semArg EXCEPT ![p] =
                        IF r.st = "wait"
                        THEN [set |-> s, gen |-> semGen[s], ops |-> ops, chan |-> r.chan]
                        ELSE NoArg]
        /\ UNCHANGED <<semAlloc, semGen>>
  BY DEF Attempt
<1>2. PICK wait, chan, woke :
        /\ wait = (SemTry(p, s, ops, cnt, fresh, full).st = "wait") /\ wait \in BOOLEAN
        /\ chan = SemTry(p, s, ops, cnt, fresh, full).chan
        /\ woke = SemTry(p, s, ops, cnt, fresh, full).woke
  OBVIOUS
<1>3. chan \in Chans
  BY <1>2, TryIs
<1>4. PICK pcs, arg :
        /\ pcs = SemWoken(s, woke, semPc)
        /\ arg = [set |-> s, gen |-> semGen[s], ops |-> ops, chan |-> chan]
  OBVIOUS
<1>5. /\ semPc' = [pcs EXCEPT ![p] = IF wait THEN "sleep" ELSE "run"]
      /\ semcnt' = [semcnt EXCEPT ![s] = IF wait THEN [cnt EXCEPT ![chan] = @ + 1] ELSE cnt]
      /\ semArg' = [semArg EXCEPT ![p] = IF wait THEN arg ELSE NoArg]
      /\ semAlloc' = semAlloc /\ semGen' = semGen
  BY <1>1, <1>2, <1>4
<1>6. /\ SemTypes /\ SemInside /\ SemCounted /\ SemAwake
  BY DEF SemInv
<1>7. /\ semGen[s] \in Nat /\ 1 <= semGen[s]
      /\ arg \in [set : SemSets \cup {0}, gen : Nat, ops : SemArrays, chan : Chans]
      /\ arg.set = s /\ arg.gen = semGen[s] /\ arg.chan = chan
      /\ NoArg \in [set : SemSets \cup {0}, gen : Nat, ops : SemArrays, chan : Chans]
  <2>1. <<0, "n">> \in Chans
    BY FirstChan
  <2> QED BY <1>3, <1>4, <1>6, <2>1 DEF SemTypes, NoArg, SemArrays
<1>8. /\ pcs \in [SemProcs -> {"run", "sleep", "woken", "intr"}]
      /\ \A q \in SemProcs : /\ pcs[q] = "run" <=> semPc[q] = "run"
                             /\ pcs[q] = "sleep" => semPc[q] = "sleep"
  BY <1>4, <1>6, SemWokenIs
<1>9. cnt \in [Chans -> Nat]
  BY DEF Uncounted
<1>10. PICK cnt2 : cnt2 = (IF wait THEN [cnt EXCEPT ![chan] = @ + 1] ELSE cnt)
  OBVIOUS
<1>11. cnt2 \in [Chans -> Nat] /\ \A c \in Chans : cnt2[c] = IF wait /\ c = chan THEN cnt[c] + 1 ELSE cnt[c]
  BY <1>3, <1>9, <1>10
<1>12. semcnt' = [semcnt EXCEPT ![s] = cnt2]
  BY <1>5, <1>10
<1>13. SemTypes'
  <2>1. semcnt' \in [SemSets -> [Chans -> Nat]]
    BY <1>6, <1>11, <1>12 DEF SemTypes
  <2>2. semPc' \in [SemProcs -> {"run", "sleep", "woken", "intr"}]
    BY <1>5, <1>8
  <2>3. semArg' \in [SemProcs -> [set : SemSets \cup {0}, gen : Nat, ops : SemArrays, chan : Chans]]
    <3>1. PICK A : A = [set : SemSets \cup {0}, gen : Nat, ops : SemArrays, chan : Chans]
      OBVIOUS
    <3>2. semArg \in [SemProcs -> A] /\ arg \in A /\ NoArg \in A
      BY <1>6, <1>7, <3>1 DEF SemTypes
    <3>3. semArg' \in [SemProcs -> A]
      BY <1>5, <3>2
    <3> QED BY <3>1, <3>3
  <2> QED BY <1>5, <1>6, <2>1, <2>2, <2>3 DEF SemTypes
<1>14. /\ \A q \in SemProcs : q # p => semPc'[q] = pcs[q] /\ semArg'[q] = semArg[q]
       /\ semPc'[p] = (IF wait THEN "sleep" ELSE "run")
       /\ wait => semArg'[p] = arg
  BY <1>5, <1>6, <1>8 DEF SemTypes
<1>15. SemInside'
  <2> SUFFICES ASSUME NEW q \in SemProcs, semPc'[q] # "run"
               PROVE  semArg'[q].set \in SemSets
                      /\ semArg'[q].gen \in 1 .. semGen[semArg'[q].set]
    BY <1>5 DEF SemInside
  <2>1. CASE q = p
    <3>1. semArg'[q] = arg
      BY <1>14, <2>1
    <3> QED BY <1>7, <3>1
  <2>2. CASE q # p
    BY <1>6, <1>8, <1>14, <2>2 DEF SemInside
  <2> QED BY <2>1, <2>2
<1>16. SemAwake'
  BY <1>5, <1>6, <1>7, <1>8, <1>14 DEF SemAwake
<1>17. ASSUME NEW z \in SemSets, NEW c \in Chans
       PROVE  /\ Sleepers(z, c)' \ {p} = Sleepers(z, c) \ {p}
              /\ p \in Sleepers(z, c)' <=> wait /\ z = s /\ c = chan
              /\ z # s => p \notin Sleepers(z, c)
  <2>1. Sleepers(z, c)' = {q \in SemProcs : /\ semPc'[q] # "run" /\ semArg'[q].set = z
                                            /\ semArg'[q].gen = semGen[z] /\ semArg'[q].chan = c}
    BY <1>5 DEF Sleepers
  <2>2. \A q \in SemProcs : q # p => (semPc'[q] = "run" <=> semPc[q] = "run")
    BY <1>8, <1>14
  <2>3. Sleepers(z, c)' \ {p} = Sleepers(z, c) \ {p}
    BY <1>14, <2>1, <2>2 DEF Sleepers
  <2>4. p \in Sleepers(z, c)' <=> wait /\ z = s /\ c = chan
    BY <1>7, <1>14, <2>1
  <2>5. z # s => p \notin Sleepers(z, c)
    BY DEF Sleepers
  <2> QED BY <2>3, <2>4, <2>5
<1>18. SemCounted'
  <2> SUFFICES ASSUME NEW z \in SemSets, semAlloc[z], semGen[z] <= 1, NEW c \in Chans
               PROVE  semcnt'[z][c] = Cardinality(Sleepers(z, c)')
    BY <1>5 DEF SemCounted
  <2>1. PICK S : S = Sleepers(z, c)'
    OBVIOUS
  <2>2. CASE z # s
    <3>1. Sleepers(z, c)' = Sleepers(z, c)
      <4>1. /\ S \ {p} = Sleepers(z, c) \ {p}
            /\ p \notin S /\ p \notin Sleepers(z, c)
        BY <1>17, <2>1, <2>2
      <4> QED BY <2>1, <4>1
    <3>2. semcnt'[z] = semcnt[z]
      BY <1>6, <1>12, <2>2 DEF SemTypes
    <3> QED BY <1>6, <3>1, <3>2 DEF SemCounted
  <2>3. CASE z = s
    <3>1. cnt[c] = Cardinality(Sleepers(s, c) \ {p}) /\ semcnt'[z] = cnt2
      BY <1>6, <1>12, <2>3 DEF SemTypes, Uncounted
    <3>2. Sleepers(s, c) \ {p} = S \ {p} /\ IsFiniteSet(S \ {p})
      <4>1. IsFiniteSet(Sleepers(s, c) \ {p})
        BY SleepersFinite, FS_Subset
      <4> QED BY <1>17, <2>1, <2>3, <4>1
    <3>3. CASE p \in S
      <4>1. wait /\ c = chan
        BY <1>17, <2>1, <3>3
      <4>2. S = (S \ {p}) \cup {p}
        BY <3>3
      <4>3. Cardinality(S) = Cardinality(S \ {p}) + 1
        BY <3>2, <4>2, FS_AddElement
      <4> QED BY <1>11, <2>1, <2>3, <3>1, <3>2, <4>1, <4>3
    <3>4. CASE p \notin S
      <4>1. ~ (wait /\ c = chan)
        BY <1>17, <2>1, <2>3, <3>4
      <4>2. S = S \ {p}
        BY <3>4
      <4> QED BY <1>11, <2>1, <2>3, <3>1, <3>2, <4>1, <4>2
    <3> QED BY <3>3, <3>4
  <2> QED BY <2>2, <2>3
<1> QED BY <1>13, <1>15, <1>16, <1>18 DEF SemInv

----------------------------------------------------------------------------
LEMMA SemUsemop ==
  ASSUME SemInv, NEW p \in SemProcs, usemop(p)
  PROVE  SemInv'
<1>1. PICK s \in SemSets, ops \in SemOps : semAlloc[s] /\ Attempt(p, s, ops, semcnt[s])
  BY DEF usemop
<1>2. SemTypes /\ SemCounted /\ semPc[p] = "run"
  BY DEF SemInv, usemop
<1>3. PICK cnt : cnt = semcnt[s]
  OBVIOUS
<1>4. Uncounted(p, s, cnt)
  <2>1. \A c \in Chans : Sleepers(s, c) \ {p} = Sleepers(s, c)
    BY <1>2 DEF Sleepers
  <2> QED BY <1>1, <1>2, <1>3, <2>1 DEF Uncounted, SemTypes, SemCounted
<1>5. ops \in SemArrays
  BY DEF SemArrays
<1>6. Attempt(p, s, ops, cnt) /\ semAlloc[s] /\ (semPc[p] # "run" => semArg[p].set = s)
  BY <1>1, <1>2, <1>3
<1> QED BY <1>4, <1>5, <1>6, AttemptKeeps

\* What semwait lowers when it returns to a set that was made once.
LEMMA LoweredIs ==
  ASSUME SemInv, NEW p \in SemProcs, semPc[p] # "run", NEW s, s = semArg[p].set, semAlloc[s]
  PROVE  s \in SemSets /\ Uncounted(p, s, Lowered(p, s))
<1>1. SemTypes /\ SemInside /\ SemCounted
  BY DEF SemInv
<1>2. PICK chan : chan = semArg[p].chan
  OBVIOUS
<1>3. s \in SemSets /\ chan \in Chans /\ semcnt[s] \in [Chans -> Nat]
  BY <1>1, <1>2 DEF SemInside, SemTypes
<1>4. PICK cnt : cnt = semcnt[s]
  OBVIOUS
<1>5. Lowered(p, s) = [cnt EXCEPT ![chan] = (cnt[chan] - 1) % USHORT]
  BY <1>2, <1>3, <1>4 DEF Lowered
<1>6. cnt \in [Chans -> Nat]
  BY <1>3, <1>4
<1>7. (cnt[chan] - 1) % USHORT \in Nat
  <2>1. PICK x : x = cnt[chan] - 1
    OBVIOUS
  <2>2. x \in Int
    BY <1>3, <1>6, <2>1
  <2>3. x % USHORT \in Nat
    BY <2>2 DEF USHORT
  <2> QED BY <2>1, <2>3
<1>8. Lowered(p, s) \in [Chans -> Nat]
  BY <1>5, <1>6, <1>7
<1>9. ASSUME semGen[s] <= 1, NEW c \in Chans
      PROVE  Lowered(p, s)[c] = Cardinality(Sleepers(s, c) \ {p})
  <2>1. PICK S : S = Sleepers(s, c)
    OBVIOUS
  <2>2. cnt[c] = Cardinality(S) /\ IsFiniteSet(S) /\ Cardinality(S) \in 0 .. USHORT - 1
    BY <1>1, <1>3, <1>4, <1>9, <2>1, SleepersFinite DEF SemCounted
  <2>3. p \in S <=> c = chan
    BY <1>1, <1>2, <1>3, <1>9, <2>1, OneGeneration
  <2>4. CASE c # chan
    <3>1. S \ {p} = S
      BY <2>3, <2>4
    <3> QED BY <1>5, <1>6, <2>1, <2>2, <2>4, <3>1
  <2>5. CASE c = chan
    <3>1. PICK x, y : x = Cardinality(S) /\ y = Cardinality(S \ {p})
      OBVIOUS
    <3>2. y \in Nat /\ x = y + 1
      BY <2>2, <2>3, <2>5, <3>1, Smaller
    <3>3. x \in 1 .. USHORT - 1
      BY <2>2, <3>1, <3>2
    <3>4. (x - 1) % USHORT = y
      <4>1. USHORT \in Nat
        BY UshortIs
      <4>2. x - 1 = y /\ y < USHORT
        BY <3>2, <3>3, <4>1
      <4> QED BY <3>2, <4>2, UshortSame
    <3> QED BY <1>3, <1>5, <1>6, <2>1, <2>2, <2>5, <3>1, <3>4
  <2> QED BY <2>4, <2>5
<1> QED BY <1>3, <1>8, <1>9 DEF Uncounted

LEMMA SemRetry ==
  ASSUME SemInv, NEW p \in SemProcs, semwaitRetry(p)
  PROVE  SemInv'
<1>1. PICK s, ops : s = semArg[p].set /\ ops = semArg[p].ops
  OBVIOUS
<1>2. /\ semPc[p] = "woken" /\ semAlloc[s]
      /\ \/ Attempt(p, s, ops, Lowered(p, s))
         \/ semArg[p].gen # semGen[s] /\ Attempt(p, s, ops, semcnt[s])
  BY <1>1 DEF semwaitRetry
<1>3. s \in SemSets /\ ops \in SemArrays /\ Uncounted(p, s, Lowered(p, s))
      /\ semcnt[s] \in [Chans -> Nat]
  BY <1>1, <1>2, LoweredIs DEF SemInv, SemTypes
<1>4. CASE Attempt(p, s, ops, Lowered(p, s))
  <2>1. PICK cnt : cnt = Lowered(p, s)
    OBVIOUS
  <2> QED BY <1>1, <1>2, <1>3, <1>4, <2>1, AttemptKeeps
<1>5. CASE semArg[p].gen # semGen[s] /\ Attempt(p, s, ops, semcnt[s])
  <2>1. PICK cnt : cnt = semcnt[s]
    OBVIOUS
  <2>2. ~ (semGen[s] <= 1)
    <3>1. semGen[s] \in Nat /\ semArg[p].gen \in 1 .. semGen[s]
      BY <1>1, <1>2, <1>3 DEF SemInv, SemTypes, SemInside
    <3> QED BY <1>5, <3>1
  <2>3. Uncounted(p, s, cnt)
    BY <1>3, <2>1, <2>2 DEF Uncounted
  <2> QED BY <1>1, <1>2, <1>3, <1>5, <2>1, <2>3, AttemptKeeps
<1> QED BY <1>2, <1>4, <1>5

\* A step that takes nobody into semwait or out of it and lets nobody sleep.
LEMMA SemQuiet ==
  ASSUME SemInv, SameInside, UNCHANGED semcnt,
         semPc' \in [SemProcs -> {"run", "sleep", "woken", "intr"}],
         semAlloc' \in [SemSets -> BOOLEAN],
         \A s \in SemSets : semAlloc'[s] => semAlloc[s],
         \A q \in SemProcs : semPc'[q] = "sleep" =>
            semPc[q] = "sleep" /\ (semGen[semArg[q].set] <= 1 => semAlloc'[semArg[q].set])
  PROVE  SemInv'
<1>1. SemTypes /\ SemInside /\ SemCounted /\ SemAwake
  BY DEF SemInv
<1>2. SemTypes' /\ SemInside' /\ SemAwake'
  BY <1>1 DEF SemTypes, SemInside, SemAwake, SameInside
<1>3. SemCounted'
  <2>1. \A s \in SemSets, c \in Chans : Sleepers(s, c)' = Sleepers(s, c)
    BY SameSleepers
  <2> QED BY <1>1, <2>1 DEF SemCounted, SameInside
<1> QED BY <1>2, <1>3 DEF SemInv

\* p leaves semwait, and the count of the set it was in is right.
LEMMA SemReturns ==
  ASSUME SemInv, NEW p \in SemProcs, semPc[p] # "run", Returns(p),
         semcnt' \in [SemSets -> [Chans -> Nat]],
         \A s \in SemSets, c \in Chans :
            semAlloc[s] /\ semGen[s] <= 1 =>
              semcnt'[s][c] = Cardinality(Sleepers(s, c) \ {p})
  PROVE  SemInv'
<1>1. /\ SemTypes /\ SemInside /\ SemCounted /\ SemAwake
      /\ semPc' = [semPc EXCEPT ![p] = "run"] /\ semArg' = [semArg EXCEPT ![p] = NoArg]
      /\ semAlloc' = semAlloc /\ semGen' = semGen
  BY DEF SemInv, Returns
<1>2. NoArg \in [set : SemSets \cup {0}, gen : Nat, ops : SemArrays, chan : Chans]
  <2>1. <<0, "n">> \in Chans
    BY FirstChan
  <2> QED BY <2>1 DEF NoArg, SemArrays
<1>3. SemTypes'
  <2>1. PICK A : A = [set : SemSets \cup {0}, gen : Nat, ops : SemArrays, chan : Chans]
    OBVIOUS
  <2>2. semArg \in [SemProcs -> A] /\ NoArg \in A
    BY <1>1, <1>2, <2>1 DEF SemTypes
  <2>3. semArg' \in [SemProcs -> A]
    BY <1>1, <2>2
  <2>4. semPc' \in [SemProcs -> {"run", "sleep", "woken", "intr"}]
    BY <1>1 DEF SemTypes
  <2> QED BY <1>1, <2>1, <2>3, <2>4 DEF SemTypes
<1>4. /\ \A q \in SemProcs : q # p => semPc'[q] = semPc[q] /\ semArg'[q] = semArg[q]
      /\ semPc'[p] = "run"
  BY <1>1 DEF SemTypes
<1>5. SemInside' /\ SemAwake'
  BY <1>1, <1>4 DEF SemInside, SemAwake
<1>6. SemCounted'
  <2>1. \A s \in SemSets, c \in Chans : Sleepers(s, c)' = Sleepers(s, c) \ {p}
    BY <1>1, <1>4 DEF Sleepers
  <2> QED BY <1>1, <2>1 DEF SemCounted
<1> QED BY <1>3, <1>5, <1>6 DEF SemInv

\* The counts of the other sets do not know p.
LEMMA OtherSets ==
  ASSUME SemInv, NEW p \in SemProcs, NEW s \in SemSets, semAlloc[s], semGen[s] <= 1,
         semArg[p].set # s, NEW c \in Chans
  PROVE  semcnt[s][c] = Cardinality(Sleepers(s, c) \ {p})
<1>1. Sleepers(s, c) \ {p} = Sleepers(s, c)
  BY DEF Sleepers
<1> QED BY <1>1 DEF SemInv, SemCounted

LEMMA SemGone ==
  ASSUME SemInv, NEW p \in SemProcs, semwaitGone(p)
  PROVE  SemInv'
<1>1. semPc[p] # "run" /\ ~ semAlloc[semArg[p].set] /\ Returns(p) /\ semcnt' = semcnt
  BY DEF semwaitGone
<1>2. semcnt' \in [SemSets -> [Chans -> Nat]]
  BY <1>1 DEF SemInv, SemTypes
<1>3. \A s \in SemSets, c \in Chans :
        semAlloc[s] /\ semGen[s] <= 1 => semcnt'[s][c] = Cardinality(Sleepers(s, c) \ {p})
  BY <1>1, OtherSets
<1> QED BY <1>1, <1>2, <1>3, SemReturns

LEMMA SemIntr ==
  ASSUME SemInv, NEW p \in SemProcs, semwaitIntr(p)
  PROVE  SemInv'
<1>1. PICK s : s = semArg[p].set
  OBVIOUS
<1>2. /\ semPc[p] = "intr" /\ semAlloc[s] /\ Returns(p)
      /\ \/ semcnt' = [semcnt EXCEPT ![s] = Lowered(p, s)]
         \/ semArg[p].gen # semGen[s] /\ semcnt' = semcnt
  BY <1>1 DEF semwaitIntr
<1>3. s \in SemSets /\ Uncounted(p, s, Lowered(p, s))
  BY <1>1, <1>2, LoweredIs
<1>4. semcnt \in [SemSets -> [Chans -> Nat]] /\ semPc[p] # "run"
  BY <1>2 DEF SemInv, SemTypes
<1>5. CASE semcnt' = [semcnt EXCEPT ![s] = Lowered(p, s)]
  <2>1. PICK cnt : cnt = Lowered(p, s)
    OBVIOUS
  <2>2. semcnt' \in [SemSets -> [Chans -> Nat]]
    BY <1>3, <1>4, <1>5 DEF Uncounted
  <2>3. ASSUME NEW z \in SemSets, NEW c \in Chans, semAlloc[z], semGen[z] <= 1
        PROVE  semcnt'[z][c] = Cardinality(Sleepers(z, c) \ {p})
    <3>1. CASE z = s
      BY <1>3, <1>4, <1>5, <2>3, <3>1 DEF Uncounted
    <3>2. CASE z # s
      <4>1. semcnt'[z] = semcnt[z]
        BY <1>4, <1>5, <3>2
      <4>2. semcnt[z][c] = Cardinality(Sleepers(z, c) \ {p})
        BY <1>1, <2>3, <3>2, OtherSets
      <4> QED BY <4>1, <4>2
    <3> QED BY <3>1, <3>2
  <2> QED BY <1>2, <1>4, <2>2, <2>3, SemReturns
<1>6. CASE semArg[p].gen # semGen[s] /\ semcnt' = semcnt
  <2>1. ~ (semGen[s] <= 1)
    <3>1. semGen[s] \in Nat /\ semArg[p].gen \in 1 .. semGen[s]
      BY <1>1, <1>3, <1>4 DEF SemInv, SemTypes, SemInside
    <3> QED BY <1>6, <3>1
  <2>2. ASSUME NEW z \in SemSets, NEW c \in Chans, semAlloc[z], semGen[z] <= 1
        PROVE  semcnt'[z][c] = Cardinality(Sleepers(z, c) \ {p})
    <3>1. semArg[p].set # z
      BY <1>1, <2>1, <2>2
    <3> QED BY <1>6, <2>2, <3>1, OtherSets
  <2> QED BY <1>2, <1>4, <1>6, <2>2, SemReturns
<1> QED BY <1>2, <1>5, <1>6

LEMMA SemGet ==
  ASSUME SemInv, NEW p \in SemProcs, NEW s \in SemSets, usemget(p, s)
  PROVE  SemInv'
<1>1. /\ SemTypes /\ SemInside /\ SemCounted /\ SemAwake
      /\ ~ semAlloc[s] /\ semAlloc' = [semAlloc EXCEPT ![s] = TRUE]
      /\ semGen' = [semGen EXCEPT ![s] = @ + 1]
      /\ semcnt' = [semcnt EXCEPT ![s] = [c \in Chans |-> 0]]
      /\ semPc' = semPc /\ semArg' = semArg
  BY DEF SemInv, usemget
<1>2. /\ semGen[s] \in Nat /\ semGen'[s] = semGen[s] + 1 /\ semAlloc'[s]
      /\ \A z \in SemSets : z # s => /\ semGen'[z] = semGen[z] /\ semAlloc'[z] = semAlloc[z]
                                     /\ semcnt'[z] = semcnt[z]
      /\ \A c \in Chans : semcnt'[s][c] = 0
      /\ \A z \in SemSets : semGen[z] \in Nat
  BY <1>1 DEF SemTypes
<1>3. SemTypes'
  BY <1>1, <1>2 DEF SemTypes
<1>4. SemInside'
  <2> SUFFICES ASSUME NEW q \in SemProcs, semPc[q] # "run"
               PROVE  semArg[q].set \in SemSets
                      /\ semArg[q].gen \in 1 .. semGen'[semArg[q].set]
    BY <1>1 DEF SemInside
  <2>1. PICK z, g : z = semArg[q].set /\ g = semArg[q].gen
    OBVIOUS
  <2>2. z \in SemSets /\ g \in 1 .. semGen[z]
    BY <1>1, <2>1 DEF SemInside
  <2>3. g \in 1 .. semGen'[z]
    BY <1>2, <2>2
  <2> QED BY <2>1, <2>2, <2>3
<1>5. SemAwake'
  <2> SUFFICES ASSUME NEW q \in SemProcs, semPc[q] = "sleep", semGen'[semArg[q].set] <= 1
               PROVE  semAlloc'[semArg[q].set]
    BY <1>1 DEF SemAwake
  <2>1. semArg[q].set \in SemSets
    BY <1>1 DEF SemInside
  <2> QED BY <1>1, <1>2, <2>1 DEF SemAwake
<1>6. SemCounted'
  <2> SUFFICES ASSUME NEW z \in SemSets, semAlloc'[z], semGen'[z] <= 1, NEW c \in Chans
               PROVE  semcnt'[z][c] = Cardinality(Sleepers(z, c)')
    BY DEF SemCounted
  <2>1. CASE z # s
    <3>1. Sleepers(z, c)' = Sleepers(z, c)
      BY <1>1, <1>2, <2>1 DEF Sleepers
    <3> QED BY <1>1, <1>2, <2>1, <3>1 DEF SemCounted
  <2>2. CASE z = s
    <3>1. semGen[s] = 0 /\ semGen'[s] = 1
      BY <1>2, <2>2
    <3>2. ASSUME NEW q \in SemProcs, semPc[q] # "run" PROVE semArg[q].set # s
      <4>1. semArg[q].gen \in 1 .. semGen[semArg[q].set]
        BY <1>1, <3>2 DEF SemInside
      <4> QED BY <3>1, <4>1
    <3>3. Sleepers(z, c)' = {}
      BY <1>1, <2>2, <3>2 DEF Sleepers
    <3>4. Cardinality(Sleepers(z, c)') = 0
      BY <3>3, FS_EmptySet
    <3> QED BY <1>2, <2>2, <3>4
  <2> QED BY <2>1, <2>2
<1> QED BY <1>3, <1>4, <1>5, <1>6 DEF SemInv

\* Whoever sleeps for s is on a channel that IPC_RMID wakes.
LEMMA SemRmid ==
  ASSUME SemInv, NEW p \in SemProcs, NEW s \in SemSets, usemctlRMID(p, s)
  PROVE  SemInv'
<1>1. /\ SemTypes /\ SemInside /\ SemCounted /\ SemAwake
      /\ semAlloc[s] /\ semAlloc' = [semAlloc EXCEPT ![s] = FALSE]
      /\ semPc' = SemWoken(s, RmidWakes(s), semPc)
      /\ semcnt' = semcnt /\ semGen' = semGen /\ semArg' = semArg
  BY DEF SemInv, usemctlRMID
<1>2. PICK chans : chans = RmidWakes(s)
  OBVIOUS
<1>3. /\ semPc' \in [SemProcs -> {"run", "sleep", "woken", "intr"}]
      /\ \A q \in SemProcs :
           /\ semPc'[q] = "run" <=> semPc[q] = "run"
           /\ semPc'[q] = "sleep" =>
                semPc[q] = "sleep" /\ ~ (/\ semArg[q].set = s /\ semArg[q].gen = semGen[s]
                                         /\ semArg[q].chan \in chans)
  BY <1>1, <1>2, SemWokenIs
<1>4. /\ semAlloc' \in [SemSets -> BOOLEAN] /\ \A z \in SemSets : semAlloc'[z] => semAlloc[z]
      /\ \A z \in SemSets : z # s => semAlloc'[z] = semAlloc[z]
  BY <1>1 DEF SemTypes
<1>5. ASSUME NEW q \in SemProcs, semPc'[q] = "sleep", semGen[semArg[q].set] <= 1
      PROVE  semAlloc'[semArg[q].set]
  <2>1. semPc[q] = "sleep" /\ semArg[q].set \in SemSets /\ semAlloc[semArg[q].set]
    BY <1>1, <1>3, <1>5 DEF SemInside, SemAwake
  <2>2. CASE semArg[q].set # s
    BY <1>4, <2>1, <2>2
  <2>3. CASE semArg[q].set = s
    <3>1. PICK c : c = semArg[q].chan
      OBVIOUS
    <3>2. c \in Chans
      BY <1>1, <3>1 DEF SemTypes
    <3>3. q \in Sleepers(s, c)
      BY <1>1, <1>5, <2>1, <2>3, <3>1, <3>2, OneGeneration
    <3>4. semcnt[s][c] = Cardinality(Sleepers(s, c)) /\ IsFiniteSet(Sleepers(s, c))
      BY <1>1, <1>5, <2>3, <3>2, SleepersFinite DEF SemCounted
    <3>5. semcnt[s][c] # 0
      BY <3>3, <3>4, FS_EmptySet
    <3>6. c \in chans
      BY <1>2, <3>2, <3>5 DEF RmidWakes, Counted
    <3>7. semArg[q].gen = semGen[s]
      BY <3>3 DEF Sleepers
    <3> QED BY <1>3, <1>5, <2>3, <3>1, <3>6, <3>7
  <2> QED BY <2>2, <2>3
<1>6. SameInside /\ semcnt' = semcnt
  BY <1>1, <1>3 DEF SameInside
<1> QED BY <1>3, <1>4, <1>5, <1>6, SemQuiet

LEMMA SemOthers ==
  ASSUME SemInv, NEW p \in SemProcs,
         \/ SemSignal(p) \/ semAllAdjust(p)
         \/ \E s \in SemSets :
              \/ \E n \in SemNums, v \in SemVals : usemctlSETVAL(p, s, n, v)
              \/ \E val \in [SemNums -> SemVals], k \in 1 .. NSEMS : usemctlSETALL(p, s, val, k)
  PROVE  SemInv'
<1>1. SemTypes /\ SemAwake
  BY DEF SemInv
<1>2. \A q \in SemProcs : semPc[q] = "sleep" /\ semGen[semArg[q].set] <= 1 => semAlloc[semArg[q].set]
  BY <1>1 DEF SemAwake
<1>3. semAlloc' = semAlloc /\ semGen' = semGen /\ semArg' = semArg /\ semcnt' = semcnt
  BY DEF SemSignal, semAllAdjust, usemctlSETVAL, usemctlSETALL
<1>4. /\ semPc' \in [SemProcs -> {"run", "sleep", "woken", "intr"}]
      /\ \A q \in SemProcs : /\ semPc'[q] = "run" <=> semPc[q] = "run"
                             /\ semPc'[q] = "sleep" => semPc[q] = "sleep"
  <2>1. CASE SemSignal(p)
    BY <1>1, <2>1 DEF SemSignal, SemTypes
  <2>2. CASE \E s, chans : semPc' = SemWoken(s, chans, semPc)
    BY <1>1, <2>2, SemWokenIs
  <2>3. CASE semPc' = semPc
    BY <1>1, <2>3 DEF SemTypes
  <2>4. SemSignal(p) \/ (\E s, chans : semPc' = SemWoken(s, chans, semPc)) \/ semPc' = semPc
    BY DEF semAllAdjust, usemctlSETVAL, usemctlSETALL
  <2> QED BY <2>1, <2>2, <2>3, <2>4
<1>5. SameInside
  BY <1>3, <1>4 DEF SameInside
<1>6. semAlloc' \in [SemSets -> BOOLEAN]
  BY <1>1, <1>3 DEF SemTypes
<1>7. \A q \in SemProcs : semPc'[q] = "sleep" =>
        semPc[q] = "sleep" /\ (semGen[semArg[q].set] <= 1 => semAlloc'[semArg[q].set])
  BY <1>2, <1>3, <1>4
<1> QED BY <1>3, <1>4, <1>5, <1>6, <1>7, SemQuiet

LEMMA SemNextInv == SemInv /\ [SemNext]_semVars => SemInv'
<1>1. ASSUME SemInv, UNCHANGED semVars PROVE SemInv'
  BY <1>1 DEF SemInv, SemTypes, SemInside, SemCounted, SemAwake, Sleepers, semVars
<1>2. ASSUME SemInv, SemNext PROVE SemInv'
  <2>1. PICK p \in SemProcs :
          \/ usemop(p) \/ SemSignal(p) \/ semwaitGone(p) \/ semwaitIntr(p) \/ semwaitRetry(p)
          \/ semAllAdjust(p)
          \/ \E s \in SemSets :
               \/ usemget(p, s)
               \/ \E n \in SemNums, v \in SemVals : usemctlSETVAL(p, s, n, v)
               \/ \E val \in [SemNums -> SemVals], k \in 1 .. NSEMS : usemctlSETALL(p, s, val, k)
               \/ usemctlRMID(p, s)
    BY <1>2 DEF SemNext
  <2> QED BY <1>2, <2>1, SemUsemop, SemGone, SemIntr, SemRetry, SemGet, SemRmid, SemOthers
<1> QED BY <1>1, <1>2

LEMMA SemInvSays == SemInv => ((\A s \in SemSets : semGen[s] <= 1) => SemExact)
<1> SUFFICES ASSUME SemInv, \A s \in SemSets : semGen[s] <= 1 PROVE SemExact
  OBVIOUS
<1>1. SemCountsExact
  BY DEF SemInv, SemCounted, SemCountsExact
<1>2. ASSUME NEW p \in SemProcs, semPc[p] = "sleep"
      PROVE  semAlloc[semArg[p].set] /\ semArg[p].gen = semGen[semArg[p].set]
  <2>1. /\ semArg[p].set \in SemSets /\ semArg[p].gen \in 1 .. semGen[semArg[p].set]
        /\ semGen[semArg[p].set] \in Nat
    BY <1>2 DEF SemInv, SemInside, SemTypes
  <2>2. semArg[p].gen = semGen[semArg[p].set]
    BY <2>1
  <2> QED BY <1>2, <2>1, <2>2 DEF SemInv, SemAwake
<1> QED BY <1>1, <1>2 DEF SemExact, SemRemovedWakes

\* The counts semncnt and semzcnt are exact, and IPC_RMID leaves nobody asleep,
\* for as long as no identifier is given to a second set: a process that is
\* still inside semwait for the first one lowers a count of the second.
THEOREM SemCountsSound ==
  SemSpec => []((\A s \in SemSets : semGen[s] <= 1) => SemExact)
<1>1. SemInit => SemInv
  BY SemInitInv
<1>2. SemInv /\ [SemNext]_semVars => SemInv'
  BY SemNextInv
<1>3. SemInv => ((\A s \in SemSets : semGen[s] <= 1) => SemExact)
  BY SemInvSays
<1> QED BY <1>1, <1>2, <1>3, PTL DEF SemSpec

----------------------------------------------------------------------------
(* What will be undone.                                                    *)

Room == -SEMVMX .. SEMVMX

\* What the constants are.
LEMMA RoomIs ==
  /\ SEMVMX \in Int /\ 1 <= SEMVMX /\ SEMVMX < 32768
  /\ Room \subseteq Int /\ NSEMS \in Nat /\ 1 <= NSEMS
<1>1. NSEMS \in Nat \ {0} /\ SEMVMX \in Nat \ {0} /\ SEMVMX < 32768
  BY SemAssumption
<1>2. SEMVMX \in Int /\ 1 <= SEMVMX /\ NSEMS \in Nat /\ 1 <= NSEMS
  BY <1>1
<1>3. Room \subseteq Int
  BY DEF Room
<1> QED BY <1>1, <1>2, <1>3

\* What has room in a list.
LEMMA RoomHas ==
  ASSUME NEW x
  PROVE  x \in Room <=> x \in Int /\ -SEMVMX <= x /\ x <= SEMVMX
BY RoomIs DEF Room

\* Values alike modulo the width stay so when both are moved.
LEMMA ShiftedAlike ==
  ASSUME NEW x \in Int, NEW y \in Int, NEW z \in Int, x % USHORT = y % USHORT
  PROVE  (x + z) % USHORT = (y + z) % USHORT
BY DEF USHORT

\* Cutting a value to its width before or after an addition is the same.
LEMMA FoldedOnce ==
  ASSUME NEW x \in Int, NEW y \in Int
  PROVE  ((x % USHORT) + y) % USHORT = (x + y) % USHORT
BY DEF USHORT

\* Subtracting what was added gives the value again, as a ushort.
LEMMA TakenBack ==
  ASSUME NEW v \in 0 .. USHORT - 1, NEW o \in Int, NEW w, w = v + o
  PROVE  (w - o) % USHORT = v
<1>1. v \in Nat /\ v < USHORT
  BY UshortIs
<1>2. v % USHORT = v
  BY <1>1, UshortSame
<1>3. PICK k : k = w - o
  OBVIOUS
<1>4. k = v
  BY <1>1, <1>3
<1> QED BY <1>2, <1>3, <1>4

\* u2 is the undo list u after v is subtracted from the entry of n, and d has
\* the keys that were there before.
Subtracted(u2, u, s, n, v) ==
  /\ DOMAIN u2 = DOMAIN u \cup {<<s, n>>}
  /\ Due(u2, s, n) = Due(u, s, n) - v
  /\ \A z \in SemSets, m \in SemNums : <<z, m>> # <<s, n>> => Due(u2, z, m) = Due(u, z, m)

\* No entry means that nothing is due.
LEMMA DueInt ==
  ASSUME NEW u, NEW s, NEW n, <<s, n>> \notin DOMAIN u
  PROVE  Due(u, s, n) = 0
BY DEF Due

Changed(w, u, key, e) == w = [u EXCEPT ![key] = e]
Added(w, u, key, e) == w = [k \in DOMAIN u \cup {key} |-> IF k = key THEN e ELSE u[k]]

\* The list after one entry is given another value.
LEMMA DueChanged ==
  ASSUME NEW u, NEW key, NEW e, NEW w, Changed(w, u, key, e), key \in DOMAIN u
  PROVE  /\ DOMAIN w = DOMAIN u
         /\ \A z, m : Due(w, z, m) = IF <<z, m>> = key THEN e ELSE Due(u, z, m)
<1>1. DOMAIN w = DOMAIN u
  BY DEF Changed
<1>2. \A k \in DOMAIN u : w[k] = IF k = key THEN e ELSE u[k]
  BY DEF Changed
<1>3. ASSUME NEW z, NEW m PROVE Due(w, z, m) = IF <<z, m>> = key THEN e ELSE Due(u, z, m)
  <2>1. PICK k : k = <<z, m>>
    OBVIOUS
  <2>2. Due(w, z, m) = IF k \in DOMAIN w THEN w[k] ELSE 0
    BY <2>1 DEF Due
  <2>3. Due(u, z, m) = IF k \in DOMAIN u THEN u[k] ELSE 0
    BY <2>1 DEF Due
  <2> QED BY <1>1, <1>2, <2>1, <2>2, <2>3
<1> QED BY <1>1, <1>3

Holds(w, u, key, e) ==
  /\ DOMAIN w = DOMAIN u \cup {key}
  /\ \A z, m : Due(w, z, m) = IF <<z, m>> = key THEN e ELSE Due(u, z, m)

\* The list after an entry is added.
LEMMA DueAdded ==
  ASSUME NEW u, NEW key, NEW e, NEW w, Added(w, u, key, e)
  PROVE  Holds(w, u, key, e)
<1>1. DOMAIN w = DOMAIN u \cup {key}
  BY DEF Added
<1>2. \A k \in DOMAIN w : w[k] = IF k = key THEN e ELSE u[k]
  BY DEF Added
<1>3. ASSUME NEW z, NEW m PROVE Due(w, z, m) = IF <<z, m>> = key THEN e ELSE Due(u, z, m)
  <2>1. PICK k : k = <<z, m>>
    OBVIOUS
  <2>2. Due(w, z, m) = IF k \in DOMAIN w THEN w[k] ELSE 0
    BY <2>1 DEF Due
  <2>3. Due(u, z, m) = IF k \in DOMAIN u THEN u[k] ELSE 0
    BY <2>1 DEF Due
  <2> QED BY <1>1, <1>2, <2>1, <2>2, <2>3
<1> QED BY <1>1, <1>3 DEF Holds

Adj(r, u, s, n, v, fresh, full) == r = iSubAdj(u, <<s, n>>, v, fresh, full)
Adjusted(r, u, s, n, v, full) ==
  /\ r.ok => Subtracted(r.u, u, s, n, v)
  /\ ~ r.ok => r.u = u
  /\ r.ok \in BOOLEAN
  /\ <<s, n>> \notin DOMAIN u => (r.ok <=> ~ full)
  /\ <<s, n>> \in DOMAIN u => (r.ok <=> Due(u, s, n) - v \in Room)

\* iSubAdj when kalloc gives memory that is zeroed.
LEMMA SubAdjIs ==
  ASSUME NEW u, NEW s, NEW n, NEW v \in Int, NEW fresh, NEW full, NEW r,
         fresh = 0, Due(u, s, n) \in Int, Adj(r, u, s, n, v, fresh, full)
  PROVE  Adjusted(r, u, s, n, v, full)
<1>1. PICK key : key = <<s, n>>
  OBVIOUS
<1>2. CASE key \in DOMAIN u
  <2>1. Due(u, s, n) = u[key]
    <3>1. Due(u, s, n) = IF key \in DOMAIN u THEN u[key] ELSE 0
      BY <1>1 DEF Due
    <3> QED BY <1>2, <3>1
  <2>2. PICK e : e = u[key] - v
    OBVIOUS
  <2>3. CASE e \in Room
    <3>2. PICK w : Changed(w, u, key, e)
      BY DEF Changed
    <3>1. r = [ok |-> TRUE, u |-> w]
      BY <1>1, <1>2, <2>2, <2>3, <3>2 DEF iSubAdj, Room, Changed, Adj
    <3>3. /\ DOMAIN w = DOMAIN u
          /\ \A z, m : Due(w, z, m) = IF <<z, m>> = key THEN e ELSE Due(u, z, m)
      BY <1>2, <3>2, DueChanged
    <3>4. Subtracted(w, u, s, n, v)
      <4>1. DOMAIN w = DOMAIN u \cup {<<s, n>>}
        BY <1>1, <1>2, <3>3
      <4>2. Due(w, s, n) = Due(u, s, n) - v
        BY <1>1, <2>1, <2>2, <3>3
      <4>3. \A z \in SemSets, m \in SemNums : <<z, m>> # <<s, n>> => Due(w, z, m) = Due(u, z, m)
        BY <1>1, <3>3
      <4> QED BY <4>1, <4>2, <4>3 DEF Subtracted
    <3>5. r.ok = TRUE /\ r.u = w
      BY <3>1
    <3> QED BY <1>1, <1>2, <2>1, <2>2, <2>3, <3>4, <3>5 DEF Adjusted
  <2>4. CASE e \notin Room
    <3>1. r = [ok |-> FALSE, u |-> u]
      BY <1>1, <1>2, <2>2, <2>4 DEF iSubAdj, Room, Adj
    <3>2. r.ok = FALSE /\ r.u = u
      BY <3>1
    <3> QED BY <1>1, <1>2, <2>1, <2>2, <2>4, <3>2 DEF Adjusted
  <2> QED BY <2>3, <2>4
<1>3. CASE key \notin DOMAIN u
  <2>1. Due(u, s, n) = 0
    BY <1>1, <1>3 DEF Due
  <2>2. CASE full
    <3>1. r = [ok |-> FALSE, u |-> u]
      BY <1>1, <1>3, <2>2 DEF iSubAdj, Adj
    <3>2. r.ok = FALSE /\ r.u = u
      BY <3>1
    <3> QED BY <1>1, <1>3, <2>2, <3>2 DEF Adjusted
  <2>3. CASE ~ full
    <3>1. PICK e : e = fresh - v
      OBVIOUS
    <3>2. PICK w : Added(w, u, key, e)
      BY DEF Added
    <3>3. r = [ok |-> TRUE, u |-> w]
      BY <1>1, <1>3, <2>3, <3>1, <3>2 DEF iSubAdj, Adj, Added
    <3>7. Holds(w, u, key, e)
      BY <3>2, DueAdded
    <3>4. /\ DOMAIN w = DOMAIN u \cup {key}
          /\ \A z, m : Due(w, z, m) = IF <<z, m>> = key THEN e ELSE Due(u, z, m)
      BY <3>7 DEF Holds
    <3>5. Subtracted(w, u, s, n, v)
      <4>1. DOMAIN w = DOMAIN u \cup {<<s, n>>}
        BY <1>1, <3>4
      <4>2. Due(w, s, n) = Due(u, s, n) - v
        BY <1>1, <2>1, <3>1, <3>4
      <4>3. \A z \in SemSets, m \in SemNums : <<z, m>> # <<s, n>> => Due(w, z, m) = Due(u, z, m)
        BY <1>1, <3>4
      <4> QED BY <4>1, <4>2, <4>3 DEF Subtracted
    <3>6. r.ok = TRUE /\ r.u = w
      BY <3>3
    <3> QED BY <1>1, <1>3, <2>3, <3>5, <3>6 DEF Adjusted
  <2> QED BY <2>2, <2>3
<1> QED BY <1>2, <1>3

\* The entry of n in u was d before operation o.
Entered(o, u, s, n, d) ==
  /\ o.num = n /\ o.op \in Int /\ o.undo \in BOOLEAN /\ Due(u, s, n) \in Int /\ d \in Room
  /\ Due(u, s, n) = IF o.undo THEN d - o.op ELSE d
  /\ o.undo /\ o.op # 0 => <<s, n>> \in DOMAIN u

\* u2 is u but for the entry of n, which is d.
Restored(u2, u, s, n, d) ==
  /\ DOMAIN u2 = DOMAIN u /\ Due(u2, s, n) = d
  /\ \A z \in SemSets, m \in SemNums : <<z, m>> # <<s, n>> => Due(u2, z, m) = Due(u, z, m)

\* Taking back an operation: the keys stay.
LEMMA UnAdjIs ==
  ASSUME NEW u, NEW s, NEW n, NEW o, NEW d, NEW u2, Entered(o, u, s, n, d), u2 = UnAdj(u, s, o)
  PROVE  Restored(u2, u, s, n, d)
<1>0. /\ o.num = n /\ o.op \in Int /\ o.undo \in BOOLEAN /\ Due(u, s, n) \in Int /\ d \in Room
      /\ Due(u, s, n) = IF o.undo THEN d - o.op ELSE d
      /\ o.undo /\ o.op # 0 => <<s, n>> \in DOMAIN u
  BY DEF Entered
<1>1. CASE ~ o.undo
  <2>1. u2 = u /\ Due(u, s, n) = d
    BY <1>0, <1>1 DEF UnAdj
  <2> QED BY <2>1 DEF Restored
<1>2. CASE o.undo
  <2>1. PICK v, fresh, full : v = -o.op /\ fresh = 0 /\ full = TRUE
    OBVIOUS
  <2>2. v \in Int /\ Due(u, s, n) \in Int
    BY <1>0, <2>1
  <2>3. PICK r : Adj(r, u, s, n, v, fresh, full)
    BY DEF Adj
  <2>4. u2 = r.u
    BY <1>0, <1>2, <2>1, <2>3 DEF UnAdj, Adj
  <2>5. Adjusted(r, u, s, n, v, full)
    BY <2>1, <2>2, <2>3, SubAdjIs
  <2>6. Due(u, s, n) - v = d /\ Due(u, s, n) = d - o.op
    BY <1>0, <1>2, <2>1, RoomIs
  <2>7. CASE <<s, n>> \in DOMAIN u
    <3>1. Due(u, s, n) - v \in Room
      BY <1>0, <2>6
    <3>2. Subtracted(u2, u, s, n, v)
      BY <2>4, <2>5, <2>7, <3>1 DEF Adjusted
    <3> QED BY <2>6, <2>7, <3>2 DEF Subtracted, Restored
  <2>8. CASE <<s, n>> \notin DOMAIN u
    <3>1. u2 = u
      BY <2>1, <2>4, <2>5, <2>8 DEF Adjusted
    <3>2. o.op = 0
      BY <1>0, <1>2, <2>8
    <3>3. Due(u, s, n) = d
      BY <1>0, <2>6, <3>2, RoomIs
    <3> QED BY <3>1, <3>3 DEF Restored
  <2> QED BY <2>7, <2>8
<1> QED BY <1>1, <1>2

\* An array whose operations are in the order of the semaphores, from the
\* first: operation i is for semaphore i - 1.
Placed(ops) ==
  /\ Len(ops) \in Nat
  /\ \A i \in 1 .. Len(ops) : /\ ops[i].num = i - 1 /\ ops[i].undo \in BOOLEAN
                              /\ ops[i].op \in Int /\ -SEMVMX <= ops[i].op

\* val and u are what the first k operations make of the values v0 and of the
\* entries d, as far as their semaphores are concerned.
Undoable(k, s, ops, v0, d, val, u) ==
  /\ k \in Nat /\ k <= NSEMS /\ k <= Len(ops)
  /\ v0 \in [SemNums -> 0 .. USHORT - 1] /\ d \in [SemNums -> Room]
  /\ val \in [SemNums -> Int]
  /\ \A i \in 1 .. k :
       /\ val[i - 1] = v0[i - 1] + ops[i].op
       /\ Due(u, s, i - 1) = IF ops[i].undo THEN d[i - 1] - ops[i].op ELSE d[i - 1]
       /\ ops[i].undo /\ ops[i].op # 0 => <<s, i - 1>> \in DOMAIN u

\* Operations 1 .. j are taken back from val and u.
Backed(j, val2, u2, s, v0, d, val, u) ==
  /\ val2 \in [SemNums -> Int] /\ DOMAIN u2 = DOMAIN u
  /\ \A n \in SemNums : val2[n] = IF n < j THEN v0[n] ELSE val[n]
  /\ \A n \in SemNums : Due(u2, s, n) = IF n < j THEN d[n] ELSE Due(u, s, n)
  /\ \A z \in SemSets, n \in SemNums : z # s => Due(u2, z, n) = Due(u, z, n)

\* The semaphore of operation j.
LEMMA PlaceIs ==
  ASSUME NEW j \in Nat, NEW k \in Nat, 1 <= j, j <= k, k <= NSEMS
  PROVE  j - 1 \in SemNums /\ j \in 1 .. k /\ j - 1 < j
BY RoomIs DEF SemNums

ValBack(val3, val2, m, op) == val3 = [val2 EXCEPT ![m] = (@ - op) % USHORT]

\* semundo on one value.
LEMMA ValBackIs ==
  ASSUME NEW val2 \in [SemNums -> Int], NEW m \in SemNums, NEW op \in Int, NEW val3,
         ValBack(val3, val2, m, op)
  PROVE  /\ val3 \in [SemNums -> Int] /\ val3[m] = (val2[m] - op) % USHORT
         /\ \A n \in SemNums : n # m => val3[n] = val2[n]
<1>1. PICK x : x = val2[m] - op
  OBVIOUS
<1>2. x \in Int
  BY <1>1
<1>3. PICK y : y = x % USHORT
  OBVIOUS
<1>4. y \in Int
  BY <1>2, <1>3 DEF USHORT
<1>5. val3 = [val2 EXCEPT ![m] = y]
  BY <1>1, <1>3 DEF ValBack
<1> QED BY <1>1, <1>3, <1>4, <1>5

\* semundo takes back one more operation.
LEMMA BackStep ==
  ASSUME NEW s \in SemSets, NEW ops, NEW v0, NEW d, NEW val, NEW u, NEW k, Placed(ops),
         Undoable(k, s, ops, v0, d, val, u), NEW j \in 1 .. k,
         NEW i, i = j - 1, NEW val2, NEW u2, Backed(i, val2, u2, s, v0, d, val, u),
         NEW val3, ValBack(val3, val2, j - 1, ops[j].op), NEW u3, u3 = UnAdj(u2, s, ops[j])
  PROVE  Backed(j, val3, u3, s, v0, d, val, u)
<1>1. PICK m : m = j - 1
  OBVIOUS
<1>2. PICK o : o = ops[j]
  OBVIOUS
<1>3. /\ k \in Nat /\ k <= NSEMS /\ k <= Len(ops) /\ j \in Nat /\ 1 <= j /\ j <= k
      /\ Len(ops) \in Nat /\ j \in 1 .. Len(ops)
  BY DEF Undoable, Placed
<1>4. m \in SemNums /\ m < j /\ m = i
  BY <1>1, <1>3, PlaceIs
<1>5. o.num = m /\ o.undo \in BOOLEAN /\ o.op \in Int
  BY <1>1, <1>2, <1>3 DEF Placed
<1>6. /\ val[m] = v0[m] + o.op /\ v0[m] \in 0 .. USHORT - 1 /\ d[m] \in Room
      /\ Due(u, s, m) = IF o.undo THEN d[m] - o.op ELSE d[m]
      /\ o.undo /\ o.op # 0 => <<s, m>> \in DOMAIN u
  BY <1>1, <1>2, <1>4 DEF Undoable
<1>7. /\ val2 \in [SemNums -> Int] /\ DOMAIN u2 = DOMAIN u
      /\ val2[m] = val[m] /\ Due(u2, s, m) = Due(u, s, m)
  BY <1>3, <1>4 DEF Backed
<1>8. PICK op : op = o.op
  OBVIOUS
<1>9. ValBack(val3, val2, m, op) /\ op \in Int
  BY <1>1, <1>2, <1>5, <1>8
<1>10. /\ val3 \in [SemNums -> Int] /\ val3[m] = (val2[m] - op) % USHORT
       /\ \A n \in SemNums : n # m => val3[n] = val2[n]
  BY <1>4, <1>7, <1>9, ValBackIs
<1>11. val3[m] = v0[m]
  <2>1. PICK v, w : v = v0[m] /\ w = val2[m]
    OBVIOUS
  <2>2. v \in 0 .. USHORT - 1 /\ w = v + op /\ op \in Int
    BY <1>6, <1>7, <1>8, <1>9, <2>1
  <2>3. (w - op) % USHORT = v
    BY <2>2, TakenBack
  <2> QED BY <1>10, <2>1, <2>3
<1>12. PICK e : e = d[m]
  OBVIOUS
<1>13. /\ DOMAIN u3 = DOMAIN u2 /\ Due(u3, s, m) = e
       /\ \A z \in SemSets, n \in SemNums : <<z, n>> # <<s, m>> => Due(u3, z, n) = Due(u2, z, n)
  <2>1. Entered(o, u2, s, m, e)
    <3>1. e \in Room /\ e \in Int /\ Due(u2, s, m) = (IF o.undo THEN e - o.op ELSE e)
      <4>1. e \in Room
        BY <1>6, <1>12
      <4>2. e \in Int
        BY <4>1, RoomHas
      <4>3. Due(u2, s, m) = Due(u, s, m)
        BY <1>7
      <4>4. Due(u, s, m) = IF o.undo THEN e - o.op ELSE e
        BY <1>6, <1>12
      <4> QED BY <4>1, <4>2, <4>3, <4>4
    <3>2. Due(u2, s, m) \in Int
      BY <1>5, <3>1
    <3>3. o.undo /\ o.op # 0 => <<s, m>> \in DOMAIN u2
      BY <1>6, <1>7
    <3> QED BY <1>5, <3>1, <3>2, <3>3 DEF Entered
  <2>2. Restored(u3, u2, s, m, e)
    BY <1>2, <2>1, UnAdjIs
  <2> QED BY <2>2 DEF Restored
<1>14. \A n \in SemNums : n # m => (n < j <=> n < i)
  BY <1>1, <1>3, RoomIs DEF SemNums
<1>15. \A n \in SemNums : val3[n] = IF n < j THEN v0[n] ELSE val[n]
  <2> SUFFICES ASSUME NEW n \in SemNums PROVE val3[n] = IF n < j THEN v0[n] ELSE val[n]
    OBVIOUS
  <2>1. CASE n = m
    BY <1>4, <1>11, <2>1
  <2>2. CASE n # m
    BY <1>10, <1>14, <2>2 DEF Backed
  <2> QED BY <2>1, <2>2
<1>16. \A z \in SemSets, n \in SemNums : z # s => Due(u3, z, n) = Due(u, z, n)
  BY <1>13 DEF Backed
<1>17. \A n \in SemNums : Due(u3, s, n) = IF n < j THEN d[n] ELSE Due(u, s, n)
  <2> SUFFICES ASSUME NEW n \in SemNums
               PROVE  Due(u3, s, n) = IF n < j THEN d[n] ELSE Due(u, s, n)
    OBVIOUS
  <2>1. CASE n = m
    BY <1>4, <1>12, <1>13, <2>1
  <2>2. CASE n # m
    <3>1. Due(u3, s, n) = Due(u2, s, n)
      BY <1>13, <2>2
    <3> QED BY <1>14, <2>2, <3>1 DEF Backed
  <2> QED BY <2>1, <2>2
<1> QED BY <1>7, <1>10, <1>13, <1>15, <1>16, <1>17 DEF Backed

BackOne(b, i, s, ops) ==
  [val |-> [b.val EXCEPT ![i - 1] = (@ - ops[i].op) % USHORT], u |-> UnAdj(b.u, s, ops[i])]
IsBack(g, k, s, ops, val, u) ==
  g = [i \in 0 .. k |-> IF i = 0 THEN [val |-> val, u |-> u] ELSE BackOne(g[i - 1], i, s, ops)]

\* The recursion of semundo is well founded: what it computes exists.
LEMMA BackExists ==
  ASSUME NEW N \in Nat, NEW s, NEW ops, NEW val, NEW u
  PROVE  \E g : IsBack(g, N, s, ops, val, u)
<1> DEFINE base == [val |-> val, u |-> u]
           Step(b, i) == BackOne(b, i, s, ops)
           Has(n) == \E g : g = [i \in 0 .. n |-> IF i = 0 THEN base ELSE Step(g[i - 1], i)]
           G == {n \in 0 .. N : Has(n)}
<1>1. 0 \in G
  <2>1. PICK g : g = [i \in 0 .. 0 |-> base]
    OBVIOUS
  <2> HIDE DEF base, Step
  <2>2. g = [i \in 0 .. 0 |-> IF i = 0 THEN base ELSE Step(g[i - 1], i)]
    BY <2>1
  <2> QED BY <2>2
<1>2. ASSUME NEW n \in 1 .. N, n - 1 \in G PROVE n \in G
  <2> HIDE DEF base, Step
  <2>1. PICK g0 : g0 = [i \in 0 .. n - 1 |-> IF i = 0 THEN base ELSE Step(g0[i - 1], i)]
    BY <1>2
  <2>2. PICK last : last = Step(g0[n - 1], n)
    OBVIOUS
  <2>3. PICK g : g = [i \in 0 .. n |-> IF i = n THEN last ELSE g0[i]]
    OBVIOUS
  <2>4. ASSUME NEW i \in 0 .. n PROVE g[i] = IF i = 0 THEN base ELSE Step(g[i - 1], i)
    <3>1. CASE i = n
      <4>1. g[n] = last /\ n - 1 \in 0 .. n /\ n - 1 # n /\ n # 0
        BY <2>3
      <4>2. g[n - 1] = g0[n - 1]
        BY <2>3, <4>1
      <4> QED BY <2>2, <3>1, <4>1, <4>2
    <3>2. CASE i # n
      <4>1. i \in 0 .. n - 1 /\ g[i] = g0[i]
        BY <2>3, <3>2
      <4>2. g0[i] = IF i = 0 THEN base ELSE Step(g0[i - 1], i)
        BY <2>1, <4>1
      <4>3. i # 0 => g[i - 1] = g0[i - 1]
        BY <2>3, <3>2
      <4> QED BY <4>1, <4>2, <4>3
    <3> QED BY <3>1, <3>2
  <2>5. g = [i \in 0 .. n |-> g[i]]
    BY <2>3
  <2>6. g = [i \in 0 .. n |-> IF i = 0 THEN base ELSE Step(g[i - 1], i)]
    <3> HIDE <2>3
    <3> QED BY <2>4, <2>5
  <2>7. n \in 0 .. N
    OBVIOUS
  <2> QED BY <2>6, <2>7
<1>3. N \in G
  <2> HIDE DEF G
  <2>1. \A n \in 0 .. N : n \in G
    BY <1>1, <1>2, Upwards
  <2> QED BY <2>1
<1> QED BY <1>3 DEF IsBack

\* semundo takes back the operations that were made.
LEMMA SemundoIs ==
  ASSUME NEW s \in SemSets, NEW ops, NEW v0, NEW d, NEW val, NEW u, NEW k, Placed(ops),
         Undoable(k, s, ops, v0, d, val, u), NEW r, r = semundo(s, ops, k, val, u)
  PROVE  Backed(k, r.val, r.u, s, v0, d, val, u)
<1> DEFINE Is(h) == IsBack(h, k, s, ops, val, u)
<1>0. k \in Nat /\ k <= NSEMS
  BY DEF Undoable
<1>1. PICK g : g = CHOOSE h : Is(h)
  OBVIOUS
<1>2. Is(g)
  <2>1. \E h : Is(h)
    BY <1>0, BackExists
  <2> HIDE DEF Is
  <2> QED BY <1>1, <2>1
<1>3. r = g[k]
  BY <1>1 DEF semundo, IsBack, BackOne
<1>4. /\ g[0] = [val |-> val, u |-> u]
      /\ \A i \in 1 .. k : g[i] = BackOne(g[i - 1], i, s, ops)
  <2>1. 0 \in 0 .. k /\ \A i \in 1 .. k : i \in 0 .. k /\ i # 0
    BY <1>0
  <2> QED BY <1>2, <2>1 DEF IsBack
<1> HIDE DEF Is
<1> DEFINE Good(i) == Backed(i, g[i].val, g[i].u, s, v0, d, val, u)
           G == {i \in 0 .. k : Good(i)}
<1>5. 0 \in G
  <2>1. \A n \in SemNums : ~ (n < 0)
    BY RoomIs DEF SemNums
  <2>2. Backed(0, val, u, s, v0, d, val, u)
    BY <2>1 DEF Backed, Undoable
  <2>3. g[0].val = val /\ g[0].u = u
    BY <1>4
  <2>4. 0 \in 0 .. k
    BY <1>0
  <2> QED BY <2>2, <2>3, <2>4
<1>6. ASSUME NEW j \in 1 .. k, j - 1 \in G PROVE j \in G
  <2>1. PICK i : i = j - 1
    OBVIOUS
  <2>2. PICK b : b = g[i]
    OBVIOUS
  <2>3. PICK val2, u2 : val2 = b.val /\ u2 = b.u
    OBVIOUS
  <2>4. Backed(i, val2, u2, s, v0, d, val, u)
    BY <1>6, <2>1, <2>2, <2>3
  <2>5. PICK val3, u3 : val3 = [val2 EXCEPT ![j - 1] = (@ - ops[j].op) % USHORT]
                        /\ u3 = UnAdj(u2, s, ops[j])
    OBVIOUS
  <2>6. g[j].val = val3 /\ g[j].u = u3
    <3>1. g[j] = BackOne(b, j, s, ops)
      BY <1>4, <2>1, <2>2
    <3>2. BackOne(b, j, s, ops) = [val |-> val3, u |-> u3]
      BY <2>3, <2>5 DEF BackOne
    <3> QED BY <3>1, <3>2
  <2>7. ValBack(val3, val2, j - 1, ops[j].op) /\ u3 = UnAdj(u2, s, ops[j])
    BY <2>5 DEF ValBack
  <2>8. Backed(j, val3, u3, s, v0, d, val, u)
    BY <2>1, <2>4, <2>7, BackStep
  <2>9. j \in 0 .. k
    BY <1>0
  <2> QED BY <2>6, <2>8, <2>9
<1>7. Good(k)
  <2> HIDE DEF G
  <2>1. \A i \in 0 .. k : i \in G
    BY <1>0, <1>5, <1>6, Upwards
  <2>2. k \in G
    BY <1>0, <2>1
  <2> QED BY <2>2 DEF G
<1> QED BY <1>3, <1>7

\* A call that has made operations 1 .. k, from values v0, the undo list u0
\* and its entries d.
Made(k, p, s, ops, v0, d, u0, val, u) ==
  /\ Undoable(k, s, ops, v0, d, val, u)
  /\ \A n \in SemNums :
       /\ val[n] \in 0 .. USHORT - 1 /\ Due(u, s, n) \in Room
       /\ k <= n => /\ val[n] = v0[n] /\ Due(u, s, n) = d[n]
                    /\ <<s, n>> \in DOMAIN u => <<s, n>> \in DOMAIN u0
  /\ \A z \in SemSets, n \in SemNums : z # s => Due(u, z, n) = Due(u0, z, n)
  /\ p \notin SemAlterers => \A i \in 1 .. k : ops[i].op = 0

\* Nothing is left of what a call did.
Unmade(s, v0, d, u0, val, u) ==
  /\ val \in [SemNums -> Int]
  /\ \A n \in SemNums : val[n] = v0[n] /\ Due(u, s, n) = d[n]
  /\ \A z \in SemSets, n \in SemNums : z # s => Due(u, z, n) = Due(u0, z, n)

\* Semaphore numbers.
LEMMA NumIs == NSEMS \in Nat /\ \A n \in SemNums : n \in Nat /\ n < NSEMS
BY RoomIs DEF SemNums

\* What Made says of the semaphores that no operation reached yet.
LEMMA MadeIs ==
  ASSUME NEW k, NEW p, NEW s, NEW ops, NEW v0, NEW d, NEW u0, NEW val, NEW u,
         Made(k, p, s, ops, v0, d, u0, val, u)
  PROVE  /\ k \in Nat /\ k <= NSEMS /\ k <= Len(ops)
         /\ v0 \in [SemNums -> 0 .. USHORT - 1] /\ d \in [SemNums -> Room]
         /\ val \in [SemNums -> Int]
         /\ \A n \in SemNums : k <= n => val[n] = v0[n] /\ Due(u, s, n) = d[n]
BY DEF Made, Undoable

\* semundo of what the operations before made leaves what there was.
LEMMA UndoneAll ==
  ASSUME NEW k, NEW p, NEW s \in SemSets, NEW ops, NEW v0, NEW d, NEW u0, NEW val, NEW u,
         Placed(ops), Made(k, p, s, ops, v0, d, u0, val, u),
         NEW r, r = semundo(s, ops, k, val, u)
  PROVE  Unmade(s, v0, d, u0, r.val, r.u)
<1>1. Undoable(k, s, ops, v0, d, val, u)
  BY DEF Made
<1>2. Backed(k, r.val, r.u, s, v0, d, val, u)
  BY <1>1, SemundoIs
<1>3. \A n \in SemNums : r.val[n] = v0[n] /\ Due(r.u, s, n) = d[n]
  <2> SUFFICES ASSUME NEW n \in SemNums PROVE r.val[n] = v0[n] /\ Due(r.u, s, n) = d[n]
    OBVIOUS
  <2>0. k \in Nat /\ n \in Nat
    BY MadeIs, NumIs
  <2>1. n < k \/ k <= n
    BY <2>0
  <2>2. CASE n < k
    BY <1>2, <2>2 DEF Backed
  <2>3. CASE k <= n
    <3>1. ~ (n < k)
      BY <2>0, <2>3
    <3> QED BY <1>2, <2>3, <3>1 DEF Backed, Made
  <2> QED BY <2>1, <2>2, <2>3
<1>4. \A z \in SemSets, n \in SemNums : z # s => Due(r.u, z, n) = Due(u0, z, n)
  BY <1>2 DEF Backed, Made
<1> QED BY <1>2, <1>3, <1>4 DEF Unmade, Backed

\* Who may not alter has done nothing.
LEMMA DeniedIs ==
  ASSUME NEW k, NEW p, NEW s \in SemSets, NEW ops, NEW v0, NEW d, NEW u0, NEW val, NEW u,
         Made(k, p, s, ops, v0, d, u0, val, u), p \notin SemAlterers
  PROVE  Unmade(s, v0, d, u0, val, u)
<1>1. \A n \in SemNums : val[n] = v0[n] /\ Due(u, s, n) = d[n]
  <2> SUFFICES ASSUME NEW n \in SemNums PROVE val[n] = v0[n] /\ Due(u, s, n) = d[n]
    OBVIOUS
  <2>0. k \in Nat /\ n \in Nat /\ v0[n] \in Int /\ d[n] \in Int
    <3>1. v0[n] \in 0 .. USHORT - 1 /\ d[n] \in Room
      BY MadeIs
    <3> QED BY <3>1, MadeIs, NumIs, RoomIs
  <2>1. CASE k <= n
    BY <2>1 DEF Made
  <2>2. CASE ~ (k <= n)
    <3>1. PICK i : i = n + 1
      OBVIOUS
    <3>2. i \in 1 .. k /\ n = i - 1
      BY <2>0, <2>2, <3>1
    <3>3. ops[i].op = 0
      BY <3>2 DEF Made
    <3>4. /\ val[n] = v0[n] + ops[i].op
          /\ Due(u, s, n) = IF ops[i].undo THEN d[n] - ops[i].op ELSE d[n]
      BY <3>2 DEF Made, Undoable
    <3> QED BY <2>0, <3>3, <3>4
  <2> QED BY <2>1, <2>2
<1> QED BY <1>1 DEF Made, Undoable, Unmade

ValOn(val2, val, m, op) == val2 = [val EXCEPT ![m] = @ + op]

\* An operation on one value.
LEMMA ValOnIs ==
  ASSUME NEW val \in [SemNums -> Int], NEW m \in SemNums, NEW op \in Int, NEW val2,
         ValOn(val2, val, m, op)
  PROVE  /\ val2 \in [SemNums -> Int] /\ val2[m] = val[m] + op
         /\ \A n \in SemNums : n # m => val2[n] = val[n]
<1>1. PICK x : x = val[m] + op
  OBVIOUS
<1>2. x \in Int
  BY <1>1
<1>3. val2 = [val EXCEPT ![m] = x]
  BY <1>1 DEF ValOn
<1> QED BY <1>1, <1>2, <1>3

\* One more operation is made, by somebody who may alter.
OneMore(k, j, s, o, val, u, val2, u2) ==
  /\ ValOn(val2, val, k, o.op) /\ val[k] + o.op \in 0 .. USHORT - 1
  /\ Due(u, s, k) - o.op \in Room \/ ~ o.undo
  /\ o.undo => Subtracted(u2, u, s, k, o.op)
  /\ ~ o.undo => u2 = u

\* One more operation done.
LEMMA MadeMore ==
  ASSUME NEW k, NEW j, j = k + 1, NEW p, NEW s \in SemSets, NEW ops, NEW v0, NEW d, NEW u0,
         NEW val, NEW u, NEW val2, NEW u2, Placed(ops), j <= NSEMS, j <= Len(ops),
         Made(k, p, s, ops, v0, d, u0, val, u), p \in SemAlterers,
         OneMore(k, j, s, ops[j], val, u, val2, u2)
  PROVE  Made(j, p, s, ops, v0, d, u0, val2, u2)
<1>1. PICK o : o = ops[j]
  OBVIOUS
<1>2. k \in Nat /\ j \in Nat /\ k = j - 1 /\ k \in SemNums /\ j \in 1 .. Len(ops)
  <2>1. k \in Nat /\ Len(ops) \in Nat
    BY MadeIs DEF Placed
  <2> QED BY <2>1, RoomIs DEF SemNums
<1>3. o.num = k /\ o.undo \in BOOLEAN /\ o.op \in Int
  BY <1>1, <1>2 DEF Placed
<1>4. /\ val \in [SemNums -> Int] /\ v0 \in [SemNums -> 0 .. USHORT - 1]
      /\ d \in [SemNums -> Room] /\ val[k] = v0[k] /\ Due(u, s, k) = d[k]
  <2>1. k <= k
    BY <1>2
  <2> QED BY <1>2, <2>1, MadeIs
<1>5. PICK op : op = o.op
  OBVIOUS
<1>6. /\ val2 \in [SemNums -> Int] /\ val2[k] = val[k] + op /\ val2[k] \in 0 .. USHORT - 1
      /\ \A n \in SemNums : n # k => val2[n] = val[n]
  <2>1. ValOn(val2, val, k, op) /\ op \in Int /\ val[k] + op \in 0 .. USHORT - 1
    BY <1>1, <1>3, <1>5 DEF OneMore
  <2> QED BY <1>2, <1>4, <2>1, ValOnIs
<1>7. /\ Due(u2, s, k) = IF o.undo THEN d[k] - op ELSE d[k]
      /\ Due(u2, s, k) \in Room
      /\ o.undo => <<s, k>> \in DOMAIN u2
      /\ \A z \in SemSets, n \in SemNums : <<z, n>> # <<s, k>> =>
           Due(u2, z, n) = Due(u, z, n) /\ (<<z, n>> \in DOMAIN u2 <=> <<z, n>> \in DOMAIN u)
  <2>1. CASE o.undo
    <3>1. Subtracted(u2, u, s, k, op) /\ Due(u, s, k) - op \in Room
      BY <1>1, <1>5, <2>1 DEF OneMore
    <3> QED BY <1>4, <2>1, <3>1 DEF Subtracted
  <2>2. CASE ~ o.undo
    <3>1. u2 = u
      BY <1>1, <2>2 DEF OneMore
    <3> QED BY <1>2, <1>4, <2>2, <3>1
  <2> QED BY <2>1, <2>2
<1>8. \A n \in SemNums : n # k =>
        /\ Due(u2, s, n) = Due(u, s, n) /\ (<<s, n>> \in DOMAIN u2 <=> <<s, n>> \in DOMAIN u)
  BY <1>7
<1>9. \A i \in 1 .. j : i # j => i \in 1 .. k /\ i - 1 \in SemNums /\ i - 1 # k
  BY <1>2, RoomIs DEF SemNums
<1>10. Undoable(j, s, ops, v0, d, val2, u2)
  <2>1. ASSUME NEW i \in 1 .. j
        PROVE  /\ val2[i - 1] = v0[i - 1] + ops[i].op
               /\ Due(u2, s, i - 1) = IF ops[i].undo THEN d[i - 1] - ops[i].op ELSE d[i - 1]
               /\ ops[i].undo /\ ops[i].op # 0 => <<s, i - 1>> \in DOMAIN u2
    <3>1. CASE i = j
      <4>1. i - 1 = k /\ ops[i] = o
        BY <1>1, <1>2, <3>1
      <4> QED BY <1>4, <1>5, <1>6, <1>7, <4>1
    <3>2. CASE i # j
      <4>1. PICK m : m = i - 1
        OBVIOUS
      <4>2. i \in 1 .. k /\ m \in SemNums /\ m # k
        BY <1>9, <3>2, <4>1
      <4>3. /\ val[m] = v0[m] + ops[i].op
            /\ Due(u, s, m) = IF ops[i].undo THEN d[m] - ops[i].op ELSE d[m]
            /\ ops[i].undo /\ ops[i].op # 0 => <<s, m>> \in DOMAIN u
        BY <4>1, <4>2 DEF Made, Undoable
      <4>4. val2[m] = val[m] /\ Due(u2, s, m) = Due(u, s, m)
            /\ (<<s, m>> \in DOMAIN u2 <=> <<s, m>> \in DOMAIN u)
        BY <1>6, <1>8, <4>2
      <4> QED BY <4>1, <4>3, <4>4
    <3> QED BY <3>1, <3>2
  <2> QED BY <1>2, <1>4, <1>6, <2>1 DEF Undoable
<1>11. ASSUME NEW n \in SemNums
       PROVE  /\ val2[n] \in 0 .. USHORT - 1 /\ Due(u2, s, n) \in Room
              /\ j <= n => /\ val2[n] = v0[n] /\ Due(u2, s, n) = d[n]
                           /\ <<s, n>> \in DOMAIN u2 => <<s, n>> \in DOMAIN u0
  <2>1. CASE n = k
    <3>1. ~ (j <= n)
      BY <1>2, <2>1
    <3> QED BY <1>6, <1>7, <2>1, <3>1
  <2>2. CASE n # k
    <3>1. j <= n => k <= n
      BY <1>2, RoomIs DEF SemNums
    <3>2. /\ val[n] \in 0 .. USHORT - 1 /\ Due(u, s, n) \in Room
          /\ k <= n => /\ val[n] = v0[n] /\ Due(u, s, n) = d[n]
                       /\ <<s, n>> \in DOMAIN u => <<s, n>> \in DOMAIN u0
      BY DEF Made
    <3>3. val2[n] = val[n] /\ Due(u2, s, n) = Due(u, s, n)
          /\ (<<s, n>> \in DOMAIN u2 <=> <<s, n>> \in DOMAIN u)
      BY <1>6, <1>8, <2>2
    <3> QED BY <3>1, <3>2, <3>3
  <2> QED BY <2>1, <2>2
<1>12. \A z \in SemSets, n \in SemNums : z # s => Due(u2, z, n) = Due(u0, z, n)
  <2> SUFFICES ASSUME NEW z \in SemSets, NEW n \in SemNums, z # s
               PROVE  Due(u2, z, n) = Due(u0, z, n)
    OBVIOUS
  <2>1. <<z, n>> # <<s, k>>
    OBVIOUS
  <2>2. Due(u, z, n) = Due(u0, z, n)
    BY DEF Made
  <2> QED BY <1>7, <2>1, <2>2
<1> QED BY <1>10, <1>11, <1>12 DEF Made

\* A test for zero is no change.
LEMMA MadeTest ==
  ASSUME NEW k, NEW j, j = k + 1, NEW p, NEW s \in SemSets, NEW ops, NEW v0, NEW d, NEW u0,
         NEW val, NEW u, Placed(ops), j <= NSEMS, j <= Len(ops), ops[j].op = 0,
         Made(k, p, s, ops, v0, d, u0, val, u)
  PROVE  Made(j, p, s, ops, v0, d, u0, val, u)
<1>1. k \in Nat /\ j \in Nat /\ k = j - 1 /\ k \in SemNums
  <2>1. k \in Nat
    BY MadeIs
  <2> QED BY <2>1, RoomIs DEF SemNums
<1>2. \A i \in 1 .. j : i # j => i \in 1 .. k
  BY <1>1
<1>3. /\ v0[k] \in Int /\ d[k] \in Int /\ val[k] = v0[k] /\ Due(u, s, k) = d[k]
  <2>1. k <= k
    BY <1>1
  <2>2. v0[k] \in 0 .. USHORT - 1 /\ d[k] \in Room
    BY <1>1, MadeIs
  <2>3. val[k] = v0[k] /\ Due(u, s, k) = d[k]
    BY <1>1, <2>1, MadeIs
  <2>4. v0[k] \in Int
    BY <2>2
  <2>5. d[k] \in Int
    <3>1. Room \subseteq Int
      BY RoomIs
    <3>2. d[k] \in Room
      BY <2>2
    <3> QED BY <3>1, <3>2
  <2> QED BY <2>3, <2>4, <2>5
<1>4. Undoable(j, s, ops, v0, d, val, u)
  <2>1. ASSUME NEW i \in 1 .. j
        PROVE  /\ val[i - 1] = v0[i - 1] + ops[i].op
               /\ Due(u, s, i - 1) = IF ops[i].undo THEN d[i - 1] - ops[i].op ELSE d[i - 1]
               /\ ops[i].undo /\ ops[i].op # 0 => <<s, i - 1>> \in DOMAIN u
    <3>1. CASE i = j
      <4>1. i - 1 = k /\ ops[i].op = 0
        BY <1>1, <3>1
      <4> QED BY <1>3, <4>1
    <3>2. CASE i # j
      BY <1>2, <3>2 DEF Made, Undoable
    <3> QED BY <3>1, <3>2
  <2> QED BY <1>1, <2>1 DEF Made, Undoable
<1>5. \A n \in SemNums : j <= n => k <= n
  BY <1>1, RoomIs DEF SemNums
<1>6. p \notin SemAlterers => \A i \in 1 .. j : ops[i].op = 0
  BY <1>2 DEF Made
<1> QED BY <1>4, <1>5, <1>6 DEF Made

\* iSubAdj finds room for what an operation of ops takes away.
LeavesRoom(s, ops, d, u0) ==
  \A i \in 1 .. Len(ops) :
    i - 1 \in SemNums /\ ops[i].undo /\ ops[i].op < 0 /\ <<s, i - 1>> \in DOMAIN u0
      => d[i - 1] - ops[i].op <= SEMVMX

\* The fields of a call after one of them is set.
LEMMA CallFields ==
  ASSUME NEW a, IsCall(a), NEW v
  PROVE  /\ [a EXCEPT !.u = v].st = a.st /\ [a EXCEPT !.u = v].val = a.val
         /\ [a EXCEPT !.u = v].u = v
         /\ [a EXCEPT !.st = v].st = v /\ [a EXCEPT !.st = v].val = a.val
         /\ [a EXCEPT !.st = v].u = a.u
         /\ [a EXCEPT !.val = v].st = a.st /\ [a EXCEPT !.val = v].val = v
         /\ [a EXCEPT !.val = v].u = a.u
         /\ [a EXCEPT !.woke = v].st = a.st /\ [a EXCEPT !.woke = v].val = a.val
         /\ [a EXCEPT !.woke = v].u = a.u
<1>1. PICK st, val, u, woke, chan :
        a = [st |-> st, val |-> val, u |-> u, woke |-> woke, chan |-> chan]
  BY DEF IsCall
<1> QED BY <1>1

\* What a call that stops is left with.
StoppedAs(c, st, r) == c.st = st /\ c.val = r.val /\ c.u = r.u

\* The fields of a call that stopped.
LEMMA StoppedFields ==
  ASSUME NEW a, IsCall(a), NEW s, NEW ops, NEW k, NEW st, NEW chan, NEW r,
         r = semundo(s, ops, k, a.val, a.u)
  PROVE  StoppedAs(Stopped(s, ops, k, a, st, chan), st, r)
<1>1. PICK st1, val, u, woke, chan1 :
        a = [st |-> st1, val |-> val, u |-> u, woke |-> woke, chan |-> chan1]
  BY DEF IsCall
<1>2. PICK val2, u2 : val2 = r.val /\ u2 = r.u
  OBVIOUS
<1>3. Stopped(s, ops, k, a, st, chan)
        = [a EXCEPT !.val = val2, !.u = u2, !.st = st, !.chan = chan]
  BY <1>2 DEF Stopped
<1>4. Stopped(s, ops, k, a, st, chan)
        = [st |-> st, val |-> val2, u |-> u2, woke |-> woke, chan |-> chan]
  BY <1>1, <1>3
<1> QED BY <1>2, <1>4 DEF StoppedAs

\* After a turn of the loop: operations 1 .. j are made, or nothing is.
Turned(j, p, s, ops, v0, d, u0, b) ==
  \/ b.st = "go" /\ Made(j, p, s, ops, v0, d, u0, b.val, b.u)
  \/ b.st \in {"fail", "wait"} /\ Unmade(s, v0, d, u0, b.val, b.u)

\* The parts of Turned: the call goes on.
LEMMA TurnedMade ==
  ASSUME NEW j, NEW p, NEW s, NEW ops, NEW v0, NEW d, NEW u0, NEW b, NEW val, NEW u,
         b.st = "go", b.val = val, b.u = u, Made(j, p, s, ops, v0, d, u0, val, u)
  PROVE  Turned(j, p, s, ops, v0, d, u0, b)
BY DEF Turned

\* The parts of Turned: the call stopped.
LEMMA TurnedUnmade ==
  ASSUME NEW j, NEW p, NEW s, NEW ops, NEW v0, NEW d, NEW u0, NEW b, NEW val, NEW u,
         b.st \in {"fail", "wait"}, b.val = val, b.u = u, Unmade(s, v0, d, u0, val, u)
  PROVE  Turned(j, p, s, ops, v0, d, u0, b)
BY DEF Turned

\* A call that stopped stays as it is.
LEMMA TurnedStopped ==
  ASSUME NEW k, NEW j, NEW p, NEW s \in SemSets, NEW ops, NEW v0, NEW d, NEW u0, NEW a,
         Placed(ops), Made(k, p, s, ops, v0, d, u0, a.val, a.u), IsCall(a),
         NEW st, st \in {"fail", "wait"}, NEW chan
  PROVE  Turned(j, p, s, ops, v0, d, u0, Stopped(s, ops, k, a, st, chan))
<1>1. PICK r : r = semundo(s, ops, k, a.val, a.u)
  OBVIOUS
<1>2. PICK b : b = Stopped(s, ops, k, a, st, chan)
  OBVIOUS
<1>3. StoppedAs(b, st, r)
  BY <1>1, <1>2, StoppedFields
<1>4. PICK val, u : val = a.val /\ u = a.u
  OBVIOUS
<1>5. Unmade(s, v0, d, u0, r.val, r.u)
  BY <1>1, <1>4, UndoneAll
<1>6. b.st \in {"fail", "wait"} /\ b.val = r.val /\ b.u = r.u
  BY <1>3 DEF StoppedAs
<1>7. Unmade(s, v0, d, u0, b.val, b.u)
  BY <1>5, <1>6
<1> QED BY <1>2, <1>6, <1>7 DEF Turned

\* The place of the operation in turn.
LEMMA TurnIs ==
  ASSUME NEW k, NEW j, j = k + 1, NEW p, NEW s, NEW ops, NEW v0, NEW d, NEW u0,
         NEW val, NEW u, Placed(ops), j <= Len(ops), ops[j].num \in SemNums,
         Made(k, p, s, ops, v0, d, u0, val, u)
  PROVE  /\ k \in SemNums /\ j <= NSEMS /\ k = j - 1 /\ j \in 1 .. Len(ops) /\ ops[j].num = k
         /\ ops[j].undo \in BOOLEAN /\ ops[j].op \in Int /\ -SEMVMX <= ops[j].op
<1>1. k \in Nat /\ Len(ops) \in Nat
  BY MadeIs DEF Placed
<1>2. j \in 1 .. Len(ops) /\ k = j - 1
  BY <1>1
<1>3. /\ ops[j].num = k /\ ops[j].undo \in BOOLEAN /\ ops[j].op \in Int /\ -SEMVMX <= ops[j].op
  BY <1>2 DEF Placed
<1>4. k < NSEMS /\ NSEMS \in Nat
  BY <1>3, NumIs
<1>5. j <= NSEMS
  BY <1>1, <1>4
<1> QED BY <1>2, <1>3, <1>5

\* There is room in the list for an operation that lowers the value.
LEMMA RoomBelow ==
  ASSUME NEW k, NEW j, j = k + 1, NEW p, NEW s, NEW ops, NEW v0, NEW d, NEW u0,
         NEW val, NEW u, Placed(ops), j <= Len(ops), ops[j].num \in SemNums,
         Made(k, p, s, ops, v0, d, u0, val, u), LeavesRoom(s, ops, d, u0),
         ops[j].op < 0, ops[j].undo
  PROVE  Due(u, s, k) - ops[j].op \in Room
<1>1. /\ k \in SemNums /\ k = j - 1 /\ j \in 1 .. Len(ops)
      /\ ops[j].op \in Int /\ -SEMVMX <= ops[j].op
  BY TurnIs
<1>2. k <= k
  BY <1>1, NumIs
<1>3. Due(u, s, k) = d[k] /\ Due(u, s, k) \in Room
      /\ (<<s, k>> \in DOMAIN u => <<s, k>> \in DOMAIN u0)
  BY <1>1, <1>2 DEF Made
<1>4. PICK x, o : x = Due(u, s, k) /\ o = ops[j].op
  OBVIOUS
<1>5. x \in Int /\ -SEMVMX <= x /\ x <= SEMVMX /\ o \in Int /\ o < 0 /\ -SEMVMX <= o
  BY <1>1, <1>3, <1>4, RoomHas
<1>6. x - o <= SEMVMX
  <2>1. CASE <<s, k>> \in DOMAIN u
    <3>1. d[k] - ops[j].op <= SEMVMX
      BY <1>1, <1>3, <2>1 DEF LeavesRoom
    <3> QED BY <1>3, <1>4, <3>1
  <2>2. CASE <<s, k>> \notin DOMAIN u
    <3>1. x = 0
      BY <1>4, <2>2 DEF Due
    <3> QED BY <1>5, <3>1, RoomIs
  <2> QED BY <2>1, <2>2
<1>7. x - o \in Int /\ -SEMVMX <= x - o
  BY <1>5, RoomIs
<1>8. x - o \in Room
  BY <1>6, <1>7, RoomHas
<1> QED BY <1>4, <1>8

\* What must hold for a turn of the loop at operation j, with k = j - 1.
Turn(k, j, p, s, ops, v0, d, u0, a) ==
  /\ j = k + 1 /\ s \in SemSets /\ Placed(ops) /\ LeavesRoom(s, ops, d, u0)
  /\ j <= Len(ops) /\ ops[j].num \in SemNums
  /\ IsCall(a) /\ a.st = "go" /\ Made(k, p, s, ops, v0, d, u0, a.val, a.u)

\* A turn that must wait, or fails with IPC_NOWAIT.
LEMMA TurnBlocked ==
  ASSUME NEW k, NEW j, NEW p, NEW s, NEW ops, NEW v0, NEW d, NEW u0, NEW a,
         Turn(k, j, p, s, ops, v0, d, u0, a), NEW kind
  PROVE  Turned(j, p, s, ops, v0, d, u0, Blocked(s, ops, j, a, kind))
<1>1. PICK st : st = (IF ops[j].nowait THEN "fail" ELSE "wait")
  OBVIOUS
<1>2. st \in {"fail", "wait"}
  BY <1>1
<1>3. PICK chan : chan = <<ops[j].num, kind>>
  OBVIOUS
<1>4. k = j - 1
  <2>1. k \in Nat
    BY MadeIs DEF Turn
  <2> QED BY <2>1 DEF Turn
<1>5. Blocked(s, ops, j, a, kind) = Stopped(s, ops, k, a, st, chan)
  BY <1>1, <1>3, <1>4 DEF Blocked
<1>6. Turned(j, p, s, ops, v0, d, u0, Stopped(s, ops, k, a, st, chan))
  BY <1>2, TurnedStopped DEF Turn
<1> QED BY <1>5, <1>6

\* A turn that fails after semundo.
LEMMA TurnFails ==
  ASSUME NEW k, NEW j, NEW p, NEW s, NEW ops, NEW v0, NEW d, NEW u0, NEW a,
         Turn(k, j, p, s, ops, v0, d, u0, a)
  PROVE  Turned(j, p, s, ops, v0, d, u0, Stopped(s, ops, j - 1, a, "fail", a.chan))
<1>1. PICK st, chan : st = "fail" /\ chan = a.chan
  OBVIOUS
<1>4. k = j - 1
  <2>1. k \in Nat
    BY MadeIs DEF Turn
  <2> QED BY <2>1 DEF Turn
<1>6. Turned(j, p, s, ops, v0, d, u0, Stopped(s, ops, k, a, st, chan))
  BY <1>1, TurnedStopped DEF Turn
<1> QED BY <1>1, <1>4, <1>6

\* A turn that ipc_lack_perm ends at the first operation.
LEMMA TurnDenied ==
  ASSUME NEW k, NEW j, NEW p, NEW s, NEW ops, NEW v0, NEW d, NEW u0, NEW a,
         Turn(k, j, p, s, ops, v0, d, u0, a), p \notin SemAlterers
  PROVE  Turned(j, p, s, ops, v0, d, u0, Denied(a))
<1>1. PICK st, b : st = "fail" /\ b = [a EXCEPT !.st = st]
  OBVIOUS
<1>2. PICK val, u : val = a.val /\ u = a.u
  OBVIOUS
<1>3. b.st = st /\ b.val = val /\ b.u = u
  BY <1>1, <1>2, CallFields DEF Turn
<1>4. Unmade(s, v0, d, u0, val, u)
  BY <1>2, DeniedIs DEF Turn
<1>5. b.st \in {"fail", "wait"}
  BY <1>1, <1>3
<1>6. Turned(j, p, s, ops, v0, d, u0, b)
  BY <1>3, <1>4, <1>5, TurnedUnmade
<1> QED BY <1>1, <1>6 DEF Denied

\* A turn with sem_oper == 0.
LEMMA TurnTestZero ==
  ASSUME NEW k, NEW j, NEW p, NEW s, NEW ops, NEW v0, NEW d, NEW u0, NEW a,
         Turn(k, j, p, s, ops, v0, d, u0, a), ops[j].op = 0, SemAlterers \subseteq SemReaders
  PROVE  Turned(j, p, s, ops, v0, d, u0, TestZero(p, s, ops, j, a))
<1>1. CASE p \notin SemReaders
  <2>1. TestZero(p, s, ops, j, a) = Stopped(s, ops, j - 1, a, "fail", a.chan)
    BY <1>1 DEF TestZero
  <2> QED BY <2>1, TurnFails
<1>2. CASE p \in SemReaders /\ a.val[ops[j].num] # 0
  <2>1. PICK kind : kind = "z"
    OBVIOUS
  <2>2. TestZero(p, s, ops, j, a) = Blocked(s, ops, j, a, kind)
    BY <1>2, <2>1 DEF TestZero
  <2> QED BY <2>2, TurnBlocked
<1>3. CASE p \in SemReaders /\ a.val[ops[j].num] = 0
  <2>1. TestZero(p, s, ops, j, a) = a
    BY <1>3 DEF TestZero
  <2>2. PICK val, u : val = a.val /\ u = a.u
    OBVIOUS
  <2>3. Made(k, p, s, ops, v0, d, u0, val, u) /\ a.st = "go"
    BY <2>2 DEF Turn
  <2>4. j <= NSEMS
    BY <2>3, TurnIs DEF Turn
  <2>5. Made(j, p, s, ops, v0, d, u0, val, u)
    BY <2>3, <2>4, MadeTest DEF Turn
  <2>6. Turned(j, p, s, ops, v0, d, u0, a)
    BY <2>2, <2>3, <2>5, TurnedMade
  <2> QED BY <2>1, <2>6
<1> QED BY <1>1, <1>2, <1>3

\* One more operation is made.
LEMMA TurnMakes ==
  ASSUME NEW k, NEW j, NEW p, NEW s, NEW ops, NEW v0, NEW d, NEW u0, NEW a,
         Turn(k, j, p, s, ops, v0, d, u0, a), p \in SemAlterers,
         NEW b, NEW val, NEW u, b.st = "go", b.val = val, b.u = u,
         NEW val1, NEW u1, val1 = a.val, u1 = a.u, OneMore(k, j, s, ops[j], val1, u1, val, u)
  PROVE  Turned(j, p, s, ops, v0, d, u0, b)
<1>1. Made(k, p, s, ops, v0, d, u0, val1, u1)
  BY DEF Turn
<1>2. j <= NSEMS
  BY <1>1, TurnIs DEF Turn
<1>3. Made(j, p, s, ops, v0, d, u0, val, u)
  BY <1>1, <1>2, MadeMore DEF Turn
<1> QED BY <1>3, TurnedMade

\* A turn with sem_oper < 0.
LEMMA TurnDecrement ==
  ASSUME NEW k, NEW j, NEW p, NEW s, NEW ops, NEW v0, NEW d, NEW u0, NEW a,
         Turn(k, j, p, s, ops, v0, d, u0, a), ops[j].op < 0,
         NEW cnt, NEW fresh, NEW full, fresh = 0, full = FALSE
  PROVE  Turned(j, p, s, ops, v0, d, u0, Decrement(p, s, ops, j, a, cnt, fresh, full))
<1>1. CASE p \notin SemAlterers
  <2>1. Decrement(p, s, ops, j, a, cnt, fresh, full) = Denied(a)
    BY <1>1 DEF Decrement
  <2> QED BY <1>1, <2>1, TurnDenied
<1>2. CASE p \in SemAlterers /\ a.val[ops[j].num] < -ops[j].op
  <2>1. PICK kind : kind = "n"
    OBVIOUS
  <2>2. Decrement(p, s, ops, j, a, cnt, fresh, full) = Blocked(s, ops, j, a, kind)
    BY <1>2, <2>1 DEF Decrement
  <2> QED BY <2>2, TurnBlocked
<1>3. CASE p \in SemAlterers /\ ~ (a.val[ops[j].num] < -ops[j].op)
  <2>1. PICK val1, u1 : val1 = a.val /\ u1 = a.u
    OBVIOUS
  <2>2. Made(k, p, s, ops, v0, d, u0, val1, u1)
    BY <2>1 DEF Turn
  <2>3. /\ k \in SemNums /\ ops[j].num = k /\ ops[j].undo \in BOOLEAN /\ ops[j].op \in Int
        /\ -SEMVMX <= ops[j].op
    BY <2>2, TurnIs DEF Turn
  <2>4. PICK op : op = ops[j].op
    OBVIOUS
  <2>5. val1[k] \in 0 .. USHORT - 1 /\ Due(u1, s, k) \in Room
    BY <2>2, <2>3 DEF Made
  <2>6. val1[k] + op \in 0 .. USHORT - 1
    <3>1. PICK x : x = val1[k]
      OBVIOUS
    <3>2. x \in 0 .. USHORT - 1 /\ ~ (x < -op) /\ op \in Int /\ op < 0
      BY <1>3, <2>1, <2>3, <2>4, <2>5, <3>1
    <3>3. x + op \in 0 .. USHORT - 1
      <4>1. USHORT \in Nat
        BY UshortIs
      <4> QED BY <3>2, <4>1
    <3> QED BY <3>1, <3>3
  <2>7. PICK val : ValOn(val, val1, k, op)
    BY DEF ValOn
  <2>8. PICK woke : woke = IF val[k] = 0 THEN a.woke \cup Counted(cnt, {<<k, "z">>}) ELSE a.woke
    OBVIOUS
  <2>9. PICK b1 : b1 = [a EXCEPT !.val = val]
    OBVIOUS
  <2>10. PICK b : b = [b1 EXCEPT !.woke = woke]
    OBVIOUS
  <2>11. /\ IsCall(b1) /\ IsCall(b) /\ b.st = "go" /\ b.val = val /\ b.u = u1
    <3>1. IsCall(a) /\ a.st = "go"
      BY DEF Turn
    <3>2. IsCall(b1) /\ b1.st = a.st /\ b1.val = val /\ b1.u = a.u
      BY <2>9, <3>1, CallSet, CallFields
    <3>3. IsCall(b) /\ b.st = b1.st /\ b.val = b1.val /\ b.u = b1.u
      BY <2>10, <3>2, CallSet, CallFields
    <3> QED BY <2>1, <3>1, <3>2, <3>3
  <2>12. b = [a EXCEPT !.val = val,
                       !.woke = IF val[k] = 0 THEN @ \cup Counted(cnt, {<<k, "z">>}) ELSE @]
    <3>1. PICK st, v, u, w, chan :
            a = [st |-> st, val |-> v, u |-> u, woke |-> w, chan |-> chan]
      BY DEF Turn, IsCall
    <3> QED BY <2>8, <2>9, <2>10, <3>1
  <2>13. CASE ~ ops[j].undo
    <3>1. Decrement(p, s, ops, j, a, cnt, fresh, full) = b
      BY <1>3, <2>1, <2>3, <2>4, <2>7, <2>12, <2>13 DEF Decrement, ValOn
    <3>2. b.st = "go" /\ b.val = val /\ b.u = u1
      BY <2>11
    <3>3. OneMore(k, j, s, ops[j], val1, u1, val, u1)
      BY <2>4, <2>6, <2>7, <2>13 DEF OneMore
    <3>4. Turned(j, p, s, ops, v0, d, u0, b)
      BY <1>3, <2>1, <3>2, <3>3, TurnMakes
    <3> QED BY <3>1, <3>4
  <2>14. CASE ops[j].undo
    <3>1. PICK r : Adj(r, u1, s, k, op, fresh, full)
      BY DEF Adj
    <3>2. Due(u1, s, k) - op \in Room
      <4>1. Due(u1, s, k) - ops[j].op \in Room
        BY <2>2, <2>14, RoomBelow DEF Turn
      <4> QED BY <2>4, <4>1
    <3>3. Adjusted(r, u1, s, k, op, full)
      <4>1. Due(u1, s, k) \in Int /\ op \in Int
        BY <2>3, <2>4, <2>5, RoomHas
      <4> QED BY <3>1, <4>1, SubAdjIs
    <3>4. r.ok /\ Subtracted(r.u, u1, s, k, op)
      BY <3>2, <3>3 DEF Adjusted
    <3>5. PICK u : u = r.u
      OBVIOUS
    <3>6. PICK b2 : b2 = [b EXCEPT !.u = u]
      OBVIOUS
    <3>7. Decrement(p, s, ops, j, a, cnt, fresh, full) = b2
      <4>1. r = iSubAdj(a.u, <<s, ops[j].num>>, ops[j].op, fresh, full)
        BY <2>1, <2>3, <2>4, <3>1 DEF Adj
      <4> QED BY <1>3, <2>1, <2>3, <2>4, <2>7, <2>12, <2>14, <3>4, <3>5, <3>6, <4>1
              DEF Decrement, ValOn
    <3>8. b2.st = "go" /\ b2.val = val /\ b2.u = u
      BY <2>11, <3>6, CallFields
    <3>9. OneMore(k, j, s, ops[j], val1, u1, val, u)
      BY <2>4, <2>6, <2>7, <2>14, <3>2, <3>4, <3>5 DEF OneMore
    <3>10. Turned(j, p, s, ops, v0, d, u0, b2)
      BY <1>3, <2>1, <3>8, <3>9, TurnMakes
    <3> QED BY <3>7, <3>10
  <2> QED BY <2>13, <2>14
<1> QED BY <1>1, <1>2, <1>3

\* What usemop takes back when the value would be too large.
LEMMA LateUndo ==
  ASSUME NEW k, NEW j, j = k + 1, NEW p, NEW s \in SemSets, NEW ops, NEW v0, NEW d, NEW u0,
         NEW val, NEW u, Placed(ops), j <= Len(ops), ops[j].num \in SemNums, ops[j].undo,
         Made(k, p, s, ops, v0, d, u0, val, u),
         NEW u1, Subtracted(u1, u, s, k, ops[j].op),
         NEW r, r = semundo(s, ops, k, val, u1), NEW u2, u2 = UnAdj(r.u, s, ops[j])
  PROVE  Unmade(s, v0, d, u0, r.val, u2)
<1>1. /\ k \in SemNums /\ k = j - 1 /\ j <= NSEMS /\ ops[j].num = k
      /\ ops[j].undo \in BOOLEAN /\ ops[j].op \in Int
  BY TurnIs
<1>2. k \in Nat /\ \A n \in SemNums : n \in Nat
  BY <1>1, NumIs
<1>3. /\ Due(u1, s, k) = Due(u, s, k) - ops[j].op /\ <<s, k>> \in DOMAIN u1
      /\ \A z \in SemSets, n \in SemNums : <<z, n>> # <<s, k>> =>
           Due(u1, z, n) = Due(u, z, n) /\ (<<z, n>> \in DOMAIN u1 <=> <<z, n>> \in DOMAIN u)
  BY DEF Subtracted
<1>4. Due(u, s, k) = d[k] /\ d[k] \in Room
  <2>1. k <= k
    BY <1>2
  <2> QED BY <1>1, <2>1, MadeIs
<1>5. Undoable(k, s, ops, v0, d, val, u1)
  <2>1. ASSUME NEW i \in 1 .. k
        PROVE  /\ val[i - 1] = v0[i - 1] + ops[i].op
               /\ Due(u1, s, i - 1) = IF ops[i].undo THEN d[i - 1] - ops[i].op ELSE d[i - 1]
               /\ ops[i].undo /\ ops[i].op # 0 => <<s, i - 1>> \in DOMAIN u1
    <3>1. PICK m : m = i - 1
      OBVIOUS
    <3>2. m \in SemNums /\ m # k
      <4>1. k < NSEMS
        BY <1>1, NumIs
      <4> QED BY <1>2, <3>1, <4>1, RoomIs DEF SemNums
    <3>3. /\ val[m] = v0[m] + ops[i].op
          /\ Due(u, s, m) = IF ops[i].undo THEN d[m] - ops[i].op ELSE d[m]
          /\ ops[i].undo /\ ops[i].op # 0 => <<s, m>> \in DOMAIN u
      BY <3>1 DEF Made, Undoable
    <3>4. Due(u1, s, m) = Due(u, s, m) /\ (<<s, m>> \in DOMAIN u1 <=> <<s, m>> \in DOMAIN u)
      BY <1>3, <3>2
    <3> QED BY <3>1, <3>3, <3>4
  <2> QED BY <2>1 DEF Made, Undoable
<1>6. Backed(k, r.val, r.u, s, v0, d, val, u1)
  BY <1>5, SemundoIs
<1>7. PICK o, e : o = ops[j] /\ e = d[k]
  OBVIOUS
<1>8. /\ DOMAIN u2 = DOMAIN r.u /\ Due(u2, s, k) = e
      /\ \A z \in SemSets, n \in SemNums : <<z, n>> # <<s, k>> => Due(u2, z, n) = Due(r.u, z, n)
  <2>1. PICK w : w = r.u
    OBVIOUS
  <2>2. /\ DOMAIN w = DOMAIN u1 /\ Due(w, s, k) = Due(u1, s, k)
    <3>1. ~ (k < k)
      BY <1>2
    <3> QED BY <1>1, <1>6, <2>1, <3>1 DEF Backed
  <2>3. /\ o.num = k /\ o.op \in Int /\ o.undo \in BOOLEAN /\ e \in Room /\ e \in Int
    BY <1>1, <1>4, <1>7, <2>1, RoomHas
  <2>7. u2 = UnAdj(w, s, o) /\ o.undo
    BY <1>7, <2>1
  <2>4. Due(w, s, k) = e - o.op
    BY <1>3, <1>4, <1>7, <2>2
  <2>5. Due(w, s, k) = (IF o.undo THEN e - o.op ELSE e)
    BY <2>4, <2>7
  <2>8. Due(w, s, k) \in Int
    BY <2>3, <2>4
  <2>9. o.undo /\ o.op # 0 => <<s, k>> \in DOMAIN w
    BY <1>3, <2>2
  <2>6. Entered(o, w, s, k, e)
    BY <2>3, <2>5, <2>8, <2>9 DEF Entered
  <2>10. Restored(u2, w, s, k, e)
    BY <2>6, <2>7, UnAdjIs
  <2> QED BY <2>1, <2>10 DEF Restored
<1>9. \A n \in SemNums : r.val[n] = v0[n] /\ Due(u2, s, n) = d[n]
  <2> SUFFICES ASSUME NEW n \in SemNums PROVE r.val[n] = v0[n] /\ Due(u2, s, n) = d[n]
    OBVIOUS
  <2>1. r.val[n] = v0[n]
    <3>1. CASE n < k
      BY <1>6, <3>1 DEF Backed
    <3>2. CASE ~ (n < k)
      <4>1. k <= n
        BY <1>2, <3>2
      <4> QED BY <1>6, <3>2, <4>1, MadeIs DEF Backed
    <3> QED BY <3>1, <3>2
  <2>2. CASE n = k
    BY <1>7, <1>8, <2>1, <2>2
  <2>3. CASE n # k
    <3>1. Due(u2, s, n) = Due(r.u, s, n) /\ Due(u1, s, n) = Due(u, s, n)
      BY <1>3, <1>8, <2>3
    <3>2. CASE n < k
      BY <1>6, <2>1, <3>1, <3>2 DEF Backed
    <3>3. CASE ~ (n < k)
      <4>1. k <= n
        BY <1>2, <3>3
      <4>2. Due(r.u, s, n) = Due(u1, s, n)
        BY <1>6, <3>3 DEF Backed
      <4>3. Due(u, s, n) = d[n]
        BY <4>1, MadeIs
      <4> QED BY <2>1, <3>1, <4>2, <4>3
    <3> QED BY <3>2, <3>3
  <2> QED BY <2>2, <2>3
<1>10. \A z \in SemSets, n \in SemNums : z # s => Due(u2, z, n) = Due(u0, z, n)
  <2> SUFFICES ASSUME NEW z \in SemSets, NEW n \in SemNums, z # s
               PROVE  Due(u2, z, n) = Due(u0, z, n)
    OBVIOUS
  <2>1. <<z, n>> # <<s, k>>
    OBVIOUS
  <2>2. Due(u2, z, n) = Due(r.u, z, n)
    BY <1>8, <2>1
  <2>3. Due(r.u, z, n) = Due(u1, z, n)
    BY <1>6 DEF Backed
  <2>4. Due(u1, z, n) = Due(u, z, n)
    BY <1>3, <2>1
  <2>5. Due(u, z, n) = Due(u0, z, n)
    BY DEF Made
  <2> QED BY <2>2, <2>3, <2>4, <2>5
<1> QED BY <1>6, <1>9, <1>10 DEF Unmade, Backed

\* A value of a semaphore fits.
LEMMA BelowUshort ==
  ASSUME NEW y \in Nat, y <= SEMVMX
  PROVE  y \in 0 .. USHORT - 1
<1>1. SEMVMX \in Int /\ SEMVMX < 32768
  BY RoomIs
<1>2. y < USHORT /\ USHORT \in Nat
  BY <1>1, UshortIs
<1> QED BY <1>2

\* A turn with sem_oper > 0.
LEMMA TurnIncrement ==
  ASSUME NEW k, NEW j, NEW p, NEW s, NEW ops, NEW v0, NEW d, NEW u0, NEW a,
         Turn(k, j, p, s, ops, v0, d, u0, a), ops[j].op > 0,
         NEW cnt, NEW fresh, NEW full, fresh = 0, full = FALSE
  PROVE  Turned(j, p, s, ops, v0, d, u0, Increment(p, s, ops, j, a, cnt, fresh, full))
<1>1. CASE p \notin SemAlterers
  <2>1. Increment(p, s, ops, j, a, cnt, fresh, full) = Denied(a)
    BY <1>1 DEF Increment
  <2> QED BY <1>1, <2>1, TurnDenied
<1>2. ASSUME p \in SemAlterers
      PROVE  Turned(j, p, s, ops, v0, d, u0, Increment(p, s, ops, j, a, cnt, fresh, full))
  <2>1. PICK val1, u1 : val1 = a.val /\ u1 = a.u
    OBVIOUS
  <2>2. Made(k, p, s, ops, v0, d, u0, val1, u1) /\ IsCall(a) /\ a.st = "go"
    BY <2>1 DEF Turn
  <2>3. /\ k \in SemNums /\ k = j - 1 /\ ops[j].num = k /\ ops[j].undo \in BOOLEAN /\ ops[j].op \in Int
        /\ -SEMVMX <= ops[j].op
    BY <2>2, TurnIs DEF Turn
  <2>4. PICK op : op = ops[j].op
    OBVIOUS
  <2>5. val1[k] \in 0 .. USHORT - 1 /\ Due(u1, s, k) \in Room
    BY <2>2, <2>3 DEF Made
  <2>6. PICK r : Adj(r, u1, s, k, op, fresh, full)
    BY DEF Adj
  <2>7. Adjusted(r, u1, s, k, op, full)
    <3>1. Due(u1, s, k) \in Int /\ op \in Int
      BY <2>3, <2>4, <2>5, RoomHas
    <3> QED BY <2>6, <3>1, SubAdjIs
  <2>8. r = iSubAdj(a.u, <<s, ops[j].num>>, ops[j].op, fresh, full)
    BY <2>1, <2>3, <2>4, <2>6 DEF Adj
  <2>9. PICK b : b = IF ops[j].undo THEN [a EXCEPT !.u = r.u] ELSE a
    OBVIOUS
  <2>10. PICK u3 : u3 = IF ops[j].undo THEN r.u ELSE u1
    OBVIOUS
  <2>11. IsCall(b) /\ b.st = "go" /\ b.val = val1 /\ b.u = u3
    <3>1. CASE ops[j].undo
      <4>1. PICK v : v = r.u
        OBVIOUS
      <4>2. b = [a EXCEPT !.u = v] /\ u3 = v
        BY <2>9, <2>10, <3>1, <4>1
      <4> QED BY <2>1, <2>2, <4>2, CallSet, CallFields
    <3>2. CASE ~ ops[j].undo
      BY <2>1, <2>2, <2>9, <2>10, <3>2
    <3> QED BY <3>1, <3>2
  <2>12. CASE ops[j].undo /\ ~ r.ok
    <3>1. Increment(p, s, ops, j, a, cnt, fresh, full) = Stopped(s, ops, j - 1, a, "fail", a.chan)
      BY <1>2, <2>8, <2>12 DEF Increment
    <3> QED BY <3>1, TurnFails
  <2>13. CASE ~ (ops[j].undo /\ ~ r.ok) /\ val1[k] > SEMVMX - op
    <3>1. PICK c : c = Stopped(s, ops, j - 1, b, "fail", a.chan)
      OBVIOUS
    <3>2. PICK e : e = [c EXCEPT !.u = UnAdj(c.u, s, ops[j])]
      OBVIOUS
    <3>3. Increment(p, s, ops, j, a, cnt, fresh, full) = e
      BY <1>2, <2>1, <2>3, <2>4, <2>8, <2>9, <2>13, <3>1, <3>2 DEF Increment
    <3>4. PICK q : q = semundo(s, ops, k, val1, u3)
      OBVIOUS
    <3>5. PICK st, chan : st = "fail" /\ chan = a.chan
      OBVIOUS
    <3>6. c = Stopped(s, ops, k, b, st, chan) /\ chan \in Chans
      BY <2>2, <2>3, <3>1, <3>5, CallSet
    <3>7. IsCall(c) /\ c.st = st /\ c.val = q.val /\ c.u = q.u
      <4>1. q = semundo(s, ops, k, b.val, b.u)
        BY <2>11, <3>4
      <4>2. StoppedAs(Stopped(s, ops, k, b, st, chan), st, q)
        BY <2>11, <4>1, StoppedFields
      <4>3. IsCall(Stopped(s, ops, k, b, st, chan))
        BY <2>11, <3>6, StoppedIs
      <4> QED BY <3>6, <4>2, <4>3 DEF StoppedAs
    <3>8. PICK u4 : u4 = UnAdj(q.u, s, ops[j])
      OBVIOUS
    <3>9. e = [c EXCEPT !.u = u4]
      BY <3>2, <3>7, <3>8
    <3>10. e.st = st /\ e.val = q.val /\ e.u = u4
      BY <3>7, <3>9, CallFields
    <3>11. Unmade(s, v0, d, u0, q.val, u4)
      <4>1. CASE ops[j].undo
        <5>1. u3 = r.u /\ r.ok
          BY <2>10, <2>13, <4>1
        <5>2. Subtracted(u3, u1, s, k, ops[j].op)
          BY <2>4, <2>7, <5>1 DEF Adjusted
        <5> QED BY <2>2, <3>4, <3>8, <4>1, <5>2, LateUndo DEF Turn
      <4>2. CASE ~ ops[j].undo
        <5>1. u3 = u1 /\ u4 = q.u
          BY <2>10, <3>8, <4>2 DEF UnAdj
        <5>2. Unmade(s, v0, d, u0, q.val, q.u)
          BY <2>2, <3>4, <5>1, UndoneAll DEF Turn
        <5> QED BY <5>1, <5>2
      <4> QED BY <4>1, <4>2
    <3>12. PICK val : val = q.val
      OBVIOUS
    <3>13. Turned(j, p, s, ops, v0, d, u0, e)
      BY <3>5, <3>10, <3>11, <3>12, TurnedUnmade
    <3> QED BY <3>3, <3>13
  <2>14. CASE ~ (ops[j].undo /\ ~ r.ok) /\ ~ (val1[k] > SEMVMX - op)
    <3>1. PICK x : x = val1[k]
      OBVIOUS
    <3>2. x \in 0 .. USHORT - 1 /\ op \in Int /\ op > 0 /\ ~ (x > SEMVMX - op)
      BY <2>3, <2>4, <2>5, <2>14, <3>1
    <3>3. x + op \in 0 .. USHORT - 1 /\ op <= SEMVMX
      <4>1. SEMVMX \in Int
        BY RoomIs
      <4>2. x \in Nat
        BY <3>2
      <4>3. PICK y : y = x + op
        OBVIOUS
      <4>4. y \in Nat /\ y <= SEMVMX /\ op <= SEMVMX
        BY <3>2, <4>1, <4>2, <4>3
      <4>5. y \in 0 .. USHORT - 1
        BY <4>4, BelowUshort
      <4> QED BY <4>3, <4>4, <4>5
    <3>4. PICK val : ValOn(val, val1, k, op)
      BY DEF ValOn
    <3>5. PICK c1, woke : c1 = [b EXCEPT !.val = val]
                          /\ woke = b.woke \cup Counted(cnt, {<<k, "n">>})
      OBVIOUS
    <3>6. PICK c : c = [c1 EXCEPT !.woke = woke]
      OBVIOUS
    <3>7. IsCall(c) /\ c.st = "go" /\ c.val = val /\ c.u = u3
      <4>1. IsCall(c1) /\ c1.st = b.st /\ c1.val = val /\ c1.u = b.u
        BY <2>11, <3>5, CallSet, CallFields
      <4>2. IsCall(c) /\ c.st = c1.st /\ c.val = c1.val /\ c.u = c1.u
        BY <3>6, <4>1, CallSet, CallFields
      <4> QED BY <2>11, <4>1, <4>2
    <3>8. c = [b EXCEPT !.val[k] = @ + op, !.woke = @ \cup Counted(cnt, {<<k, "n">>})]
      <4>1. val = [b.val EXCEPT ![k] = @ + op]
        BY <2>11, <3>4 DEF ValOn
      <4>2. PICK st, v, u, w, chan :
              b = [st |-> st, val |-> v, u |-> u, woke |-> w, chan |-> chan]
        BY <2>11 DEF IsCall
      <4> QED BY <3>5, <3>6, <4>1, <4>2
    <3>9. Increment(p, s, ops, j, a, cnt, fresh, full) = c
      BY <1>2, <2>1, <2>3, <2>4, <2>8, <2>9, <2>14, <3>8 DEF Increment
    <3>10. Due(u1, s, k) - op \in Room \/ ~ ops[j].undo
      <4> SUFFICES ASSUME ops[j].undo PROVE Due(u1, s, k) - op \in Room
        OBVIOUS
      <4>1. r.ok
        BY <2>14
      <4>2. CASE <<s, k>> \in DOMAIN u1
        BY <2>7, <4>1, <4>2 DEF Adjusted
      <4>3. CASE <<s, k>> \notin DOMAIN u1
        <5>1. Due(u1, s, k) = 0
          BY <4>3 DEF Due
        <5>2. PICK y : y = Due(u1, s, k) - op
          OBVIOUS
        <5>3. y \in Int /\ -SEMVMX <= y /\ y <= SEMVMX
          BY <3>2, <3>3, <5>1, <5>2, RoomIs
        <5> QED BY <5>2, <5>3, RoomHas
      <4> QED BY <4>2, <4>3
    <3>11. OneMore(k, j, s, ops[j], val1, u1, val, u3)
      <4>1. ops[j].undo => Subtracted(u3, u1, s, k, op)
        BY <2>7, <2>10, <2>14 DEF Adjusted
      <4>2. ~ ops[j].undo => u3 = u1
        BY <2>10
      <4> QED BY <2>4, <3>1, <3>3, <3>4, <3>10, <4>1, <4>2 DEF OneMore
    <3>12. Turned(j, p, s, ops, v0, d, u0, c)
      BY <1>2, <2>1, <3>7, <3>11, TurnMakes
    <3> QED BY <3>9, <3>12
  <2> QED BY <2>12, <2>13, <2>14
<1> QED BY <1>1, <1>2

\* Any turn of the loop.
LEMMA StepTurned ==
  ASSUME NEW k \in Nat, NEW j, j = k + 1, NEW p, NEW s \in SemSets, NEW ops, NEW v0, NEW d, NEW u0,
         Placed(ops), LeavesRoom(s, ops, d, u0), j <= Len(ops), SemAlterers \subseteq SemReaders,
         NEW a, IsCall(a), Turned(k, p, s, ops, v0, d, u0, a),
         NEW cnt, NEW fresh, NEW full, fresh = 0, full = FALSE
  PROVE  Turned(j, p, s, ops, v0, d, u0, SemStep(p, s, ops, j, a, cnt, fresh, full))
<1>1. CASE a.st # "go"
  <2>1. SemStep(p, s, ops, j, a, cnt, fresh, full) = a
    BY <1>1 DEF SemStep
  <2>2. Turned(j, p, s, ops, v0, d, u0, a)
    BY <1>1 DEF Turned
  <2> QED BY <2>1, <2>2
<1>2. CASE a.st = "go"
  <2>1. Made(k, p, s, ops, v0, d, u0, a.val, a.u)
    BY <1>2 DEF Turned
  <2>2. CASE ops[j].num \notin SemNums
    <3>1. k = j - 1
      OBVIOUS
    <3>2. PICK st, chan : st = "fail" /\ chan = a.chan
      OBVIOUS
    <3>3. SemStep(p, s, ops, j, a, cnt, fresh, full) = Stopped(s, ops, k, a, st, chan)
      BY <1>2, <2>2, <3>1, <3>2 DEF SemStep
    <3>4. Turned(j, p, s, ops, v0, d, u0, Stopped(s, ops, k, a, st, chan))
      BY <2>1, <3>2, TurnedStopped
    <3> QED BY <3>3, <3>4
  <2>3. CASE ops[j].num \in SemNums
    <3>1. Turn(k, j, p, s, ops, v0, d, u0, a)
      BY <1>2, <2>1, <2>3 DEF Turn
    <3>2. CASE ops[j].op < 0
      <4>1. SemStep(p, s, ops, j, a, cnt, fresh, full) = Decrement(p, s, ops, j, a, cnt, fresh, full)
        BY <1>2, <2>3, <3>2 DEF SemStep
      <4> QED BY <3>1, <3>2, <4>1, TurnDecrement
    <3>3. CASE ops[j].op = 0
      <4>1. SemStep(p, s, ops, j, a, cnt, fresh, full) = TestZero(p, s, ops, j, a)
        BY <1>2, <2>3, <3>3 DEF SemStep
      <4> QED BY <3>1, <3>3, <4>1, TurnTestZero
    <3>5. ops[j].op \in Int
      <4>1. j \in 1 .. Len(ops)
        BY DEF Placed
      <4> QED BY <4>1 DEF Placed
    <3>4. CASE ops[j].op > 0
      <4>1. SemStep(p, s, ops, j, a, cnt, fresh, full) = Increment(p, s, ops, j, a, cnt, fresh, full)
        <5>1. ~ (ops[j].op < 0) /\ ops[j].op # 0
          BY <3>4, <3>5
        <5> QED BY <1>2, <2>3, <5>1 DEF SemStep
      <4> QED BY <3>1, <3>4, <4>1, TurnIncrement
    <3> QED BY <3>2, <3>3, <3>4, <3>5
  <2> QED BY <2>2, <2>3
<1> QED BY <1>1, <1>2

\* What a call starts from.
Starts(s, ops, v0, d, u0) ==
  /\ s \in SemSets /\ Placed(ops) /\ LeavesRoom(s, ops, d, u0)
  /\ v0 \in [SemNums -> 0 .. USHORT - 1] /\ d \in [SemNums -> Room]
  /\ \A n \in SemNums : d[n] = Due(u0, s, n)
  /\ SemAlterers \subseteq SemReaders

\* Before the first turn.
LEMMA TurnedFirst ==
  ASSUME NEW p, NEW s, NEW ops, NEW v0, NEW d, NEW u0, Starts(s, ops, v0, d, u0),
         NEW b, b = Going(v0, u0, {})
  PROVE  Turned(0, p, s, ops, v0, d, u0, b) /\ IsCall(b)
<1>1. PICK st, val, u, woke, chan : /\ st = "go" /\ val = v0 /\ u = u0 /\ woke = {}
                                    /\ chan = <<0, "n">>
  OBVIOUS
<1>2. b = [st |-> st, val |-> val, u |-> u, woke |-> woke, chan |-> chan]
  BY <1>1 DEF Going
<1>3. chan \in Chans
  BY <1>1, FirstChan
<1>4. b.st = "go" /\ b.val = v0 /\ b.u = u0
  BY <1>1, <1>2
<1>5. v0 \in [SemNums -> Int]
  BY DEF Starts
<1>6. \A i : i \notin 1 .. 0
  OBVIOUS
<1>7. 0 \in Nat /\ 0 <= NSEMS /\ 0 <= Len(ops)
  <2>1. Len(ops) \in Nat /\ NSEMS \in Nat
    <3>1. Len(ops) \in Nat
      BY DEF Starts, Placed
    <3>2. NSEMS \in Nat
      BY RoomIs
    <3> QED BY <3>1, <3>2
  <2> QED BY <2>1
<1>8. Undoable(0, s, ops, v0, d, v0, u0)
  BY <1>5, <1>6, <1>7 DEF Undoable, Starts
<1>9. Made(0, p, s, ops, v0, d, u0, v0, u0)
  BY <1>6, <1>8 DEF Made, Starts
<1>10. Turned(0, p, s, ops, v0, d, u0, b)
  BY <1>4, <1>9 DEF Turned
<1> QED BY <1>2, <1>3, <1>10 DEF IsCall

\* A call of usemop makes all of its operations or leaves nothing.
LEMMA TryTurned ==
  ASSUME NEW p \in SemProcs, NEW s, NEW ops, NEW v0, NEW d, NEW u0, v0 = semval[s], u0 = semu[p],
         Starts(s, ops, v0, d, u0), NEW cnt, NEW fresh, NEW full, fresh = 0, full = FALSE
  PROVE  Turned(Len(ops), p, s, ops, v0, d, u0, SemTry(p, s, ops, cnt, fresh, full))
<1> DEFINE N == Len(ops)
           Is(h) == IsTry(h, N, p, s, ops, cnt, fresh, full)
<1>0. N \in Nat
  BY DEF Starts, Placed
<1>1. PICK g : g = CHOOSE h : Is(h)
  OBVIOUS
<1>2. Is(g)
  <2>1. \E h : Is(h)
    <3> HIDE DEF N
    <3> QED BY <1>0, TryExists
  <2> HIDE DEF Is
  <2> QED BY <1>1, <2>1
<1>3. SemTry(p, s, ops, cnt, fresh, full) = g[N]
  BY <1>1 DEF SemTry, IsTry, SemStep
<1> HIDE DEF N
<1>4. /\ g[0] = Going(v0, u0, {})
      /\ \A i \in 1 .. N : g[i] = SemStep(p, s, ops, i, g[i - 1], cnt, fresh, full)
  <2>1. 0 \in 0 .. N /\ \A i \in 1 .. N : i \in 0 .. N /\ i # 0
    BY <1>0
  <2> QED BY <1>2, <2>1 DEF IsTry
<1> HIDE DEF Is
<1> DEFINE Good(i) == Turned(i, p, s, ops, v0, d, u0, g[i]) /\ IsCall(g[i])
           G == {i \in 0 .. N : Good(i)}
<1>5. 0 \in G
  <2>1. PICK b : b = g[0]
    OBVIOUS
  <2>2. Turned(0, p, s, ops, v0, d, u0, b) /\ IsCall(b)
    BY <1>4, <2>1, TurnedFirst
  <2>3. 0 \in 0 .. N
    BY <1>0
  <2> QED BY <2>1, <2>2, <2>3
<1>6. ASSUME NEW j \in 1 .. N, j - 1 \in G PROVE j \in G
  <2>1. PICK k : k = j - 1
    OBVIOUS
  <2>2. k \in Nat /\ j = k + 1 /\ j <= N /\ j \in 0 .. N
    BY <1>0, <2>1
  <2>3. PICK a : a = g[k]
    OBVIOUS
  <2>4. Turned(k, p, s, ops, v0, d, u0, a) /\ IsCall(a)
    BY <1>6, <2>1, <2>3
  <2>5. j <= Len(ops)
    BY <2>2 DEF N
  <2>6. /\ s \in SemSets /\ Placed(ops) /\ LeavesRoom(s, ops, d, u0) /\ SemAlterers \subseteq SemReaders
    BY DEF Starts
  <2>7. Turned(j, p, s, ops, v0, d, u0, SemStep(p, s, ops, j, a, cnt, fresh, full))
    BY <2>2, <2>4, <2>5, <2>6, StepTurned
  <2>8. IsCall(SemStep(p, s, ops, j, a, cnt, fresh, full))
    BY <2>4, SemStepIs
  <2>9. g[j] = SemStep(p, s, ops, j, a, cnt, fresh, full)
    BY <1>4, <2>1, <2>3
  <2> QED BY <2>2, <2>7, <2>8, <2>9
<1>7. Good(N)
  <2> HIDE DEF G
  <2>1. \A i \in 0 .. N : i \in G
    BY <1>0, <1>5, <1>6, Upwards
  <2>2. N \in G
    BY <1>0, <2>1
  <2> QED BY <2>2 DEF G
<1> QED BY <1>3, <1>7 DEF N

\* What a completed array leaves: the operation of each semaphore, unless it
\* is undone.
Left(ops, n) == IF n < Len(ops) /\ ~ ops[n + 1].undo THEN ops[n + 1].op ELSE 0

\* With one operation for each semaphore at most, what lasts is that one.
LEMMA LastingIs ==
  ASSUME NEW ops, Placed(ops), ops \in Seq([num : Nat, op : Int, undo : BOOLEAN, nowait : BOOLEAN]),
         NEW n \in SemNums
  PROVE  Lasting(ops, n) = Left(ops, n)
<1>1. n \in Nat /\ Len(ops) \in Nat /\ DOMAIN ops = 1 .. Len(ops)
  BY NumIs DEF Placed
<1>2. PICK f : f = [i \in DOMAIN ops |-> ops[i].op]
  OBVIOUS
<1>3. PICK I : I = {i \in DOMAIN ops : ops[i].num = n /\ ~ops[i].undo}
  OBVIOUS
<1>4. Lasting(ops, n) = SumFunctionOnSet(f, I)
  BY <1>2, <1>3 DEF Lasting
<1>5. \A i \in 1 .. Len(ops) : ops[i].num = n <=> i = n + 1
  <2> SUFFICES ASSUME NEW i \in 1 .. Len(ops) PROVE ops[i].num = n <=> i = n + 1
    OBVIOUS
  <2>1. ops[i].num = i - 1
    BY DEF Placed
  <2> QED BY <1>1, <2>1
<1>6. CASE n < Len(ops) /\ ~ ops[n + 1].undo
  <2>1. PICK i : i = n + 1
    OBVIOUS
  <2>2. i \in 1 .. Len(ops)
    BY <1>1, <1>6, <2>1
  <2>3. I = {i}
    BY <1>1, <1>3, <1>5, <1>6, <2>1, <2>2
  <2>4. f[i] = ops[i].op /\ ops[i].op \in Int
    BY <1>1, <1>2, <2>2 DEF Placed
  <2>5. PICK x : x = f[i]
    OBVIOUS
  <2>6. IsFiniteSet(I) /\ (\A k \in I : f[k] \in Int) /\ i \in I
    BY <2>3, <2>4, FS_Singleton
  <2>7. SumFunctionOnSet(f, I) = f[i] + SumFunctionOnSet(f, I \ {i})
    BY <2>6, SumPick
  <2>8. I \ {i} = {}
    BY <2>3
  <2>9. SumFunctionOnSet(f, {}) = 0
    BY SumEmpty
  <2>10. SumFunctionOnSet(f, I) = ops[i].op
    <3>1. PICK y : y = SumFunctionOnSet(f, I \ {i})
      OBVIOUS
    <3>2. y = 0
      BY <2>8, <2>9, <3>1
    <3>3. SumFunctionOnSet(f, I) = x + y /\ x = ops[i].op /\ x \in Int
      BY <2>4, <2>5, <2>7, <3>1
    <3> QED BY <3>2, <3>3
  <2> QED BY <1>4, <1>6, <2>1, <2>10 DEF Left
<1>7. CASE ~ (n < Len(ops) /\ ~ ops[n + 1].undo)
  <2>1. I = {}
    <3> SUFFICES ASSUME NEW i \in I PROVE FALSE
      OBVIOUS
    <3>1. i \in 1 .. Len(ops) /\ ops[i].num = n /\ ~ ops[i].undo
      BY <1>1, <1>3
    <3>2. i = n + 1
      BY <1>5, <3>1
    <3>3. n < Len(ops)
      BY <1>1, <3>1, <3>2
    <3> QED BY <1>7, <3>1, <3>2, <3>3
  <2>2. SumFunctionOnSet(f, I) = 0
    BY <2>1, SumEmpty
  <2> QED BY <1>4, <1>7, <2>2 DEF Left
<1> QED BY <1>6, <1>7

\* The values and the entries that a completed array leaves.
LEMMA WholeIs ==
  ASSUME NEW p, NEW s, NEW ops, NEW v0, NEW d, NEW u0, NEW val, NEW u,
         Placed(ops), Made(Len(ops), p, s, ops, v0, d, u0, val, u), NEW n \in SemNums
  PROVE  /\ v0[n] \in Int /\ d[n] \in Int /\ val[n] \in Int /\ Due(u, s, n) \in Int
         /\ val[n] + Due(u, s, n) = (v0[n] + d[n]) + Left(ops, n)
         /\ Left(ops, n) \in Int
<1>1. n \in Nat /\ Len(ops) \in Nat
  BY NumIs DEF Placed
<1>2. v0[n] \in Int /\ d[n] \in Int
  <2>1. v0[n] \in 0 .. USHORT - 1 /\ d[n] \in Room
    BY MadeIs
  <2>2. v0[n] \in Int
    BY <2>1
  <2> QED BY <2>1, <2>2, RoomHas
<1>3. CASE n < Len(ops)
  <2>1. PICK i : i = n + 1
    OBVIOUS
  <2>2. i \in 1 .. Len(ops) /\ i - 1 = n
    BY <1>1, <1>3, <2>1
  <2>3. /\ val[n] = v0[n] + ops[i].op
        /\ Due(u, s, n) = IF ops[i].undo THEN d[n] - ops[i].op ELSE d[n]
    BY <2>2 DEF Made, Undoable
  <2>4. ops[i].op \in Int /\ ops[i].undo \in BOOLEAN
    BY <2>2 DEF Placed
  <2>5. Left(ops, n) = IF ops[i].undo THEN 0 ELSE ops[i].op
    BY <1>3, <2>1 DEF Left
  <2>6. PICK o : o = ops[i].op
    OBVIOUS
  <2>7. CASE ops[i].undo
    <3>1. val[n] = v0[n] + o /\ Due(u, s, n) = d[n] - o /\ Left(ops, n) = 0 /\ o \in Int
      BY <2>3, <2>4, <2>5, <2>6, <2>7
    <3> QED BY <1>2, <3>1
  <2>8. CASE ~ ops[i].undo
    <3>1. val[n] = v0[n] + o /\ Due(u, s, n) = d[n] /\ Left(ops, n) = o /\ o \in Int
      BY <2>3, <2>4, <2>5, <2>6, <2>8
    <3> QED BY <1>2, <3>1
  <2> QED BY <2>7, <2>8
<1>4. CASE ~ (n < Len(ops))
  <2>1. Len(ops) <= n
    BY <1>1, <1>4
  <2>2. val[n] = v0[n] /\ Due(u, s, n) = d[n]
    BY <2>1, MadeIs
  <2>3. Left(ops, n) = 0
    BY <1>4 DEF Left
  <2> QED BY <1>2, <2>2, <2>3
<1> QED BY <1>3, <1>4

\* AllDue of the lists us.
AllOf(us, s, n) == SumFunctionOnSet([p \in SemProcs |-> Due(us[p], s, n)], SemProcs)

\* The sum of all lists is an integer.
LEMMA AllInt ==
  ASSUME NEW us, NEW s, NEW n, \A q \in SemProcs : Due(us[q], s, n) \in Int
  PROVE  AllOf(us, s, n) \in Int
<1>1. PICK f : f = [p \in SemProcs |-> Due(us[p], s, n)]
  OBVIOUS
<1>2. IsFiniteSet(SemProcs) /\ \A q \in SemProcs : f[q] \in Int
  <2>1. IsFiniteSet(SemProcs)
    BY SemAssumption
  <2>2. \A q \in SemProcs : f[q] \in Int
    BY <1>1
  <2> QED BY <2>1, <2>2
<1>3. SumFunctionOnSet(f, SemProcs) \in Int
  BY <1>2, SumPick
<1> QED BY <1>1, <1>3 DEF AllOf

\* The sum does not change when no list does.
LEMMA AllSame ==
  ASSUME NEW us, NEW vs, NEW s, NEW n, \A q \in SemProcs : Due(vs[q], s, n) = Due(us[q], s, n)
  PROVE  AllOf(vs, s, n) = AllOf(us, s, n)
<1>1. PICK f, e : /\ f = [p \in SemProcs |-> Due(us[p], s, n)]
                  /\ e = [p \in SemProcs |-> Due(vs[p], s, n)]
  OBVIOUS
<1>2. f = e
  BY <1>1
<1> QED BY <1>1, <1>2 DEF AllOf

\* The sum when the list of p changes.
LEMMA AllOne ==
  ASSUME NEW us, NEW vs, NEW s, NEW n, NEW p \in SemProcs,
         \A q \in SemProcs : Due(us[q], s, n) \in Int, Due(vs[p], s, n) \in Int,
         \A q \in SemProcs : q # p => Due(vs[q], s, n) = Due(us[q], s, n)
  PROVE  AllOf(vs, s, n) = AllOf(us, s, n) - Due(us[p], s, n) + Due(vs[p], s, n)
<1>1. PICK f, e : /\ f = [q \in SemProcs |-> Due(us[q], s, n)]
                  /\ e = [q \in SemProcs |-> Due(vs[q], s, n)]
  OBVIOUS
<1>2. /\ IsFiniteSet(SemProcs) /\ (\A q \in SemProcs : f[q] \in Int) /\ e[p] \in Int
      /\ \A q \in SemProcs \ {p} : e[q] = f[q]
  <2>1. IsFiniteSet(SemProcs)
    BY SemAssumption
  <2>2. (\A q \in SemProcs : f[q] \in Int) /\ e[p] \in Int /\ \A q \in SemProcs \ {p} : e[q] = f[q]
    BY <1>1
  <2> QED BY <2>1, <2>2
<1>3. SumFunctionOnSet(e, SemProcs) = SumFunctionOnSet(f, SemProcs) - f[p] + e[p]
  BY <1>2, SumOne
<1>4. /\ f[p] = Due(us[p], s, n) /\ e[p] = Due(vs[p], s, n)
      /\ AllOf(us, s, n) = SumFunctionOnSet(f, SemProcs)
      /\ AllOf(vs, s, n) = SumFunctionOnSet(e, SemProcs)
  BY <1>1 DEF AllOf
<1> QED BY <1>3, <1>4

\* The sum when no list holds anything.
LEMMA AllNone ==
  ASSUME NEW us, NEW s, NEW n, \A q \in SemProcs : Due(us[q], s, n) = 0
  PROVE  AllOf(us, s, n) = 0
<1>1. PICK f : f = [p \in SemProcs |-> Due(us[p], s, n)]
  OBVIOUS
<1>2. IsFiniteSet(SemProcs) /\ \A q \in SemProcs : f[q] = 0
  <2>1. IsFiniteSet(SemProcs)
    BY SemAssumption
  <2>2. \A q \in SemProcs : f[q] = 0
    BY <1>1
  <2> QED BY <2>1, <2>2
<1>3. SumFunctionOnSet(f, SemProcs) = 0
  BY <1>2, SumZero
<1> QED BY <1>1, <1>3 DEF AllOf

\* One set, whose values and lasting values are val and perm, with the undo
\* lists us.
SetOk(s, alloc, gen, val, us, perm) ==
  /\ val \in [SemNums -> 0 .. USHORT - 1] /\ perm \in [SemNums -> Int]
  /\ \A q \in SemProcs, n \in SemNums : Due(us[q], s, n) \in Room
  /\ gen = 0 => \A q \in SemProcs, n \in SemNums : Due(us[q], s, n) = 0
  /\ alloc /\ gen <= 1 =>
       \A n \in SemNums : (val[n] + AllOf(us, s, n)) % USHORT = perm[n] % USHORT

\* The values of a set and what is due are integers.
LEMMA SetOkIs ==
  ASSUME NEW s, NEW alloc, NEW gen, NEW val, NEW us, NEW perm,
         SetOk(s, alloc, gen, val, us, perm), NEW n \in SemNums
  PROVE  /\ val[n] \in Int /\ perm[n] \in Int /\ AllOf(us, s, n) \in Int
         /\ \A q \in SemProcs : Due(us[q], s, n) \in Int
<1>1. val[n] \in 0 .. USHORT - 1 /\ perm[n] \in Int /\ \A q \in SemProcs : Due(us[q], s, n) \in Room
  BY DEF SetOk
<1>2. val[n] \in Int
  BY <1>1
<1>3. \A q \in SemProcs : Due(us[q], s, n) \in Int
  BY <1>1, RoomHas
<1>4. AllOf(us, s, n) \in Int
  BY <1>3, AllInt
<1> QED BY <1>1, <1>2, <1>3, <1>4

\* The lists change, but not for s; the set may go.
LEMMA SetSame ==
  ASSUME NEW s, NEW alloc, NEW gen, NEW val, NEW us, NEW perm, NEW vs, NEW alloc2,
         SetOk(s, alloc, gen, val, us, perm), alloc2 => alloc,
         \A q \in SemProcs, n \in SemNums : Due(vs[q], s, n) = Due(us[q], s, n)
  PROVE  SetOk(s, alloc2, gen, val, vs, perm)
<1>1. \A n \in SemNums : AllOf(vs, s, n) = AllOf(us, s, n)
  BY AllSame
<1>2. /\ \A q \in SemProcs, n \in SemNums : Due(vs[q], s, n) \in Room
      /\ gen = 0 => \A q \in SemProcs, n \in SemNums : Due(vs[q], s, n) = 0
  BY DEF SetOk
<1>3. alloc2 /\ gen <= 1 =>
        \A n \in SemNums : (val[n] + AllOf(vs, s, n)) % USHORT = perm[n] % USHORT
  BY <1>1 DEF SetOk
<1> QED BY <1>2, <1>3 DEF SetOk

\* A call of p for s changes the values, the list of p and what lasts alike.
Moves(p, s, val, us, perm, val2, vs, perm2, l) ==
  /\ \A q \in SemProcs, n \in SemNums : q # p => Due(vs[q], s, n) = Due(us[q], s, n)
  /\ val2 \in [SemNums -> 0 .. USHORT - 1] /\ perm2 \in [SemNums -> Int]
  /\ \A n \in SemNums : /\ Due(vs[p], s, n) \in Room /\ l[n] \in Int
                        /\ val2[n] + Due(vs[p], s, n) = (val[n] + Due(us[p], s, n)) + l[n]
                        /\ perm2[n] = perm[n] + l[n]

\* A call of p for s: l is what it leaves.
LEMMA SetMade ==
  ASSUME NEW s, NEW alloc, NEW gen, NEW val, NEW us, NEW perm, NEW vs, NEW val2, NEW perm2, NEW l,
         SetOk(s, alloc, gen, val, us, perm), alloc, gen # 0, NEW p \in SemProcs,
         Moves(p, s, val, us, perm, val2, vs, perm2, l)
  PROVE  SetOk(s, alloc, gen, val2, vs, perm2)
<1>0. /\ \A q \in SemProcs, n \in SemNums : q # p => Due(vs[q], s, n) = Due(us[q], s, n)
      /\ val2 \in [SemNums -> 0 .. USHORT - 1] /\ perm2 \in [SemNums -> Int]
      /\ \A n \in SemNums : /\ Due(vs[p], s, n) \in Room /\ l[n] \in Int
                            /\ val2[n] + Due(vs[p], s, n) = (val[n] + Due(us[p], s, n)) + l[n]
                            /\ perm2[n] = perm[n] + l[n]
  BY DEF Moves
<1>1. \A q \in SemProcs, n \in SemNums : Due(vs[q], s, n) \in Room
  <2> SUFFICES ASSUME NEW q \in SemProcs, NEW n \in SemNums PROVE Due(vs[q], s, n) \in Room
    OBVIOUS
  <2>1. CASE q = p
    BY <1>0, <2>1
  <2>2. CASE q # p
    BY <1>0, <2>2 DEF SetOk
  <2> QED BY <2>1, <2>2
<1>2. ASSUME gen <= 1, NEW n \in SemNums
      PROVE  (val2[n] + AllOf(vs, s, n)) % USHORT = perm2[n] % USHORT
  <2>1. /\ val[n] \in Int /\ perm[n] \in Int /\ AllOf(us, s, n) \in Int
        /\ \A q \in SemProcs : Due(us[q], s, n) \in Int
    BY SetOkIs
  <2>2. PICK v, a, m, x, y, k, w, b, m2 :
          /\ v = val[n] /\ a = AllOf(us, s, n) /\ m = perm[n] /\ x = Due(us[p], s, n)
          /\ y = Due(vs[p], s, n) /\ k = l[n] /\ w = val2[n] /\ b = AllOf(vs, s, n)
          /\ m2 = perm2[n]
    OBVIOUS
  <2>3. y \in Int
    BY <1>1, <2>2, RoomHas
  <2>4. b = a - x + y
    <3>1. Due(vs[p], s, n) \in Int
      BY <2>2, <2>3
    <3>2. AllOf(vs, s, n) = AllOf(us, s, n) - Due(us[p], s, n) + Due(vs[p], s, n)
      BY <1>0, <2>1, <3>1, AllOne
    <3> QED BY <2>2, <3>2
  <2>5. w \in Int
    <3>1. w \in 0 .. USHORT - 1
      BY <1>0, <2>2
    <3> QED BY <3>1
  <2>6. v \in Int /\ a \in Int /\ m \in Int /\ x \in Int /\ k \in Int
    BY <1>0, <2>1, <2>2
  <2>7. (v + a) % USHORT = m % USHORT
    BY <1>2, <2>2 DEF SetOk
  <2>8. w + y = (v + x) + k /\ m2 = m + k
    BY <1>0, <2>2
  <2>9. (w + b) % USHORT = m2 % USHORT
    <3>1. PICK c : c = v + a
      OBVIOUS
    <3>2. c \in Int /\ c % USHORT = m % USHORT
      BY <2>6, <2>7, <3>1
    <3>3. w + b = c + k
      BY <2>3, <2>4, <2>5, <2>6, <2>8, <3>1
    <3>4. (c + k) % USHORT = (m + k) % USHORT
      BY <2>6, <3>2, ShiftedAlike
    <3> QED BY <2>8, <3>3, <3>4
  <2> QED BY <2>2, <2>9
<1> QED BY <1>0, <1>1, <1>2 DEF SetOk

\* p exits: its entries move into the values.
Exited(p, s, alloc, val, us, vs, val2) ==
  /\ \A q \in SemProcs, n \in SemNums : q # p => Due(vs[q], s, n) = Due(us[q], s, n)
  /\ \A n \in SemNums : Due(vs[p], s, n) = 0
  /\ val2 \in [SemNums -> 0 .. USHORT - 1]
  /\ alloc => \A n \in SemNums : val2[n] = (val[n] + Due(us[p], s, n)) % USHORT

\* The balance of a set when p exits.
LEMMA SetExited ==
  ASSUME NEW s, NEW alloc, NEW gen, NEW val, NEW us, NEW perm, NEW vs, NEW val2, NEW p \in SemProcs,
         SetOk(s, alloc, gen, val, us, perm), Exited(p, s, alloc, val, us, vs, val2)
  PROVE  SetOk(s, alloc, gen, val2, vs, perm)
<1>3. /\ \A q \in SemProcs, n \in SemNums : q # p => Due(vs[q], s, n) = Due(us[q], s, n)
      /\ \A n \in SemNums : Due(vs[p], s, n) = 0
      /\ val2 \in [SemNums -> 0 .. USHORT - 1]
      /\ alloc => \A n \in SemNums : val2[n] = (val[n] + Due(us[p], s, n)) % USHORT
  BY DEF Exited
<1>0. 0 \in Room
  <2>1. PICK x : x = 0
    OBVIOUS
  <2>2. x \in Int /\ -SEMVMX <= x /\ x <= SEMVMX
    BY <2>1, RoomIs
  <2> QED BY <2>1, <2>2, RoomHas
<1>1. /\ \A q \in SemProcs, n \in SemNums : Due(vs[q], s, n) \in Room
      /\ gen = 0 => \A q \in SemProcs, n \in SemNums : Due(vs[q], s, n) = 0
  <2> SUFFICES ASSUME NEW q \in SemProcs, NEW n \in SemNums
               PROVE  Due(vs[q], s, n) \in Room /\ (gen = 0 => Due(vs[q], s, n) = 0)
    OBVIOUS
  <2>1. CASE q = p
    BY <1>0, <1>3, <2>1
  <2>2. CASE q # p
    BY <1>3, <2>2 DEF SetOk
  <2> QED BY <2>1, <2>2
<1>2. ASSUME alloc, gen <= 1, NEW n \in SemNums
      PROVE  (val2[n] + AllOf(vs, s, n)) % USHORT = perm[n] % USHORT
  <2>1. /\ val[n] \in Int /\ perm[n] \in Int /\ AllOf(us, s, n) \in Int
        /\ \A q \in SemProcs : Due(us[q], s, n) \in Int
    BY SetOkIs
  <2>2. PICK v, a, m, x, b :
          /\ v = val[n] /\ a = AllOf(us, s, n) /\ m = perm[n] /\ x = Due(us[p], s, n)
          /\ b = AllOf(vs, s, n)
    OBVIOUS
  <2>3. PICK y : y = Due(vs[p], s, n)
    OBVIOUS
  <2>4. y = 0 /\ y \in Int
    BY <1>3, <2>3
  <2>5. b = a - x + y
    <3>1. Due(vs[p], s, n) \in Int
      BY <2>3, <2>4
    <3>2. AllOf(vs, s, n) = AllOf(us, s, n) - Due(us[p], s, n) + Due(vs[p], s, n)
      BY <1>3, <2>1, <3>1, AllOne
    <3> QED BY <2>2, <2>3, <3>2
  <2>6. v \in Int /\ a \in Int /\ m \in Int /\ x \in Int /\ b \in Int
    <3>1. v \in Int /\ a \in Int /\ m \in Int /\ x \in Int
      BY <2>1, <2>2
    <3> QED BY <2>4, <2>5, <3>1
  <2>7. (v + a) % USHORT = m % USHORT
    BY <1>2, <2>2 DEF SetOk
  <2>8. PICK w : w = v + x
    OBVIOUS
  <2>9. w \in Int /\ w + b = v + a
    BY <2>4, <2>5, <2>6, <2>8
  <2>10. ((w % USHORT) + b) % USHORT = (w + b) % USHORT
    BY <2>6, <2>9, FoldedOnce
  <2>11. val2[n] = w % USHORT
    BY <1>2, <1>3, <2>2, <2>8
  <2> QED BY <2>2, <2>7, <2>9, <2>10, <2>11
<1> QED BY <1>1, <1>2, <1>3 DEF SetOk

\* The semaphores K of the set are given values, and their entries cleared.
Given(s, K, val, us, perm, val2, vs, perm2) ==
  /\ val2 \in [SemNums -> 0 .. USHORT - 1] /\ perm2 \in [SemNums -> Int]
  /\ \A n \in SemNums :
       IF n \in K THEN val2[n] = perm2[n] /\ \A q \in SemProcs : Due(vs[q], s, n) = 0
       ELSE /\ val2[n] = val[n] /\ perm2[n] = perm[n]
            /\ \A q \in SemProcs : Due(vs[q], s, n) = Due(us[q], s, n)

\* The balance of a set after SETVAL or SETALL.
LEMMA SetGiven ==
  ASSUME NEW s, NEW alloc, NEW gen, NEW val, NEW us, NEW perm, NEW vs, NEW val2, NEW perm2, NEW K,
         SetOk(s, alloc, gen, val, us, perm), Given(s, K, val, us, perm, val2, vs, perm2)
  PROVE  SetOk(s, alloc, gen, val2, vs, perm2)
<1>3. /\ val2 \in [SemNums -> 0 .. USHORT - 1] /\ perm2 \in [SemNums -> Int]
      /\ \A n \in SemNums :
           IF n \in K THEN val2[n] = perm2[n] /\ \A q \in SemProcs : Due(vs[q], s, n) = 0
           ELSE /\ val2[n] = val[n] /\ perm2[n] = perm[n]
                /\ \A q \in SemProcs : Due(vs[q], s, n) = Due(us[q], s, n)
  BY DEF Given
<1>0. 0 \in Room
  <2>1. PICK x : x = 0
    OBVIOUS
  <2>2. x \in Int /\ -SEMVMX <= x /\ x <= SEMVMX
    BY <2>1, RoomIs
  <2> QED BY <2>1, <2>2, RoomHas
<1>1. /\ \A q \in SemProcs, n \in SemNums : Due(vs[q], s, n) \in Room
      /\ gen = 0 => \A q \in SemProcs, n \in SemNums : Due(vs[q], s, n) = 0
  <2> SUFFICES ASSUME NEW q \in SemProcs, NEW n \in SemNums
               PROVE  Due(vs[q], s, n) \in Room /\ (gen = 0 => Due(vs[q], s, n) = 0)
    OBVIOUS
  <2>1. CASE n \in K
    BY <1>0, <1>3, <2>1
  <2>2. CASE n \notin K
    BY <1>3, <2>2 DEF SetOk
  <2> QED BY <2>1, <2>2
<1>2. ASSUME alloc, gen <= 1, NEW n \in SemNums
      PROVE  (val2[n] + AllOf(vs, s, n)) % USHORT = perm2[n] % USHORT
  <2>1. CASE n \in K
    <3>1. AllOf(vs, s, n) = 0
      BY <1>3, <2>1, AllNone
    <3>2. val2[n] \in 0 .. USHORT - 1 /\ val2[n] = perm2[n]
      BY <1>3, <2>1
    <3>3. PICK x, y : x = val2[n] /\ y = AllOf(vs, s, n)
      OBVIOUS
    <3>4. x \in Int /\ y = 0
      BY <3>1, <3>2, <3>3
    <3>5. x + y = x
      BY <3>4
    <3> QED BY <3>2, <3>3, <3>5
  <2>2. CASE n \notin K
    <3>1. AllOf(vs, s, n) = AllOf(us, s, n)
      BY <1>3, <2>2, AllSame
    <3> QED BY <1>2, <1>3, <2>2, <3>1 DEF SetOk
  <2> QED BY <2>1, <2>2
<1> QED BY <1>1, <1>2, <1>3 DEF SetOk

\* The arrays and the memory for which a call can be taken back: operation i
\* is for semaphore i - 1, kalloc succeeds and clears, and who may alter a set
\* may read it.
SemPlain ==
  /\ SemFresh \subseteq {0} /\ SemFull \subseteq {FALSE} /\ SemAlterers \subseteq SemReaders
  /\ \A ops \in SemOps : \A i \in DOMAIN ops : ops[i].num = i - 1 /\ -SEMVMX <= ops[i].op

\* iSubAdj can record what a process that is in usemop, or may call it, lowers.
SemRoom ==
  \A p \in SemProcs, s \in SemSets, ops \in SemOps : \A i \in DOMAIN ops :
    /\ semPc[p] # "run" \/ semCalls[p] < MaxCalls
    /\ ops[i].undo /\ ops[i].op < 0 /\ <<s, ops[i].num>> \in DOMAIN semu[p]
    => semu[p][<<s, ops[i].num>>] - ops[i].op <= SEMVMX

Lists(us) == \E Z : us \in [SemProcs -> Z]

UndoInv ==
  /\ \E Z : semval \in [SemSets -> Z] /\ semPerm \in [SemSets -> Z]
  /\ Lists(semu)
  /\ \A s \in SemSets : SetOk(s, semAlloc[s], semGen[s], semval[s], semu, semPerm[s])

\* The arrays that SemPlain allows are in the order of the semaphores.
LEMMA ArrayPlaced ==
  ASSUME SemPlain, NEW ops \in SemArrays
  PROVE  /\ Placed(ops)
         /\ ops \in Seq([num : Nat, op : Int, undo : BOOLEAN, nowait : BOOLEAN])
<1>1. PICK R : R = [num : Nat, op : Int, undo : BOOLEAN, nowait : BOOLEAN]
  OBVIOUS
<1>2. ops \in Seq(R)
  <2>1. << >> \in Seq(R)
    OBVIOUS
  <2>2. ops \in SemOps => ops \in Seq(R)
    BY <1>1, SemAssumption
  <2> QED BY <2>1, <2>2 DEF SemArrays
<1>3. Len(ops) \in Nat /\ DOMAIN ops = 1 .. Len(ops) /\ \A i \in 1 .. Len(ops) : ops[i] \in R
  BY <1>2
<1>4. ASSUME NEW i \in 1 .. Len(ops)
      PROVE  /\ ops[i].num = i - 1 /\ ops[i].undo \in BOOLEAN
             /\ ops[i].op \in Int /\ -SEMVMX <= ops[i].op
  <2>1. ops \in SemOps
    BY <1>4 DEF SemArrays
  <2>2. ops[i].num = i - 1 /\ -SEMVMX <= ops[i].op
    BY <1>3, <2>1 DEF SemPlain
  <2>3. PICK o : o = ops[i]
    OBVIOUS
  <2>4. o.undo \in BOOLEAN /\ o.op \in Int
    BY <1>1, <1>3, <2>3
  <2> QED BY <2>2, <2>3, <2>4
<1> QED BY <1>1, <1>2, <1>3, <1>4 DEF Placed

\* SemRoom leaves room for the array that p passes.
LEMMA RoomLeft ==
  ASSUME SemPlain, SemRoom, NEW ops \in SemArrays, NEW p \in SemProcs, NEW s \in SemSets,
         semPc[p] # "run" \/ semCalls[p] < MaxCalls,
         NEW d, NEW u0, u0 = semu[p], \A n \in SemNums : d[n] = Due(u0, s, n)
  PROVE  LeavesRoom(s, ops, d, u0)
<1> SUFFICES ASSUME NEW i \in 1 .. Len(ops), i - 1 \in SemNums, ops[i].undo, ops[i].op < 0,
                    <<s, i - 1>> \in DOMAIN u0
             PROVE  d[i - 1] - ops[i].op <= SEMVMX
  BY DEF LeavesRoom
<1>1. DOMAIN ops = 1 .. Len(ops)
  BY ArrayPlaced
<1>2. ops \in SemOps
  BY DEF SemArrays
<1>3. ops[i].num = i - 1
  BY <1>1, <1>2 DEF SemPlain
<1>4. semu[p][<<s, ops[i].num>>] - ops[i].op <= SEMVMX
  BY <1>1, <1>2, <1>3 DEF SemRoom
<1>5. PICK m : m = i - 1
  OBVIOUS
<1>6. d[m] = Due(u0, s, m) /\ <<s, m>> \in DOMAIN u0
  BY <1>5
<1>7. Due(u0, s, m) = u0[<<s, m>>]
  BY <1>6 DEF Due
<1> QED BY <1>3, <1>4, <1>5, <1>6, <1>7

\* usemop starts from values and a list that are in range.
LEMMA UndoStarts ==
  ASSUME SemPlain, SemRoom, UndoInv, NEW ops \in SemArrays, NEW p \in SemProcs, NEW s \in SemSets,
         semPc[p] # "run" \/ semCalls[p] < MaxCalls,
         NEW d, d = [n \in SemNums |-> Due(semu[p], s, n)],
         NEW v0, NEW u0, v0 = semval[s], u0 = semu[p]
  PROVE  Starts(s, ops, v0, d, u0)
<1>1. \A n \in SemNums : d[n] = Due(u0, s, n)
  OBVIOUS
<1>2. SetOk(s, semAlloc[s], semGen[s], semval[s], semu, semPerm[s])
  BY DEF UndoInv
<1>3. v0 \in [SemNums -> 0 .. USHORT - 1] /\ \A n \in SemNums : Due(u0, s, n) \in Room
  BY <1>2 DEF SetOk
<1>4. d \in [SemNums -> Room]
  BY <1>3
<1>5. LeavesRoom(s, ops, d, u0)
  BY <1>1, RoomLeft
<1>6. Placed(ops)
  BY ArrayPlaced
<1> QED BY <1>1, <1>3, <1>4, <1>5, <1>6 DEF Starts, SemPlain

\* What one pass of usemop makes of the values, of its list and of what
\* lasts, as far as the balance goes.
Passed(s, ops, val, u, perm, val2, u2, perm2, l) ==
  /\ val2 \in [SemNums -> 0 .. USHORT - 1] /\ perm2 \in [SemNums -> Int]
  /\ \A n \in SemNums : /\ Due(u2, s, n) \in Room /\ l[n] \in Int
                        /\ val2[n] + Due(u2, s, n) = (val[n] + Due(u, s, n)) + l[n]
                        /\ perm2[n] = perm[n] + l[n]
  /\ \A z \in SemSets, n \in SemNums : z # s => Due(u2, z, n) = Due(u, z, n)

\* A pass that completes the array changes values and list by what lasts.
LEMMA PassMade ==
  ASSUME NEW p, NEW s, NEW ops, NEW v0, NEW d, NEW u0, Starts(s, ops, v0, d, u0),
         ops \in Seq([num : Nat, op : Int, undo : BOOLEAN, nowait : BOOLEAN]),
         NEW val, NEW u, Made(Len(ops), p, s, ops, v0, d, u0, val, u),
         NEW perm \in [SemNums -> Int], NEW perm2,
         perm2 = [n \in SemNums |-> perm[n] + Lasting(ops, n)]
  PROVE  \E l : Passed(s, ops, v0, u0, perm, val, u, perm2, l)
<1>1. PICK l : l = [n \in SemNums |-> Left(ops, n)]
  OBVIOUS
<1>2. Placed(ops) /\ \A n \in SemNums : d[n] = Due(u0, s, n)
  BY DEF Starts
<1>3. ASSUME NEW n \in SemNums
      PROVE  /\ Due(u, s, n) \in Room /\ l[n] \in Int
             /\ val[n] + Due(u, s, n) = (v0[n] + Due(u0, s, n)) + l[n]
             /\ perm2[n] = perm[n] + l[n] /\ perm2[n] \in Int /\ val[n] \in 0 .. USHORT - 1
  <2>1. Due(u, s, n) \in Room /\ val[n] \in 0 .. USHORT - 1
    BY DEF Made
  <2>2. val[n] + Due(u, s, n) = (v0[n] + d[n]) + Left(ops, n) /\ Left(ops, n) \in Int
    BY <1>2, WholeIs
  <2>3. l[n] = Left(ops, n) /\ Lasting(ops, n) = Left(ops, n)
    BY <1>1, <1>2, LastingIs
  <2>4. perm2[n] = perm[n] + l[n] /\ perm[n] \in Int
    BY <2>3
  <2>5. perm2[n] \in Int
    BY <2>2, <2>3, <2>4
  <2> QED BY <1>2, <2>1, <2>2, <2>3, <2>4, <2>5
<1>4. val \in [SemNums -> 0 .. USHORT - 1]
  <2>1. val \in [SemNums -> Int]
    BY MadeIs
  <2> QED BY <1>3, <2>1
<1>5. perm2 \in [SemNums -> Int]
  BY <1>3
<1>6. \A z \in SemSets, n \in SemNums : z # s => Due(u, z, n) = Due(u0, z, n)
  BY DEF Made
<1>7. Passed(s, ops, v0, u0, perm, val, u, perm2, l)
  BY <1>3, <1>4, <1>5, <1>6 DEF Passed
<1> QED BY <1>7

\* A pass that stops changes neither the values nor what is due.
LEMMA PassUnmade ==
  ASSUME NEW s, NEW ops, NEW v0, NEW d, NEW u0, Starts(s, ops, v0, d, u0),
         NEW val, NEW u, Unmade(s, v0, d, u0, val, u), NEW perm \in [SemNums -> Int]
  PROVE  \E l : Passed(s, ops, v0, u0, perm, val, u, perm, l)
<1>1. PICK l : l = [n \in SemNums |-> 0]
  OBVIOUS
<1>2. ASSUME NEW n \in SemNums
      PROVE  /\ Due(u, s, n) \in Room /\ l[n] \in Int
             /\ val[n] + Due(u, s, n) = (v0[n] + Due(u0, s, n)) + l[n]
             /\ perm[n] = perm[n] + l[n] /\ val[n] \in 0 .. USHORT - 1
  <2>1. /\ val[n] = v0[n] /\ Due(u, s, n) = d[n] /\ d[n] = Due(u0, s, n)
        /\ d[n] \in Room /\ v0[n] \in 0 .. USHORT - 1 /\ perm[n] \in Int /\ l[n] = 0
    BY <1>1 DEF Unmade, Starts
  <2>2. PICK v, e, m : v = v0[n] /\ e = d[n] /\ m = perm[n]
    OBVIOUS
  <2>3. v \in Int /\ e \in Int /\ m \in Int
    <3>1. v \in Int
      BY <2>1, <2>2
    <3>2. e \in Int
      BY <2>1, <2>2, RoomHas
    <3> QED BY <2>1, <2>2, <3>1, <3>2
  <2>4. v + e = (v + e) + 0 /\ m = m + 0
    BY <2>3
  <2> QED BY <2>1, <2>2, <2>4
<1>3. val \in [SemNums -> 0 .. USHORT - 1]
  BY <1>2 DEF Unmade
<1>4. \A z \in SemSets, n \in SemNums : z # s => Due(u, z, n) = Due(u0, z, n)
  BY DEF Unmade
<1>5. Passed(s, ops, v0, u0, perm, val, u, perm, l)
  BY <1>2, <1>3, <1>4 DEF Passed
<1> QED BY <1>5

SetAt(f2, f, s, x) == f2 = [f EXCEPT ![s] = x]

\* One element is stored.
LEMMA SetAtIs ==
  ASSUME NEW S, NEW Z, NEW f \in [S -> Z], NEW s \in S, NEW x, NEW f2, SetAt(f2, f, s, x)
  PROVE  /\ f2 \in [S -> Z \cup {x}] /\ f2[s] = x
         /\ \A z \in S : z # s => f2[z] = f[z]
BY DEF SetAt

\* One pass of usemop.
LEMMA UndoAttempt ==
  ASSUME SemPlain, SemRoom, SemInv, UndoInv, NEW p \in SemProcs, NEW s \in SemSets,
         NEW ops \in SemArrays, NEW cnt, semAlloc[s],
         semPc[p] # "run" \/ semCalls[p] < MaxCalls, Attempt(p, s, ops, cnt)
  PROVE  UndoInv'
<1>1. PICK fresh \in SemFresh, full \in SemFull :
        LET r == SemTry(p, s, ops, cnt, fresh, full) IN
        /\ semval' = [semval EXCEPT ![s] = r.val]
        /\ semu' = [semu EXCEPT ![p] = r.u]
        /\ semPerm' = IF r.st = "go"
                      THEN [semPerm EXCEPT ![s] = [n \in SemNums |-> @[n] + Lasting(ops, n)]]
                      ELSE semPerm
        /\ semAlloc' = semAlloc /\ semGen' = semGen
  BY DEF Attempt
<1>2. PICK b : b = SemTry(p, s, ops, cnt, fresh, full)
  OBVIOUS
<1>3. fresh = 0 /\ full = FALSE
  BY DEF SemPlain
<1>4. PICK v0, u0, perm : v0 = semval[s] /\ u0 = semu[p] /\ perm = semPerm[s]
  OBVIOUS
<1>5. PICK d : d = [n \in SemNums |-> Due(semu[p], s, n)]
  OBVIOUS
<1>6. Starts(s, ops, v0, d, u0)
  BY <1>4, <1>5, UndoStarts
<1>7. Turned(Len(ops), p, s, ops, v0, d, u0, b)
  BY <1>2, <1>3, <1>4, <1>6, TryTurned
<1>8. PICK val, u : val = b.val /\ u = b.u
  OBVIOUS
<1>9. SetOk(s, semAlloc[s], semGen[s], v0, semu, perm) /\ perm \in [SemNums -> Int]
  BY <1>4 DEF UndoInv, SetOk
<1>10. PICK perm2 : perm2 = IF b.st = "go" THEN [n \in SemNums |-> perm[n] + Lasting(ops, n)] ELSE perm
  OBVIOUS
<1>11. PICK Z : /\ semval \in [SemSets -> Z] /\ semPerm \in [SemSets -> Z]
  BY DEF UndoInv
<1>12. PICK Y : semu \in [SemProcs -> Y]
  BY DEF UndoInv, Lists
<1>13. semAlloc' = semAlloc /\ semGen' = semGen
  BY <1>1
<1>14. SetAt(semval', semval, s, val) /\ SetAt(semu', semu, p, u)
  BY <1>1, <1>2, <1>8 DEF SetAt
<1>15. semPerm' \in [SemSets -> Z \cup {perm2}] /\ semPerm'[s] = perm2
       /\ \A z \in SemSets : z # s => semPerm'[z] = semPerm[z]
  <2>1. CASE b.st = "go"
    <3>1. SetAt(semPerm', semPerm, s, perm2)
      BY <1>1, <1>2, <1>4, <1>10, <2>1 DEF SetAt
    <3>2. PICK f, f2 : f = semPerm /\ f2 = semPerm'
      OBVIOUS
    <3>3. f \in [SemSets -> Z]
      BY <1>11, <3>2
    <3>4. SetAt(f2, f, s, perm2)
      BY <3>1, <3>2
    <3>5. f2 \in [SemSets -> Z \cup {perm2}] /\ f2[s] = perm2
          /\ \A z \in SemSets : z # s => f2[z] = f[z]
      BY <3>3, <3>4, SetAtIs
    <3> QED BY <3>2, <3>5
  <2>2. CASE b.st # "go"
    <3>1. semPerm' = semPerm /\ perm2 = perm
      BY <1>1, <1>2, <1>10, <2>2
    <3> QED BY <1>4, <1>11, <3>1
  <2> QED BY <2>1, <2>2
<1>16. semval' \in [SemSets -> Z \cup {val}] /\ semval'[s] = val
       /\ \A z \in SemSets : z # s => semval'[z] = semval[z]
  <2>1. PICK f, f2 : f = semval /\ f2 = semval'
    OBVIOUS
  <2>2. f \in [SemSets -> Z]
    BY <1>11, <2>1
  <2>3. SetAt(f2, f, s, val)
    BY <1>14, <2>1
  <2>4. f2 \in [SemSets -> Z \cup {val}] /\ f2[s] = val
        /\ \A z \in SemSets : z # s => f2[z] = f[z]
    BY <2>2, <2>3, SetAtIs
  <2> QED BY <2>1, <2>4
<1>17. semu' \in [SemProcs -> Y \cup {u}] /\ semu'[p] = u
       /\ \A q \in SemProcs : q # p => semu'[q] = semu[q]
  <2>1. PICK f, f2 : f = semu /\ f2 = semu'
    OBVIOUS
  <2>2. f \in [SemProcs -> Y]
    BY <1>12, <2>1
  <2>3. SetAt(f2, f, p, u)
    BY <1>14, <2>1
  <2>4. f2 \in [SemProcs -> Y \cup {u}] /\ f2[p] = u
        /\ \A q \in SemProcs : q # p => f2[q] = f[q]
    BY <2>2, <2>3 DEF SetAt
  <2> QED BY <2>1, <2>4
<1>18. PICK l : Passed(s, ops, v0, u0, perm, val, u, perm2, l)
  <2>1. CASE b.st = "go"
    <3>1. Made(Len(ops), p, s, ops, v0, d, u0, val, u)
      BY <1>7, <1>8, <2>1 DEF Turned
    <3>2. perm2 = [n \in SemNums |-> perm[n] + Lasting(ops, n)]
      BY <1>10, <2>1
    <3>3. ops \in Seq([num : Nat, op : Int, undo : BOOLEAN, nowait : BOOLEAN])
      BY ArrayPlaced
    <3> QED BY <1>6, <1>9, <3>1, <3>2, <3>3, PassMade
  <2>2. CASE b.st # "go"
    <3>1. Unmade(s, v0, d, u0, val, u)
      BY <1>7, <1>8, <2>2 DEF Turned
    <3>2. perm2 = perm
      BY <1>10, <2>2
    <3> QED BY <1>6, <1>9, <3>1, <3>2, PassUnmade
  <2> QED BY <2>1, <2>2
<1>19. PICK us, vs, al, g : us = semu /\ vs = semu' /\ al = semAlloc[s] /\ g = semGen[s]
  OBVIOUS
<1>20. SetOk(s, al, g, val, vs, perm2)
  <2>1. SetOk(s, al, g, v0, us, perm)
    BY <1>9, <1>19
  <2>2. al /\ g # 0
    <3>1. semGen[s] \in Nat /\ 1 <= semGen[s]
      BY DEF SemInv, SemTypes
    <3> QED BY <1>19, <3>1
  <2>3. \A q \in SemProcs, n \in SemNums : q # p => Due(vs[q], s, n) = Due(us[q], s, n)
    BY <1>17, <1>19
  <2>4. val \in [SemNums -> 0 .. USHORT - 1] /\ perm2 \in [SemNums -> Int]
    BY <1>18 DEF Passed
  <2>5. us[p] = u0 /\ vs[p] = u
    BY <1>4, <1>17, <1>19
  <2>6. \A n \in SemNums : /\ Due(vs[p], s, n) \in Room /\ l[n] \in Int
                           /\ val[n] + Due(vs[p], s, n) = (v0[n] + Due(us[p], s, n)) + l[n]
                           /\ perm2[n] = perm[n] + l[n]
    BY <1>18, <2>5 DEF Passed
  <2>7. Moves(p, s, v0, us, perm, val, vs, perm2, l)
    BY <2>3, <2>4, <2>6 DEF Moves
  <2>8. al
    BY <2>2
  <2>9. g # 0
    BY <2>2
  <2> QED BY <2>1, <2>7, <2>8, <2>9, SetMade
<1>21. ASSUME NEW z \in SemSets, z # s
       PROVE  SetOk(z, semAlloc[z], semGen[z], semval[z], vs, semPerm[z])
  <2>1. PICK al2, g2, w, m : al2 = semAlloc[z] /\ g2 = semGen[z] /\ w = semval[z] /\ m = semPerm[z]
    OBVIOUS
  <2>2. SetOk(z, al2, g2, w, us, m)
    BY <1>19, <2>1 DEF UndoInv
  <2>3. \A q \in SemProcs, n \in SemNums : Due(vs[q], z, n) = Due(us[q], z, n)
    <3> SUFFICES ASSUME NEW q \in SemProcs, NEW n \in SemNums
                 PROVE  Due(vs[q], z, n) = Due(us[q], z, n)
      OBVIOUS
    <3>1. CASE q # p
      BY <1>17, <1>19, <3>1
    <3>2. CASE q = p
      <4>1. Due(u, z, n) = Due(u0, z, n)
        BY <1>18, <1>21 DEF Passed
      <4>2. vs[p] = u /\ us[p] = u0
        BY <1>4, <1>17, <1>19
      <4> QED BY <3>2, <4>1, <4>2
    <3> QED BY <3>1, <3>2
  <2>4. SetOk(z, al2, g2, w, vs, m)
    BY <2>2, <2>3, SetSame
  <2> QED BY <2>1, <2>4
<1>22. \A z \in SemSets : SetOk(z, semAlloc'[z], semGen'[z], semval'[z], semu', semPerm'[z])
  <2> SUFFICES ASSUME NEW z \in SemSets
               PROVE  SetOk(z, semAlloc[z], semGen[z], semval'[z], vs, semPerm'[z])
    BY <1>13, <1>19
  <2>1. CASE z = s
    BY <1>15, <1>16, <1>19, <1>20, <2>1
  <2>2. CASE z # s
    BY <1>15, <1>16, <1>21, <2>2
  <2> QED BY <2>1, <2>2
<1>23. \E X : semval' \in [SemSets -> X] /\ semPerm' \in [SemSets -> X]
  <2>1. PICK X : X = Z \cup {perm2, val}
    OBVIOUS
  <2>2. semval' \in [SemSets -> X] /\ semPerm' \in [SemSets -> X]
    BY <1>15, <1>16, <2>1
  <2> QED BY <2>2
<1>24. Lists(semu')
  BY <1>17 DEF Lists
<1> QED BY <1>22, <1>23, <1>24 DEF UndoInv

\* A function has a range.
LEMMA ListsAre ==
  ASSUME NEW S, NEW f, f = [q \in S |-> f[q]]
  PROVE  \E Z : f \in [S -> Z]
<1>1. PICK Z : Z = {f[q] : q \in S}
  OBVIOUS
<1>2. f \in [S -> Z]
  BY <1>1
<1> QED BY <1>2

\* Two functions have a range in common.
LEMMA BothAre ==
  ASSUME NEW S, NEW f, NEW g, \E Z : f \in [S -> Z], \E Z : g \in [S -> Z]
  PROVE  \E Z : f \in [S -> Z] /\ g \in [S -> Z]
<1>1. PICK X : f \in [S -> X]
  OBVIOUS
<1>2. PICK Y : g \in [S -> Y]
  OBVIOUS
<1>3. PICK Z : Z = X \cup Y
  OBVIOUS
<1>4. f \in [S -> Z] /\ g \in [S -> Z]
  BY <1>1, <1>2, <1>3
<1> QED BY <1>4

\* A step that leaves the values and the lists, and may remove a set.
LEMMA UndoQuiet ==
  ASSUME UndoInv, semval' = semval, semu' = semu, semPerm' = semPerm, semGen' = semGen,
         \A z \in SemSets : semAlloc'[z] => semAlloc[z]
  PROVE  UndoInv'
<1>1. ASSUME NEW z \in SemSets
      PROVE  SetOk(z, semAlloc'[z], semGen[z], semval[z], semu, semPerm[z])
  <2>1. PICK us, al, al2, g, w, m : /\ al = semAlloc[z] /\ al2 = semAlloc'[z] /\ g = semGen[z]
                                    /\ w = semval[z] /\ m = semPerm[z] /\ us = semu
    OBVIOUS
  <2>2. SetOk(z, al, g, w, us, m)
    BY <2>1 DEF UndoInv
  <2>3. al2 => al
    BY <2>1
  <2>4. SetOk(z, al2, g, w, us, m)
    BY <2>2, <2>3, SetSame
  <2> QED BY <2>1, <2>4
<1> QED BY <1>1 DEF UndoInv

\* A new set: its values and what lasts are zero.
LEMMA SetNew ==
  ASSUME NEW s, NEW alloc, NEW gen \in Nat, NEW val, NEW us, NEW perm,
         SetOk(s, alloc, gen, val, us, perm), NEW gen2, gen2 = gen + 1,
         NEW zero, zero = [n \in SemNums |-> 0]
  PROVE  SetOk(s, TRUE, gen2, zero, us, zero)
<1>1. zero \in [SemNums -> 0 .. USHORT - 1] /\ zero \in [SemNums -> Int]
  <2>1. 0 \in 0 .. USHORT - 1
    BY UshortIs
  <2> QED BY <2>1
<1>2. \A q \in SemProcs, n \in SemNums : Due(us[q], s, n) \in Room
  BY DEF SetOk
<1>3. gen2 # 0
  OBVIOUS
<1>4. ASSUME gen2 <= 1, NEW n \in SemNums
      PROVE  (zero[n] + AllOf(us, s, n)) % USHORT = zero[n] % USHORT
  <2>1. gen = 0
    BY <1>4
  <2>2. \A q \in SemProcs : Due(us[q], s, n) = 0
    BY <2>1 DEF SetOk
  <2>3. AllOf(us, s, n) = 0
    BY <2>2, AllNone
  <2>4. PICK x, y : x = zero[n] /\ y = AllOf(us, s, n)
    OBVIOUS
  <2>5. x + y = x
    BY <2>3, <2>4
  <2> QED BY <2>4, <2>5
<1> QED BY <1>1, <1>2, <1>3, <1>4 DEF SetOk

\* A set is created.
LEMMA UndoGet ==
  ASSUME SemInv, UndoInv, NEW p \in SemProcs, NEW s \in SemSets, usemget(p, s)
  PROVE  UndoInv'
<1>1. PICK zero : zero = [n \in SemNums |-> 0]
  OBVIOUS
<1>2. /\ semAlloc' = [semAlloc EXCEPT ![s] = TRUE]
      /\ semGen' = [semGen EXCEPT ![s] = @ + 1]
      /\ SetAt(semval', semval, s, zero) /\ SetAt(semPerm', semPerm, s, zero)
      /\ semu' = semu
  BY <1>1 DEF usemget, SetAt
<1>3. semAlloc \in [SemSets -> BOOLEAN] /\ semGen \in [SemSets -> Nat]
  BY DEF SemInv, SemTypes
<1>4. /\ semAlloc'[s] = TRUE /\ semGen'[s] = semGen[s] + 1
      /\ \A z \in SemSets : z # s => semAlloc'[z] = semAlloc[z] /\ semGen'[z] = semGen[z]
  BY <1>2, <1>3
<1>5. PICK Z : semval \in [SemSets -> Z] /\ semPerm \in [SemSets -> Z]
  BY DEF UndoInv
<1>6. /\ semval' \in [SemSets -> Z \cup {zero}] /\ semval'[s] = zero
      /\ \A z \in SemSets : z # s => semval'[z] = semval[z]
  <2>1. PICK f, f2 : f = semval /\ f2 = semval'
    OBVIOUS
  <2>2. f \in [SemSets -> Z]
    BY <1>5, <2>1
  <2>3. SetAt(f2, f, s, zero)
    BY <1>2, <2>1
  <2>4. f2 \in [SemSets -> Z \cup {zero}] /\ f2[s] = zero /\ \A z \in SemSets : z # s => f2[z] = f[z]
    BY <2>2, <2>3, SetAtIs
  <2> QED BY <2>1, <2>4
<1>7. /\ semPerm' \in [SemSets -> Z \cup {zero}] /\ semPerm'[s] = zero
      /\ \A z \in SemSets : z # s => semPerm'[z] = semPerm[z]
  <2>1. PICK f, f2 : f = semPerm /\ f2 = semPerm'
    OBVIOUS
  <2>2. f \in [SemSets -> Z]
    BY <1>5, <2>1
  <2>3. SetAt(f2, f, s, zero)
    BY <1>2, <2>1
  <2>4. f2 \in [SemSets -> Z \cup {zero}] /\ f2[s] = zero /\ \A z \in SemSets : z # s => f2[z] = f[z]
    BY <2>2, <2>3, SetAtIs
  <2> QED BY <2>1, <2>4
<1>8. SetOk(s, TRUE, semGen'[s], zero, semu, zero)
  <2>1. PICK us, al, g, w, m, g2 : /\ al = semAlloc[s] /\ g = semGen[s] /\ w = semval[s]
                                   /\ m = semPerm[s] /\ us = semu /\ g2 = semGen'[s]
    OBVIOUS
  <2>2. SetOk(s, al, g, w, us, m)
    BY <2>1 DEF UndoInv
  <2>3. g \in Nat /\ g2 = g + 1
    BY <1>3, <1>4, <2>1
  <2>4. SetOk(s, TRUE, g2, zero, us, zero)
    BY <1>1, <2>2, <2>3, SetNew
  <2> QED BY <2>1, <2>4
<1>9. \A z \in SemSets : SetOk(z, semAlloc'[z], semGen'[z], semval'[z], semu', semPerm'[z])
  <2> SUFFICES ASSUME NEW z \in SemSets
               PROVE  SetOk(z, semAlloc'[z], semGen'[z], semval'[z], semu, semPerm'[z])
    BY <1>2
  <2>1. CASE z = s
    BY <1>4, <1>6, <1>7, <1>8, <2>1
  <2>2. CASE z # s
    BY <1>4, <1>6, <1>7, <2>2 DEF UndoInv
  <2> QED BY <2>1, <2>2
<1> QED BY <1>2, <1>6, <1>7, <1>9 DEF UndoInv

\* vClearAdj on one list.
Cleared(w, u, s, nums) == w = [key \in DOMAIN u |-> IF key \in {s} \X nums THEN 0 ELSE u[key]]

\* What is due after vClearAdj, in one list.
LEMMA ClearedIs ==
  ASSUME NEW w, NEW u, NEW s, NEW nums, Cleared(w, u, s, nums), NEW z, NEW n
  PROVE  Due(w, z, n) = IF z = s /\ n \in nums THEN 0 ELSE Due(u, z, n)
<1>1. DOMAIN w = DOMAIN u
  BY DEF Cleared
<1>2. \A k \in DOMAIN u : w[k] = IF k \in {s} \X nums THEN 0 ELSE u[k]
  BY DEF Cleared
<1>3. PICK k : k = <<z, n>>
  OBVIOUS
<1>4. k \in {s} \X nums <=> z = s /\ n \in nums
  BY <1>3
<1>5. Due(w, z, n) = IF k \in DOMAIN w THEN w[k] ELSE 0
  BY <1>3 DEF Due
<1>6. Due(u, z, n) = IF k \in DOMAIN u THEN u[k] ELSE 0
  BY <1>3 DEF Due
<1> QED BY <1>1, <1>2, <1>4, <1>5, <1>6

\* What is due after vClearAdj, in all lists.
LEMMA ClearAdjIs ==
  ASSUME NEW s, NEW nums, semu' = vClearAdj(s, nums)
  PROVE  /\ Lists(semu')
         /\ \A q \in SemProcs : \A z, n :
              Due(semu'[q], z, n) = IF z = s /\ n \in nums THEN 0 ELSE Due(semu[q], z, n)
<1>1. PICK us, vs : us = semu /\ vs = semu'
  OBVIOUS
<1>2. vs = [q \in SemProcs |-> [key \in DOMAIN us[q] |-> IF key \in {s} \X nums THEN 0 ELSE us[q][key]]]
  BY <1>1 DEF vClearAdj
<1>3. \A q \in SemProcs : Cleared(vs[q], us[q], s, nums)
  BY <1>2 DEF Cleared
<1>4. vs = [q \in SemProcs |-> vs[q]]
  BY <1>2
<1>5. \E Z : vs \in [SemProcs -> Z]
  BY <1>4, ListsAre
<1>6. \A q \in SemProcs : \A z, n :
        Due(vs[q], z, n) = IF z = s /\ n \in nums THEN 0 ELSE Due(us[q], z, n)
  <2> SUFFICES ASSUME NEW q \in SemProcs, NEW z, NEW n
               PROVE  Due(vs[q], z, n) = IF z = s /\ n \in nums THEN 0 ELSE Due(us[q], z, n)
    OBVIOUS
  <2>1. PICK w, u : w = vs[q] /\ u = us[q]
    OBVIOUS
  <2>2. Cleared(w, u, s, nums)
    BY <1>3, <2>1
  <2>3. Due(w, z, n) = IF z = s /\ n \in nums THEN 0 ELSE Due(u, z, n)
    BY <2>2, ClearedIs
  <2> QED BY <2>1, <2>3
<1> QED BY <1>1, <1>5, <1>6 DEF Lists

Mapped(f, S) == \E Z : f \in [S -> Z]
Stored(f2, f, S, s, x) ==
  Mapped(f2, S) /\ f2[s] = x /\ \A z \in S : z # s => f2[z] = f[z]

\* One element is stored, without naming the range.
LEMMA SetAtStored ==
  ASSUME NEW S, NEW f, NEW s \in S, NEW x, NEW f2, Mapped(f, S), SetAt(f2, f, s, x)
  PROVE  Stored(f2, f, S, s, x)
<1>1. PICK Z : f \in [S -> Z]
  BY DEF Mapped
<1>2. f2 \in [S -> Z \cup {x}] /\ f2[s] = x /\ \A z \in S : z # s => f2[z] = f[z]
  BY <1>1 DEF SetAt
<1>3. Mapped(f2, S)
  BY <1>2 DEF Mapped
<1> QED BY <1>2, <1>3 DEF Stored

\* SETVAL and SETALL give the semaphores K of a set values.
Assigned(K, w, m, val2, perm2) ==
  /\ val2 \in [SemNums -> 0 .. USHORT - 1] /\ perm2 \in [SemNums -> Int]
  /\ \A n \in SemNums : IF n \in K THEN val2[n] = perm2[n] ELSE val2[n] = w[n] /\ perm2[n] = m[n]

\* A step that gives values to the semaphores K of s.
LEMMA UndoGiven ==
  ASSUME UndoInv, NEW s \in SemSets, NEW K, NEW val2, NEW perm2,
         SetAt(semval', semval, s, val2), SetAt(semPerm', semPerm, s, perm2),
         semu' = vClearAdj(s, K), semAlloc' = semAlloc, semGen' = semGen,
         Assigned(K, semval[s], semPerm[s], val2, perm2)
  PROVE  UndoInv'
<1>1. Mapped(semval, SemSets) /\ Mapped(semPerm, SemSets)
  BY DEF UndoInv, Mapped
<1>2. Mapped(semval', SemSets) /\ semval'[s] = val2
      /\ \A z \in SemSets : z # s => semval'[z] = semval[z]
  <2>1. PICK f, f2 : f = semval /\ f2 = semval'
    OBVIOUS
  <2>2. Mapped(f, SemSets) /\ SetAt(f2, f, s, val2)
    BY <1>1, <2>1
  <2>3. Stored(f2, f, SemSets, s, val2)
    BY <2>2, SetAtStored
  <2> QED BY <2>1, <2>3 DEF Stored
<1>3. Mapped(semPerm', SemSets) /\ semPerm'[s] = perm2
      /\ \A z \in SemSets : z # s => semPerm'[z] = semPerm[z]
  <2>1. PICK f, f2 : f = semPerm /\ f2 = semPerm'
    OBVIOUS
  <2>2. Mapped(f, SemSets) /\ SetAt(f2, f, s, perm2)
    BY <1>1, <2>1
  <2>3. Stored(f2, f, SemSets, s, perm2)
    BY <2>2, SetAtStored
  <2> QED BY <2>1, <2>3 DEF Stored
<1>4. /\ Lists(semu')
      /\ \A q \in SemProcs : \A z, n :
           Due(semu'[q], z, n) = IF z = s /\ n \in K THEN 0 ELSE Due(semu[q], z, n)
  BY ClearAdjIs
<1>5. PICK us, vs : us = semu /\ vs = semu'
  OBVIOUS
<1>6. SetOk(s, semAlloc[s], semGen[s], val2, vs, perm2)
  <2>1. PICK al, g, w, m : al = semAlloc[s] /\ g = semGen[s] /\ w = semval[s] /\ m = semPerm[s]
    OBVIOUS
  <2>2. SetOk(s, al, g, w, us, m)
    BY <1>5, <2>1 DEF UndoInv
  <2>3. ASSUME NEW n \in SemNums
        PROVE  IF n \in K THEN val2[n] = perm2[n] /\ \A q \in SemProcs : Due(vs[q], s, n) = 0
               ELSE /\ val2[n] = w[n] /\ perm2[n] = m[n]
                    /\ \A q \in SemProcs : Due(vs[q], s, n) = Due(us[q], s, n)
    <3>1. \A q \in SemProcs : Due(vs[q], s, n) = IF n \in K THEN 0 ELSE Due(us[q], s, n)
      BY <1>4, <1>5
    <3>2. IF n \in K THEN val2[n] = perm2[n] ELSE val2[n] = w[n] /\ perm2[n] = m[n]
      BY <2>1 DEF Assigned
    <3> QED BY <3>1, <3>2
  <2>4. Given(s, K, w, us, m, val2, vs, perm2)
    BY <2>3 DEF Given, Assigned
  <2>5. SetOk(s, al, g, val2, vs, perm2)
    BY <2>2, <2>4, SetGiven
  <2> QED BY <2>1, <2>5
<1>7. ASSUME NEW z \in SemSets, z # s
      PROVE  SetOk(z, semAlloc[z], semGen[z], semval[z], vs, semPerm[z])
  <2>1. PICK al, g, w, m : al = semAlloc[z] /\ g = semGen[z] /\ w = semval[z] /\ m = semPerm[z]
    OBVIOUS
  <2>2. SetOk(z, al, g, w, us, m)
    BY <1>5, <2>1 DEF UndoInv
  <2>3. \A q \in SemProcs, n \in SemNums : Due(vs[q], z, n) = Due(us[q], z, n)
    BY <1>4, <1>5, <1>7
  <2>4. SetOk(z, al, g, w, vs, m)
    BY <2>2, <2>3, SetSame
  <2> QED BY <2>1, <2>4
<1>8. \A z \in SemSets : SetOk(z, semAlloc'[z], semGen'[z], semval'[z], semu', semPerm'[z])
  <2> SUFFICES ASSUME NEW z \in SemSets
               PROVE  SetOk(z, semAlloc[z], semGen[z], semval'[z], vs, semPerm'[z])
    BY <1>5
  <2>1. CASE z = s
    BY <1>2, <1>3, <1>6, <2>1
  <2>2. CASE z # s
    BY <1>2, <1>3, <1>7, <2>2
  <2> QED BY <2>1, <2>2
<1>9. \E X : semval' \in [SemSets -> X] /\ semPerm' \in [SemSets -> X]
  <2>1. PICK f, g : f = semval' /\ g = semPerm'
    OBVIOUS
  <2>2. (\E X : f \in [SemSets -> X]) /\ (\E X : g \in [SemSets -> X])
    BY <1>2, <1>3, <2>1 DEF Mapped
  <2>3. \E X : f \in [SemSets -> X] /\ g \in [SemSets -> X]
    BY <2>2, BothAre
  <2> QED BY <2>1, <2>3
<1> QED BY <1>4, <1>8, <1>9 DEF UndoInv

\* The values given by users are in range.
LEMMA SemValIs ==
  ASSUME NEW v \in SemVals
  PROVE  v \in 0 .. USHORT - 1 /\ v \in Int
<1>1. v \in Nat /\ v <= SEMVMX
  <2>1. v \in 0 .. SEMVMX
    BY SemAssumption
  <2> QED BY <2>1, RoomIs
<1> QED BY <1>1, BelowUshort

\* SETVAL.
LEMMA UndoSetval ==
  ASSUME UndoInv, NEW p \in SemProcs, NEW s \in SemSets, NEW n \in SemNums, NEW v \in SemVals,
         usemctlSETVAL(p, s, n, v)
  PROVE  UndoInv'
<1>1. PICK w, m : w = semval[s] /\ m = semPerm[s]
  OBVIOUS
<1>2. PICK val2, perm2 : SetAt(val2, w, n, v) /\ SetAt(perm2, m, n, v)
  BY DEF SetAt
<1>3. /\ SetAt(semval', semval, s, val2) /\ SetAt(semPerm', semPerm, s, perm2)
      /\ semu' = vClearAdj(s, {n}) /\ semAlloc' = semAlloc /\ semGen' = semGen
  BY <1>1, <1>2 DEF usemctlSETVAL, SetAt
<1>4. SetOk(s, semAlloc[s], semGen[s], w, semu, m)
  BY <1>1 DEF UndoInv
<1>5. w \in [SemNums -> 0 .. USHORT - 1] /\ m \in [SemNums -> Int]
  BY <1>4 DEF SetOk
<1>6. v \in 0 .. USHORT - 1 /\ v \in Int
  BY SemValIs
<1>7. Mapped(w, SemNums) /\ Mapped(m, SemNums)
  BY <1>5 DEF Mapped
<1>8. Stored(val2, w, SemNums, n, v) /\ Stored(perm2, m, SemNums, n, v)
  BY <1>2, <1>7, SetAtStored
<1>9. /\ val2[n] = v /\ perm2[n] = v
      /\ \A z \in SemNums : z # n => val2[z] = w[z] /\ perm2[z] = m[z]
      /\ Mapped(val2, SemNums) /\ Mapped(perm2, SemNums)
  BY <1>8 DEF Stored
<1>10. val2 \in [SemNums -> 0 .. USHORT - 1]
  <2>1. \A z \in SemNums : val2[z] \in 0 .. USHORT - 1
    BY <1>5, <1>6, <1>9
  <2> QED BY <1>9, <2>1 DEF Mapped
<1>11. perm2 \in [SemNums -> Int]
  <2>1. \A z \in SemNums : perm2[z] \in Int
    BY <1>5, <1>6, <1>9
  <2> QED BY <1>9, <2>1 DEF Mapped
<1>12. PICK K : K = {n}
  OBVIOUS
<1>13. Assigned(K, semval[s], semPerm[s], val2, perm2)
  BY <1>1, <1>9, <1>10, <1>11, <1>12 DEF Assigned
<1>14. semu' = vClearAdj(s, K)
  BY <1>3, <1>12
<1> QED BY <1>3, <1>13, <1>14, UndoGiven

\* SETALL, as far as it goes.
LEMMA UndoSetall ==
  ASSUME UndoInv, NEW p \in SemProcs, NEW s \in SemSets, NEW val \in [SemNums -> SemVals],
         NEW k \in 1 .. NSEMS, usemctlSETALL(p, s, val, k)
  PROVE  UndoInv'
<1>1. PICK w, m : w = semval[s] /\ m = semPerm[s]
  OBVIOUS
<1>2. PICK val2, perm2 : /\ val2 = [n \in SemNums |-> IF n < k THEN val[n] ELSE w[n]]
                         /\ perm2 = [n \in SemNums |-> IF n < k THEN val[n] ELSE m[n]]
  OBVIOUS
<1>3. PICK K : K = 0 .. k - 1
  OBVIOUS
<1>4. /\ SetAt(semval', semval, s, val2) /\ SetAt(semPerm', semPerm, s, perm2)
      /\ semu' = vClearAdj(s, K) /\ semAlloc' = semAlloc /\ semGen' = semGen
  BY <1>1, <1>2, <1>3 DEF usemctlSETALL, SetAt
<1>5. SetOk(s, semAlloc[s], semGen[s], w, semu, m)
  BY <1>1 DEF UndoInv
<1>6. w \in [SemNums -> 0 .. USHORT - 1] /\ m \in [SemNums -> Int]
  BY <1>5 DEF SetOk
<1>7. \A n \in SemNums : val[n] \in 0 .. USHORT - 1 /\ val[n] \in Int
  BY SemValIs
<1>8. val2 \in [SemNums -> 0 .. USHORT - 1]
  BY <1>2, <1>6, <1>7
<1>9. perm2 \in [SemNums -> Int]
  BY <1>2, <1>6, <1>7
<1>10. \A n \in SemNums : n \in K <=> n < k
  <2> SUFFICES ASSUME NEW n \in SemNums PROVE n \in K <=> n < k
    OBVIOUS
  <2>1. n \in Nat /\ k \in Int
    BY NumIs
  <2> QED BY <1>3, <2>1
<1>11. Assigned(K, semval[s], semPerm[s], val2, perm2)
  BY <1>1, <1>2, <1>8, <1>9, <1>10 DEF Assigned
<1> QED BY <1>4, <1>11, UndoGiven

\* A process exits.
LEMMA UndoExit ==
  ASSUME UndoInv, NEW p \in SemProcs, semAllAdjust(p)
  PROVE  UndoInv'
<1>1. PICK none : none = << >>
  OBVIOUS
<1>2. /\ SetAt(semu', semu, p, none)
      /\ semPerm' = semPerm /\ semAlloc' = semAlloc /\ semGen' = semGen
      /\ semval' = [s \in SemSets |->
                      IF ~semAlloc[s] THEN semval[s] ELSE
                      [n \in SemNums |-> IF <<s, n>> \in DOMAIN semu[p]
                                         THEN (semval[s][n] + semu[p][<<s, n>>]) % USHORT
                                         ELSE semval[s][n]]]
  BY <1>1 DEF semAllAdjust, SetAt
<1>3. PICK us, vs : us = semu /\ vs = semu'
  OBVIOUS
<1>4. Mapped(us, SemProcs)
  BY <1>3 DEF UndoInv, Lists, Mapped
<1>5. SetAt(vs, us, p, none)
  BY <1>2, <1>3
<1>6. Stored(vs, us, SemProcs, p, none)
  BY <1>4, <1>5, SetAtStored
<1>7. /\ Lists(semu') /\ vs[p] = none
      /\ \A q \in SemProcs : q # p => vs[q] = us[q]
  BY <1>3, <1>6 DEF Stored, Mapped, Lists
<1>8. \A s, n : Due(none, s, n) = 0
  <2> SUFFICES ASSUME NEW s, NEW n PROVE Due(none, s, n) = 0
    OBVIOUS
  <2>1. DOMAIN none = {}
    BY <1>1
  <2>2. <<s, n>> \notin DOMAIN none
    BY <2>1
  <2> QED BY <2>2, DueInt
<1>9. ASSUME NEW s \in SemSets
      PROVE  SetOk(s, semAlloc[s], semGen[s], semval'[s], vs, semPerm[s])
  <2>1. PICK al, g, w, m, w2 : /\ al = semAlloc[s] /\ g = semGen[s] /\ w = semval[s] /\ m = semPerm[s]
                               /\ w2 = semval'[s]
    OBVIOUS
  <2>2. SetOk(s, al, g, w, us, m)
    BY <1>3, <2>1 DEF UndoInv
  <2>3. w \in [SemNums -> 0 .. USHORT - 1] /\ \A n \in SemNums : Due(us[p], s, n) \in Room
    BY <2>2 DEF SetOk
  <2>4. PICK u : u = us[p]
    OBVIOUS
  <2>5. w2 = IF ~ al THEN w ELSE
             [n \in SemNums |-> IF <<s, n>> \in DOMAIN u THEN (w[n] + u[<<s, n>>]) % USHORT ELSE w[n]]
    BY <1>2, <1>3, <2>1, <2>4
  <2>6. ASSUME al, NEW n \in SemNums
        PROVE  w2[n] = (w[n] + Due(u, s, n)) % USHORT /\ w2[n] \in 0 .. USHORT - 1
    <3>1. PICK x, y, k : x = w[n] /\ y = Due(u, s, n) /\ k = <<s, n>>
      OBVIOUS
    <3>2. x \in 0 .. USHORT - 1 /\ y \in Int
      BY <2>3, <2>4, <3>1, RoomHas
    <3>3. x \in Int
      BY <3>2
    <3>4. CASE k \in DOMAIN u
      <4>1. y = u[k]
        BY <3>1, <3>4 DEF Due
      <4>2. w2[n] = (x + y) % USHORT
        BY <2>5, <2>6, <3>1, <3>4, <4>1
      <4>3. PICK t : t = x + y
        OBVIOUS
      <4>4. t \in Int
        BY <3>2, <3>3, <4>3
      <4>5. t % USHORT \in 0 .. USHORT - 1
        BY <4>4, FoldIs
      <4> QED BY <3>1, <4>2, <4>3, <4>5
    <3>5. CASE k \notin DOMAIN u
      <4>1. y = 0
        BY <3>1, <3>5 DEF Due
      <4>2. w2[n] = x
        BY <2>5, <2>6, <3>1, <3>5
      <4>3. PICK t : t = x + y
        OBVIOUS
      <4>4. t = x
        BY <3>3, <4>1, <4>3
      <4>5. x % USHORT = x
        <5>1. x \in Nat /\ x < USHORT
          BY <3>2, UshortIs
        <5> QED BY <5>1, UshortSame
      <4> QED BY <3>1, <3>2, <4>2, <4>3, <4>4, <4>5
    <3> QED BY <3>4, <3>5
  <2>7. w2 \in [SemNums -> 0 .. USHORT - 1]
    <3>1. CASE al
      <4>1. PICK B : B = 0 .. USHORT - 1
        OBVIOUS
      <4>2. \A n \in SemNums : w2[n] \in B
        BY <2>6, <3>1, <4>1
      <4>3. w2 = [n \in SemNums |-> w2[n]]
        BY <2>5, <3>1
      <4>4. w2 \in [SemNums -> B]
        BY <4>2, <4>3
      <4> QED BY <4>1, <4>4
    <3>2. CASE ~ al
      BY <2>3, <2>5, <3>2
    <3> QED BY <3>1, <3>2
  <2>8. Exited(p, s, al, w, us, vs, w2)
    <3>1. \A q \in SemProcs, n \in SemNums : q # p => Due(vs[q], s, n) = Due(us[q], s, n)
      BY <1>7
    <3>2. \A n \in SemNums : Due(vs[p], s, n) = 0
      BY <1>7, <1>8
    <3>3. al => \A n \in SemNums : w2[n] = (w[n] + Due(us[p], s, n)) % USHORT
      BY <2>4, <2>6
    <3> QED BY <2>7, <3>1, <3>2, <3>3 DEF Exited
  <2>9. SetOk(s, al, g, w2, vs, m)
    BY <2>2, <2>8, SetExited
  <2> QED BY <2>1, <2>9
<1>10. \E X : semval' \in [SemSets -> X] /\ semPerm' \in [SemSets -> X]
  <2>1. PICK f, g : f = semval' /\ g = semPerm'
    OBVIOUS
  <2>2. \E X : g \in [SemSets -> X]
    BY <1>2, <2>1 DEF UndoInv
  <2>3. f = [s \in SemSets |-> f[s]]
    BY <1>2, <2>1
  <2>4. \E X : f \in [SemSets -> X]
    BY <2>3, ListsAre
  <2>5. \E X : f \in [SemSets -> X] /\ g \in [SemSets -> X]
    BY <2>2, <2>4, BothAre
  <2> QED BY <2>1, <2>5
<1>11. \A s \in SemSets : SetOk(s, semAlloc'[s], semGen'[s], semval'[s], semu', semPerm'[s])
  BY <1>2, <1>3, <1>9
<1> QED BY <1>7, <1>10, <1>11 DEF UndoInv

\* usemop, from its start or after a wakeup.
LEMMA UndoUsemop ==
  ASSUME SemPlain, SemRoom, SemInv, UndoInv, NEW p \in SemProcs, usemop(p) \/ semwaitRetry(p)
  PROVE  UndoInv'
<1>1. CASE usemop(p)
  <2>1. PICK s \in SemSets, ops \in SemOps : semAlloc[s] /\ Attempt(p, s, ops, semcnt[s])
    BY <1>1 DEF usemop
  <2>2. semCalls[p] < MaxCalls
    BY <1>1 DEF usemop
  <2>3. PICK cnt : cnt = semcnt[s]
    OBVIOUS
  <2>4. ops \in SemArrays
    BY DEF SemArrays
  <2>5. Attempt(p, s, ops, cnt) /\ semAlloc[s]
    BY <2>1, <2>3
  <2> QED BY <2>2, <2>4, <2>5, UndoAttempt
<1>2. CASE semwaitRetry(p)
  <2>1. PICK s, ops : s = semArg[p].set /\ ops = semArg[p].ops
    OBVIOUS
  <2>2. /\ semPc[p] = "woken" /\ semAlloc[s]
        /\ \/ Attempt(p, s, ops, Lowered(p, s))
           \/ Attempt(p, s, ops, semcnt[s])
    BY <1>2, <2>1 DEF semwaitRetry
  <2>3. PICK cnt : Attempt(p, s, ops, cnt)
    <3>1. PICK a, b : a = Lowered(p, s) /\ b = semcnt[s]
      OBVIOUS
    <3>2. Attempt(p, s, ops, a) \/ Attempt(p, s, ops, b)
      BY <2>2, <3>1
    <3> QED BY <3>2
  <2>4. semPc[p] # "run"
    BY <2>2
  <2>5. s \in SemSets
    BY <2>1, <2>4 DEF SemInv, SemInside
  <2>6. ops \in SemArrays
    BY <2>1 DEF SemInv, SemTypes
  <2> QED BY <2>2, <2>3, <2>4, <2>5, <2>6, UndoAttempt
<1> QED BY <1>1, <1>2

\* The steps that change neither a value nor a list.
LEMMA UndoOthers ==
  ASSUME SemInv, UndoInv, NEW p \in SemProcs,
         \/ SemSignal(p) \/ semwaitGone(p) \/ semwaitIntr(p)
         \/ \E s \in SemSets : usemctlRMID(p, s)
  PROVE  UndoInv'
<1>1. semval' = semval /\ semu' = semu /\ semPerm' = semPerm /\ semGen' = semGen
  BY DEF SemSignal, semwaitGone, semwaitIntr, Returns, usemctlRMID
<1>2. \A z \in SemSets : semAlloc'[z] => semAlloc[z]
  <2>1. CASE \E s \in SemSets : usemctlRMID(p, s)
    <3>1. PICK s \in SemSets : semAlloc[s] /\ semAlloc' = [semAlloc EXCEPT ![s] = FALSE]
      BY <2>1 DEF usemctlRMID
    <3>2. semAlloc \in [SemSets -> BOOLEAN]
      BY DEF SemInv, SemTypes
    <3> QED BY <3>1, <3>2
  <2>2. CASE ~ \E s \in SemSets : usemctlRMID(p, s)
    BY <2>2 DEF SemSignal, semwaitGone, semwaitIntr, Returns
  <2> QED BY <2>1, <2>2
<1> QED BY <1>1, <1>2, UndoQuiet

\* Every step keeps the balance.
LEMMA UndoNext ==
  ASSUME SemPlain
  PROVE  SemRoom /\ SemInv /\ UndoInv /\ [SemNext]_semVars => UndoInv'
<1>1. ASSUME SemInv, UndoInv, UNCHANGED semVars PROVE UndoInv'
  <2>1. /\ semval' = semval /\ semu' = semu /\ semPerm' = semPerm /\ semGen' = semGen
        /\ semAlloc' = semAlloc
    BY <1>1 DEF semVars
  <2> QED BY <1>1, <2>1 DEF UndoInv
<1>2. ASSUME SemRoom, SemInv, UndoInv, SemNext PROVE UndoInv'
  <2>1. PICK p \in SemProcs :
          \/ usemop(p) \/ SemSignal(p) \/ semwaitGone(p) \/ semwaitIntr(p) \/ semwaitRetry(p)
          \/ semAllAdjust(p)
          \/ \E s \in SemSets :
               \/ usemget(p, s)
               \/ \E n \in SemNums, v \in SemVals : usemctlSETVAL(p, s, n, v)
               \/ \E val \in [SemNums -> SemVals], k \in 1 .. NSEMS : usemctlSETALL(p, s, val, k)
               \/ usemctlRMID(p, s)
    BY <1>2 DEF SemNext
  <2>2. CASE usemop(p) \/ semwaitRetry(p)
    BY <1>2, <2>2, UndoUsemop
  <2>3. CASE \/ SemSignal(p) \/ semwaitGone(p) \/ semwaitIntr(p)
             \/ \E s \in SemSets : usemctlRMID(p, s)
    BY <1>2, <2>3, UndoOthers
  <2>4. CASE semAllAdjust(p)
    BY <1>2, <2>4, UndoExit
  <2>5. CASE \E s \in SemSets : usemget(p, s)
    BY <1>2, <2>5, UndoGet
  <2>6. CASE \E s \in SemSets, n \in SemNums, v \in SemVals : usemctlSETVAL(p, s, n, v)
    BY <1>2, <2>6, UndoSetval
  <2>7. CASE \E s \in SemSets, val \in [SemNums -> SemVals], k \in 1 .. NSEMS : usemctlSETALL(p, s, val, k)
    BY <1>2, <2>7, UndoSetall
  <2> QED BY <2>1, <2>2, <2>3, <2>4, <2>5, <2>6, <2>7
<1> QED BY <1>1, <1>2

\* Nothing is due at first.
LEMMA UndoInit == SemInit => UndoInv
<1> SUFFICES ASSUME SemInit PROVE UndoInv
  OBVIOUS
<1>1. PICK zero : zero = [n \in SemNums |-> 0]
  OBVIOUS
<1>2. /\ semval = [s \in SemSets |-> zero] /\ semPerm = [s \in SemSets |-> zero]
      /\ semAlloc = [s \in SemSets |-> FALSE] /\ semGen = [s \in SemSets |-> 0]
      /\ semu = [p \in SemProcs |-> << >>]
  BY <1>1 DEF SemInit
<1>3. \A p \in SemProcs : \A s, n : Due(semu[p], s, n) = 0
  <2> SUFFICES ASSUME NEW p \in SemProcs, NEW s, NEW n PROVE Due(semu[p], s, n) = 0
    OBVIOUS
  <2>1. PICK u : u = semu[p]
    OBVIOUS
  <2>2. DOMAIN u = {}
    BY <1>2, <2>1
  <2>3. <<s, n>> \notin DOMAIN u
    BY <2>2
  <2>4. Due(u, s, n) = 0
    BY <2>3, DueInt
  <2> QED BY <2>1, <2>4
<1>4. zero \in [SemNums -> 0 .. USHORT - 1] /\ zero \in [SemNums -> Int]
  <2>1. 0 \in 0 .. USHORT - 1
    BY UshortIs
  <2> QED BY <1>1, <2>1
<1>5. 0 \in Room
  <2>1. PICK x : x = 0
    OBVIOUS
  <2>2. x \in Int /\ -SEMVMX <= x /\ x <= SEMVMX
    BY <2>1, RoomIs
  <2> QED BY <2>1, <2>2, RoomHas
<1>6. ASSUME NEW s \in SemSets
      PROVE  SetOk(s, semAlloc[s], semGen[s], semval[s], semu, semPerm[s])
  <2>1. semAlloc[s] = FALSE /\ semval[s] = zero /\ semPerm[s] = zero
    BY <1>2
  <2> QED BY <1>3, <1>4, <1>5, <2>1 DEF SetOk
<1>7. \E Z : semval \in [SemSets -> Z] /\ semPerm \in [SemSets -> Z]
  <2>1. PICK Z : Z = {zero}
    OBVIOUS
  <2>2. semval \in [SemSets -> Z] /\ semPerm \in [SemSets -> Z]
    BY <1>2, <2>1
  <2> QED BY <2>2
<1>8. Lists(semu)
  <2>1. PICK Z : Z = {<< >>}
    OBVIOUS
  <2>2. semu \in [SemProcs -> Z]
    BY <1>2, <2>1
  <2> QED BY <2>2 DEF Lists
<1> QED BY <1>6, <1>7, <1>8 DEF UndoInv

\* The invariant is the balance of the sets that are allocated.
LEMMA UndoSays == UndoInv => ((\A s \in SemSets : semGen[s] <= 1) => SemUndoBalance)
<1> SUFFICES ASSUME UndoInv, NEW s \in SemSets, semGen[s] <= 1, semAlloc[s], NEW n \in SemNums
             PROVE  (semval[s][n] + AllDue(s, n)) % USHORT = semPerm[s][n] % USHORT
  BY DEF SemUndoBalance
<1>1. SetOk(s, semAlloc[s], semGen[s], semval[s], semu, semPerm[s])
  BY DEF UndoInv
<1>2. (semval[s][n] + AllOf(semu, s, n)) % USHORT = semPerm[s][n] % USHORT
  BY <1>1 DEF SetOk
<1>3. AllOf(semu, s, n) = AllDue(s, n)
  BY DEF AllOf, AllDue
<1> QED BY <1>2, <1>3

\* What semaphores hold and what is due to be undone at exit add up to what
\* completed operations without SEM_UNDO made, through arrays that stop
\* halfway, sleep and start again: while the identifiers of the sets are used
\* once, kalloc clears and succeeds, iSubAdj has room for what decrements
\* take, and the operations of an array are in the order of the semaphores.
THEOREM SemUndoBalanced ==
  ASSUME SemPlain
  PROVE  SemSpec /\ []SemRoom => []((\A s \in SemSets : semGen[s] <= 1) => SemUndoBalance)
<1>1. SemInit => SemInv /\ UndoInv
  BY SemInitInv, UndoInit
<1>2. SemRoom /\ SemInv /\ UndoInv /\ [SemNext]_semVars => SemInv' /\ UndoInv'
  BY SemNextInv, UndoNext
<1>3. UndoInv => ((\A s \in SemSets : semGen[s] <= 1) => SemUndoBalance)
  BY UndoSays
<1> QED BY <1>1, <1>2, <1>3, PTL DEF SemSpec
====
