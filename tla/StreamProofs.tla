---- MODULE StreamProofs ----
(***************************************************************************)
(* Proofs about a stream, for any number of readers and writers, any sizes *)
(* and any water marks: the schedule loses no queue, no sleeping reader is *)
(* left with data, flow control remembers whom it refused, and the bytes   *)
(* come out in the order in which they went in.  And about the timeouts    *)
(* that drivers and modules of streams set, and the pseudo terminal.       *)
(***************************************************************************)
EXTENDS Stream, DdiTime, Tty, SumProofs

SmMsgs == {m \in Int \X Int : m[1] <= m[2] + 1}

SmFlags == {"QENAB", "QFULL", "QWANTR", "QWANTW", "QBACK"}

SmStates == [q : [SmQueues -> Seq(SmMsgs)], flag : [SmQueues -> SUBSET SmFlags],
             sched : Seq(SmQueues), run : BOOLEAN]

----------------------------------------------------------------------------
(* The bytes of a list of messages.                                        *)

Lens(l) == [i \in DOMAIN l |-> l[i][2] - l[i][1] + 1]
Count(l) == SumFunctionOnSet(Lens(l), DOMAIN l)

LEMMA CountIs == \A s, x : q_count(s, x) = Count(s.q[x])
BY DEF q_count, Count, Lens, SumFunction

LEMMA LensAre ==
  ASSUME NEW l \in Seq(SmMsgs)
  PROVE  /\ DOMAIN l = 1 .. Len(l) /\ Len(l) \in Nat
         /\ \A i \in 1 .. Len(l) : l[i] \in SmMsgs /\ Lens(l)[i] = l[i][2] - l[i][1] + 1
                                   /\ Lens(l)[i] \in Nat
<1>1. DOMAIN l = 1 .. Len(l) /\ Len(l) \in Nat /\ \A i \in 1 .. Len(l) : l[i] \in SmMsgs
  OBVIOUS
<1>2. \A m \in SmMsgs : m[2] - m[1] + 1 \in Nat
  BY DEF SmMsgs
<1> QED BY <1>1, <1>2 DEF Lens

\* A message more does not make them fewer.
LEMMA CountAppend ==
  ASSUME NEW l \in Seq(SmMsgs), NEW m \in SmMsgs
  PROVE  /\ Append(l, m) \in Seq(SmMsgs) /\ Count(l) \in Int /\ Count(Append(l, m)) \in Int
         /\ Count(l) <= Count(Append(l, m))
<1> DEFINE k == Append(l, m)
           n == Len(l)
           f == Lens(l)
           e == Lens(k)
<1>1. /\ k \in Seq(SmMsgs) /\ Len(k) = n + 1 /\ n \in Nat /\ k[n + 1] = m
      /\ \A i \in 1 .. n : k[i] = l[i]
  OBVIOUS
<1>2. /\ DOMAIN l = 1 .. n /\ DOMAIN k = 1 .. n + 1
      /\ \A i \in 1 .. n : f[i] = l[i][2] - l[i][1] + 1 /\ f[i] \in Nat
      /\ \A i \in 1 .. n + 1 : e[i] = k[i][2] - k[i][1] + 1 /\ e[i] \in Nat
  BY <1>1, LensAre
<1> HIDE DEF k, n, f, e
<1>3. n \in Nat /\ (\A i \in 1 .. n : f[i] \in Int /\ e[i] = f[i]) /\ e[n + 1] \in Nat
  BY <1>1, <1>2
<1>4. SumFunctionOnSet(e, 1 .. n + 1) = SumFunctionOnSet(f, 1 .. n) + e[n + 1]
  BY <1>3, SumAppended
<1>5. SumFunctionOnSet(f, 1 .. n) \in Int
  <2>1. IsFiniteSet(1 .. n)
    BY <1>3, FS_Interval
  <2> QED BY <1>3, <2>1, SumPick
<1> QED BY <1>1, <1>2, <1>3, <1>4, <1>5 DEF Count, k, f, e

LEMMA ConsIs ==
  ASSUME NEW l \in Seq(SmMsgs), NEW m \in SmMsgs
  PROVE  /\ <<m>> \o l \in Seq(SmMsgs) /\ Len(<<m>> \o l) = Len(l) + 1 /\ (<<m>> \o l)[1] = m
         /\ \A i \in 1 .. Len(l) : (<<m>> \o l)[i + 1] = l[i]
<1>1. <<m>> \in Seq(SmMsgs) /\ Len(<<m>>) = 1 /\ <<m>>[1] = m
  OBVIOUS
<1>2. <<m>> \o l \in Seq(SmMsgs) /\ Len(<<m>> \o l) = Len(l) + 1 /\ (<<m>> \o l)[1] = m
  BY <1>1
<1>3. ASSUME NEW i \in 1 .. Len(l) PROVE (<<m>> \o l)[i + 1] = l[i]
  OBVIOUS
<1> QED BY <1>2, <1>3

LEMMA CountCons ==
  ASSUME NEW l \in Seq(SmMsgs), NEW m \in SmMsgs
  PROVE  /\ <<m>> \o l \in Seq(SmMsgs) /\ Count(l) \in Int /\ Count(<<m>> \o l) \in Int
         /\ Count(l) <= Count(<<m>> \o l)
<1> DEFINE k == <<m>> \o l
           n == Len(l)
           f == Lens(k)
           e == Lens(l)
<1>1. /\ k \in Seq(SmMsgs) /\ Len(k) = n + 1 /\ n \in Nat
      /\ \A i \in 1 .. n : k[i + 1] = l[i]
  BY ConsIs
<1>2. /\ DOMAIN l = 1 .. n /\ DOMAIN k = 1 .. n + 1
      /\ \A i \in 1 .. n + 1 : f[i] = k[i][2] - k[i][1] + 1 /\ f[i] \in Nat
      /\ \A i \in 1 .. n : e[i] = l[i][2] - l[i][1] + 1
  BY <1>1, LensAre
<1> HIDE DEF k, n, f, e
<1> DEFINE N == n + 1
<1>3. N \in Nat /\ 1 \in 1 .. N /\ N - 1 = n /\ f[1] \in Nat /\ n \in Nat
      /\ (\A i \in 1 .. N : f[i] \in Int)
      /\ (\A i \in 1 .. N - 1 : e[i] = IF i < 1 THEN f[i] ELSE f[i + 1])
  BY <1>1, <1>2
<1> HIDE DEF N
<1>4. SumFunctionOnSet(e, 1 .. N - 1) = SumFunctionOnSet(f, 1 .. N) - f[1]
  <2>1. PICK j \in 1 .. N : j = 1
    BY <1>3
  <2>2. N \in Nat /\ j \in 1 .. N /\ (\A i \in 1 .. N : f[i] \in Int)
        /\ (\A i \in 1 .. N - 1 : e[i] = IF i < j THEN f[i] ELSE f[i + 1])
    BY <1>3, <2>1
  <2>3. SumFunctionOnSet(e, 1 .. N - 1) = SumFunctionOnSet(f, 1 .. N) - f[j]
    BY <2>2, SumRemoved, SMTT(60)
  <2> QED BY <2>1, <2>3
<1>5. SumFunctionOnSet(f, 1 .. N) \in Int
  <2>1. IsFiniteSet(1 .. N)
    BY <1>3, FS_Interval
  <2> QED BY <1>3, <2>1, SumPick
<1> QED BY <1>1, <1>2, <1>3, <1>4, <1>5 DEF Count, N, k, f, e

----------------------------------------------------------------------------
(* What the functions on queues keep.                                      *)

\* The schedule holds the enabled queues, each once, and will be run.
Scheduled(s, running) ==
  /\ \A x \in SmQueues : "QENAB" \in s.flag[x] <=> \E i \in DOMAIN s.sched : s.sched[i] = x
  /\ \A i, j \in DOMAIN s.sched : s.sched[i] = s.sched[j] => i = j
  /\ s.sched # << >> => s.run \/ running

\* Flow control, and the flag that QUEUE_CHECK_SCHED looks at.
Flows(s) ==
  \A x \in SmQueues :
    /\ "QWANTR" \in s.flag[x]
    /\ "QFULL" \in s.flag[x] => Count(s.q[x]) > SmLowat
    /\ "QWANTW" \in s.flag[x] => "QFULL" \in s.flag[x]

Sound(s, running) == s \in SmStates /\ Scheduled(s, running) /\ Flows(s)

\* From s to t no queue is taken off the schedule.
Keeps(s, t) == \A x \in SmQueues : "QENAB" \in s.flag[x] => "QENAB" \in t.flag[x]

\* What hr has refused it has refused still.
StillRefused(s, t) == "QWANTW" \in s.flag["hr"] => "QWANTW" \in t.flag["hr"]

\* Nor has one been refused, or is to be enabled, that was not.
NoNewNotes(s, t) ==
  /\ \A x \in SmQueues : \A f \in {"QWANTW", "QBACK"} : f \in t.flag[x] => f \in s.flag[x]
  /\ StillRefused(s, t)

LEMMA HrIs == "hr" \in SmQueues /\ "hw" \in SmQueues /\ "dw" \in SmQueues
BY DEF SmQueues

LEMMA NotesOn ==
  ASSUME NEW s, NEW t, NEW u, NoNewNotes(s, t), NoNewNotes(t, u) PROVE NoNewNotes(s, u)
BY DEF NoNewNotes, StillRefused

\* t is s with the flag f of queue x set, or cleared.
IsFlagged(s, t, x, f) ==
  /\ t \in SmStates /\ t.q = s.q /\ t.sched = s.sched /\ t.run = s.run
  /\ \A y \in SmQueues : \A g : g \in t.flag[y] <=> g \in s.flag[y] \/ (g = f /\ y = x)

IsUnflagged(s, t, x, f) ==
  /\ t \in SmStates /\ t.q = s.q /\ t.sched = s.sched /\ t.run = s.run
  /\ \A y \in SmQueues : \A g : g \in t.flag[y] <=> g \in s.flag[y] /\ ~(g = f /\ y = x)

LEMMA FlaggedIs ==
  ASSUME NEW s \in SmStates, NEW x \in SmQueues, NEW f \in SmFlags
  PROVE  IsFlagged(s, Flagged(s, x, f), x, f)
BY DEF SmStates, Flagged, IsFlagged

LEMMA UnflaggedIs ==
  ASSUME NEW s \in SmStates, NEW x \in SmQueues, NEW f \in SmFlags
  PROVE  IsUnflagged(s, Unflagged(s, x, f), x, f)
BY DEF SmStates, Unflagged, IsUnflagged

\* Only the flags have changed, and not those of scheduling.
Reflagged(s, t) ==
  /\ s \in SmStates /\ t \in SmStates
  /\ t.q = s.q /\ t.sched = s.sched /\ t.run = s.run
  /\ \A x \in SmQueues : "QENAB" \in t.flag[x] <=> "QENAB" \in s.flag[x]

LEMMA ReflaggedScheduled ==
  ASSUME NEW s, NEW t, Reflagged(s, t), NEW r, Scheduled(s, r)
  PROVE  Scheduled(t, r) /\ Keeps(s, t)
BY DEF Reflagged, Scheduled, Keeps

IsScheduled(s, t, l) ==
  t \in SmStates /\ t.q = s.q /\ t.flag = s.flag /\ t.sched = l /\ t.run = TRUE

LEMMA SchedSet ==
  ASSUME NEW s \in SmStates, NEW l \in Seq(SmQueues)
  PROVE  IsScheduled(s, [s EXCEPT !.sched = l, !.run = TRUE], l)
<1> DEFINE u == [s EXCEPT !.sched = l]
           t == [u EXCEPT !.run = TRUE]
<1>1. u \in SmStates /\ u.q = s.q /\ u.flag = s.flag /\ u.sched = l
  BY DEF SmStates
<1>2. [s EXCEPT !.sched = l, !.run = TRUE] = t
  OBVIOUS
<1> HIDE DEF u
<1>3. t \in SmStates /\ t.q = u.q /\ t.flag = u.flag /\ t.sched = u.sched /\ t.run = TRUE
  BY <1>1 DEF SmStates
<1> HIDE DEF t
<1> QED BY <1>1, <1>2, <1>3 DEF IsScheduled

LEMMA TrySched ==
  ASSUME NEW s, NEW r, Sound(s, r), NEW x \in SmQueues
  PROVE  LET t == QUEUE_TRYSCHED(s, x) IN
         Sound(t, r) /\ Keeps(s, t) /\ NoNewNotes(s, t) /\ "QENAB" \in t.flag[x] /\ t.q = s.q
<1> USE DEF IsFlagged, IsUnflagged
<1>1. CASE "QENAB" \in s.flag[x]
  BY <1>1, HrIs DEF QUEUE_TRYSCHED, Keeps, NoNewNotes, StillRefused
<1>2. CASE "QENAB" \notin s.flag[x]
  <2> DEFINE u == Flagged(s, x, "QENAB")
             t == [u EXCEPT !.sched = Append(@, x), !.run = TRUE]
  <2>1. IsFlagged(s, u, x, "QENAB")
    <3>1. s \in SmStates
      BY DEF Sound
    <3> HIDE DEF IsFlagged, IsUnflagged
    <3> QED BY <3>1, FlaggedIs DEF SmFlags
  <2> HIDE DEF u
  <2>2. s.sched \in Seq(SmQueues) /\ u.sched \in Seq(SmQueues)
    BY <2>1 DEF Sound, SmStates
  <2>3. /\ t \in SmStates /\ t.q = s.q /\ t.flag = u.flag /\ t.sched = Append(s.sched, x)
        /\ t.run = TRUE
    <3>1. Append(u.sched, x) \in Seq(SmQueues)
      BY <2>2
    <3>2. PICK l \in Seq(SmQueues) : l = Append(u.sched, x)
      BY <3>1
    <3>3. t = [u EXCEPT !.sched = l, !.run = TRUE]
      BY <3>2
    <3>4. u \in SmStates /\ u.q = s.q /\ u.sched = s.sched
      BY <2>1
    <3>5. IsScheduled(u, [u EXCEPT !.sched = l, !.run = TRUE], l)
      BY <3>4, SchedSet
    <3> HIDE DEF t
    <3>6. IsScheduled(u, t, l)
      BY <3>3, <3>5
    <3> QED BY <3>2, <3>4, <3>6 DEF IsScheduled
  <2> HIDE DEF t
  <2>4. Flows(t)
    <3>1. \A y \in SmQueues : /\ t.q[y] = s.q[y]
            /\ \A f \in {"QWANTR", "QFULL", "QWANTW"} : f \in t.flag[y] <=> f \in s.flag[y]
      BY <2>1, <2>3
    <3> QED BY <3>1 DEF Sound, Flows
  <2>5. Scheduled(t, r)
    <3> DEFINE n == Len(s.sched)
    <3>1. /\ n \in Nat /\ DOMAIN s.sched = 1 .. n /\ DOMAIN t.sched = 1 .. n + 1
          /\ t.sched[n + 1] = x /\ \A i \in 1 .. n : t.sched[i] = s.sched[i]
      BY <2>2, <2>3
    <3>2. \A i \in 1 .. n : s.sched[i] # x
      BY <1>2, <3>1 DEF Sound, Scheduled
    <3> HIDE DEF n
    <3>3. \A y \in SmQueues : "QENAB" \in t.flag[y] <=> \E i \in DOMAIN t.sched : t.sched[i] = y
      <4> TAKE y \in SmQueues
      <4>1. "QENAB" \in s.flag[y] <=> \E i \in 1 .. n : s.sched[i] = y
        BY <3>1 DEF Sound, Scheduled
      <4>2. n + 1 \in 1 .. n + 1 /\ \A i \in 1 .. n + 1 : i \in 1 .. n \/ i = n + 1
        BY <3>1
      <4>3. 1 .. n \subseteq 1 .. n + 1
        BY <3>1
      <4>4. CASE y = x
        BY <2>1, <2>3, <3>1, <4>2, <4>4
      <4>5. CASE y # x
        <5>1. "QENAB" \in t.flag[y] <=> "QENAB" \in s.flag[y]
          BY <2>1, <2>3, <4>5
        <5>2. (\E i \in DOMAIN t.sched : t.sched[i] = y) <=> \E i \in 1 .. n : s.sched[i] = y
          BY <2>3, <3>1, <4>2, <4>3, <4>5
        <5> QED BY <4>1, <5>1, <5>2
      <4> QED BY <4>4, <4>5
    <3>4. \A i, j \in DOMAIN t.sched : t.sched[i] = t.sched[j] => i = j
      <4>1. \A i, j \in 1 .. n : s.sched[i] = s.sched[j] => i = j
        BY <3>1 DEF Sound, Scheduled
      <4>2. ASSUME NEW i \in 1 .. n + 1, NEW j \in 1 .. n + 1, t.sched[i] = t.sched[j]
            PROVE  i = j
        <5>1. CASE i = n + 1 /\ j = n + 1
          BY <5>1
        <5>2. CASE i = n + 1 /\ j \in 1 .. n
          BY <3>1, <3>2, <4>2, <5>2
        <5>3. CASE i \in 1 .. n /\ j = n + 1
          BY <3>1, <3>2, <4>2, <5>3
        <5>4. CASE i \in 1 .. n /\ j \in 1 .. n
          BY <3>1, <4>1, <4>2, <5>4
        <5>5. /\ i \in 1 .. n \/ i = n + 1
              /\ j \in 1 .. n \/ j = n + 1
          BY <3>1
        <5> QED BY <5>1, <5>2, <5>3, <5>4, <5>5
      <4> QED BY <3>1, <4>2
    <3> QED BY <2>3, <3>3, <3>4 DEF Scheduled
  <2>6. Keeps(s, t) /\ NoNewNotes(s, t) /\ "QENAB" \in t.flag[x]
    BY <2>1, <2>3, HrIs DEF Keeps, NoNewNotes, StillRefused
  <2>7. QUEUE_TRYSCHED(s, x) = t
    BY <1>2 DEF QUEUE_TRYSCHED, t, u
  <2> QED BY <2>3, <2>4, <2>5, <2>6, <2>7 DEF Sound
<1> QED BY <1>1, <1>2

\* A list becomes l, from which the schedule does not follow.
Refilled(s, t, x, l) ==
  /\ s \in SmStates /\ x \in SmQueues /\ l \in Seq(SmMsgs)
  /\ t = [s EXCEPT !.q[x] = l]

IsRefilled(s, t, x, l) ==
  /\ t \in SmStates /\ t.flag = s.flag /\ t.sched = s.sched /\ t.run = s.run
  /\ t.q = [s.q EXCEPT ![x] = l]
  /\ \A y \in SmQueues : t.q[y] = IF y = x THEN l ELSE s.q[y]

LEMMA RefilledIs ==
  ASSUME NEW s, NEW t, NEW x, NEW l, Refilled(s, t, x, l)
  PROVE  IsRefilled(s, t, x, l)
<1>1. /\ t.q = [s.q EXCEPT ![x] = l] /\ t.flag = s.flag /\ t.sched = s.sched /\ t.run = s.run
      /\ t = [q |-> t.q, flag |-> t.flag, sched |-> t.sched, run |-> t.run]
  BY DEF Refilled, SmStates
<1>2. t.q \in [SmQueues -> Seq(SmMsgs)]
  BY <1>1 DEF Refilled, SmStates
<1>3. \A y \in SmQueues : t.q[y] = IF y = x THEN l ELSE s.q[y]
  BY <1>1 DEF Refilled, SmStates
<1> QED BY <1>1, <1>2, <1>3 DEF Refilled, SmStates, IsRefilled

\* putq and putbq: l is longer than what was there.
LEMMA Checked ==
  ASSUME NEW s, NEW r, Sound(s, r), NEW u, NEW x, NEW l, Refilled(s, u, x, l),
         Count(s.q[x]) \in Int, Count(l) \in Int, Count(s.q[x]) <= Count(l)
  PROVE  LET t == QUEUE_CHECK_SCHED(u, x) IN
         /\ Sound(t, r) /\ Keeps(s, t) /\ NoNewNotes(s, t)
         /\ "QENAB" \in t.flag[x] /\ t.q = [s.q EXCEPT ![x] = l]
<1> USE DEF IsFlagged, IsUnflagged
<1>0. x \in SmQueues /\ s \in SmStates
  BY DEF Refilled
<1>1. /\ u \in SmStates /\ u.flag = s.flag /\ u.sched = s.sched /\ u.run = s.run
      /\ u.q = [s.q EXCEPT ![x] = l] /\ \A y \in SmQueues : u.q[y] = IF y = x THEN l ELSE s.q[y]
  BY RefilledIs DEF IsRefilled
<1>2. Sound(u, r)
  <2>1. Scheduled(u, r)
    BY <1>1 DEF Sound, Scheduled
  <2>2. \A y \in SmQueues : "QFULL" \in u.flag[y] => Count(u.q[y]) > SmLowat
    <3> TAKE y \in SmQueues
    <3>1. "QFULL" \in s.flag[y] => Count(s.q[y]) > SmLowat
      BY DEF Sound, Flows
    <3>2. CASE y = x
      BY <1>1, <3>1, <3>2, SmAssumption
    <3>3. CASE y # x
      BY <1>1, <3>1, <3>3
    <3> QED BY <3>2, <3>3
  <2>3. Flows(u)
    BY <1>1, <2>2 DEF Sound, Flows
  <2> QED BY <1>1, <2>1, <2>3 DEF Sound
<1> DEFINE w == QUEUE_TRYSCHED(u, x)
<1>3. Sound(w, r) /\ Keeps(u, w) /\ NoNewNotes(u, w) /\ "QENAB" \in w.flag[x] /\ w.q = u.q
  BY <1>0, <1>2, TrySched
<1>4. "QWANTR" \in u.flag[x]
  BY <1>0, <1>2 DEF Sound, Flows
<1>5. QUEUE_CHECK_SCHED(u, x) = IF Count(w.q[x]) > SmHiwat THEN Flagged(w, x, "QFULL") ELSE w
  <2>1. QUEUE_CHECK_SCHED(u, x) = IF q_count(u, x) > SmHiwat THEN Flagged(w, x, "QFULL") ELSE w
    BY <1>4 DEF QUEUE_CHECK_SCHED
  <2> HIDE DEF w
  <2>2. q_count(u, x) = Count(w.q[x])
    BY <1>3, CountIs
  <2> QED BY <2>1, <2>2
<1> HIDE DEF w
<1>6. Keeps(s, w) /\ NoNewNotes(s, w)
  BY <1>1, <1>3, HrIs DEF Keeps, NoNewNotes, StillRefused
<1>7. CASE ~ (Count(w.q[x]) > SmHiwat)
  BY <1>1, <1>3, <1>5, <1>6, <1>7
<1>8. CASE Count(w.q[x]) > SmHiwat
  <2> DEFINE t == Flagged(w, x, "QFULL")
  <2>1. IsFlagged(w, t, x, "QFULL")
    <3>1. w \in SmStates
      BY <1>3 DEF Sound
    <3> HIDE DEF IsFlagged, IsUnflagged
    <3> QED BY <1>0, <3>1, FlaggedIs DEF SmFlags
  <2> HIDE DEF t
  <2>2. Reflagged(w, t)
    BY <1>3, <2>1 DEF Reflagged, Sound
  <2>3. Scheduled(t, r) /\ Keeps(w, t)
    BY <1>3, <2>2, ReflaggedScheduled DEF Sound
  <2>4. Count(w.q[x]) > SmLowat
    <3>1. Count(w.q[x]) \in Int
      BY <1>0, <1>1, <1>3
    <3> QED BY <1>8, <3>1, SmAssumption
  <2>5. Flows(t)
    <3>1. Flows(w)
      BY <1>3 DEF Sound
    <3> QED BY <2>1, <2>4, <3>1 DEF Flows
  <2>6. Keeps(s, t) /\ "QENAB" \in t.flag[x]
    BY <1>0, <1>3, <1>6, <2>3 DEF Keeps
  <2>7. QUEUE_CHECK_SCHED(u, x) = t
    BY <1>5, <1>8 DEF t
  <2>8. NoNewNotes(s, t)
    <3>1. NoNewNotes(w, t)
      BY <2>1, HrIs DEF NoNewNotes, StillRefused
    <3> QED BY <1>6, <3>1, NotesOn
  <2> QED BY <1>1, <1>3, <2>1, <2>3, <2>5, <2>6, <2>7, <2>8 DEF Sound
<1> QED BY <1>7, <1>8

LEMMA PutqIs ==
  ASSUME NEW s, NEW r, Sound(s, r), NEW x \in SmQueues, NEW m \in SmMsgs
  PROVE  LET t == putq(s, x, m) IN
         /\ Sound(t, r) /\ Keeps(s, t) /\ NoNewNotes(s, t) /\ "QENAB" \in t.flag[x]
         /\ t.q = [s.q EXCEPT ![x] = Append(s.q[x], m)]
<1>1. s \in SmStates /\ s.q[x] \in Seq(SmMsgs)
  BY DEF Sound, SmStates
<1> DEFINE l == Append(s.q[x], m)
           u == [s EXCEPT !.q[x] = l]
<1>2. l \in Seq(SmMsgs) /\ Count(s.q[x]) \in Int /\ Count(l) \in Int /\ Count(s.q[x]) <= Count(l)
  BY <1>1, CountAppend
<1>3. putq(s, x, m) = QUEUE_CHECK_SCHED(u, x)
  BY DEF putq
<1> HIDE DEF l
<1>4. Refilled(s, u, x, l)
  BY <1>1, <1>2 DEF Refilled
<1> HIDE DEF u
<1>5. Sound(QUEUE_CHECK_SCHED(u, x), r) /\ Keeps(s, QUEUE_CHECK_SCHED(u, x))
      /\ NoNewNotes(s, QUEUE_CHECK_SCHED(u, x))
      /\ "QENAB" \in QUEUE_CHECK_SCHED(u, x).flag[x]
      /\ QUEUE_CHECK_SCHED(u, x).q = [s.q EXCEPT ![x] = l]
  BY <1>2, <1>4, Checked
<1> QED BY <1>3, <1>5 DEF l

LEMMA PutbqIs ==
  ASSUME NEW s, NEW r, Sound(s, r), NEW x \in SmQueues, NEW m \in SmMsgs
  PROVE  LET t == putbq(s, x, m) IN
         /\ Sound(t, r) /\ Keeps(s, t) /\ NoNewNotes(s, t) /\ "QENAB" \in t.flag[x]
         /\ t.q = [s.q EXCEPT ![x] = <<m>> \o s.q[x]]
<1>1. s \in SmStates /\ s.q[x] \in Seq(SmMsgs)
  BY DEF Sound, SmStates
<1> DEFINE l == <<m>> \o s.q[x]
           u == [s EXCEPT !.q[x] = l]
<1>2. l \in Seq(SmMsgs) /\ Count(s.q[x]) \in Int /\ Count(l) \in Int /\ Count(s.q[x]) <= Count(l)
  BY <1>1, CountCons
<1>3. putbq(s, x, m) = QUEUE_CHECK_SCHED(u, x)
  BY DEF putbq
<1> HIDE DEF l
<1>4. Refilled(s, u, x, l)
  BY <1>1, <1>2 DEF Refilled
<1> HIDE DEF u
<1>5. Sound(QUEUE_CHECK_SCHED(u, x), r) /\ Keeps(s, QUEUE_CHECK_SCHED(u, x))
      /\ NoNewNotes(s, QUEUE_CHECK_SCHED(u, x))
      /\ "QENAB" \in QUEUE_CHECK_SCHED(u, x).flag[x]
      /\ QUEUE_CHECK_SCHED(u, x).q = [s.q EXCEPT ![x] = l]
  BY <1>2, <1>4, Checked
<1> QED BY <1>3, <1>5 DEF l

\* The only new note may be QBACK of x.
NewNote(s, t, x) ==
  /\ \A y \in SmQueues : \A f \in {"QWANTW", "QBACK"} :
       f \in t.flag[y] => f \in s.flag[y] \/ (f = "QBACK" /\ y = x /\ "QWANTW" \in s.flag[x])
  /\ x # "hr" => StillRefused(s, t)

\* rmvq, and what getq does with the note it leaves.
LEMMA RmvqIs ==
  ASSUME NEW s, NEW r, Sound(s, r), NEW x \in SmQueues, s.q[x] # << >>
  PROVE  LET t == rmvq(s, x) IN
         /\ Sound(t, r) /\ Keeps(s, t) /\ NewNote(s, t, x)
         /\ t.q = [s.q EXCEPT ![x] = Tail(s.q[x])]
<1> USE DEF IsFlagged, IsUnflagged
<1> DEFINE l == Tail(s.q[x])
           u == [s EXCEPT !.q[x] = l]
           low == "QFULL" \in s.flag[x] /\ Count(l) <= SmLowat
           v == Unflagged(u, x, "QFULL")
           w == Unflagged(v, x, "QWANTW")
           z == Flagged(w, x, "QBACK")
<1>1. s \in SmStates /\ s.q[x] \in Seq(SmMsgs)
  BY DEF Sound, SmStates
<1>2. l \in Seq(SmMsgs)
  BY <1>1
<1>3. rmvq(s, x) = IF ~("QFULL" \in s.flag[x] /\ q_count(u, x) <= SmLowat) THEN u
                   ELSE IF "QWANTW" \in s.flag[x] THEN z ELSE v
  BY DEF rmvq
<1> HIDE DEF l
<1>4. Refilled(s, u, x, l)
  BY <1>1, <1>2 DEF Refilled
<1> HIDE DEF u
<1>17. IsRefilled(s, u, x, l)
  BY <1>4, RefilledIs
<1>16. /\ u.q = [s.q EXCEPT ![x] = l] /\ \A y \in SmQueues : u.q[y] = IF y = x THEN l ELSE s.q[y]
  BY <1>17 DEF IsRefilled
<1>5. u \in SmStates /\ u.flag = s.flag /\ u.sched = s.sched /\ u.run = s.run
  BY <1>17 DEF IsRefilled
<1>6. IsUnflagged(u, v, x, "QFULL")
  <2>1. u \in SmStates
    BY <1>5
  <2> HIDE DEF IsFlagged, IsUnflagged
  <2> QED BY <2>1, UnflaggedIs DEF SmFlags
<1> HIDE DEF v
<1>7. IsUnflagged(v, w, x, "QWANTW")
  <2>1. v \in SmStates
    BY <1>6
  <2> HIDE DEF IsFlagged, IsUnflagged
  <2> QED BY <2>1, UnflaggedIs DEF SmFlags
<1> HIDE DEF w
<1>8. IsFlagged(w, z, x, "QBACK")
  <2>1. w \in SmStates
    BY <1>7
  <2> HIDE DEF IsFlagged, IsUnflagged
  <2> QED BY <2>1, FlaggedIs DEF SmFlags
<1> HIDE DEF z
<1>9. q_count(u, x) = Count(l)
  BY <1>16, CountIs
<1>10. Count(l) \in Int
  <2>1. <<0, 0>> \in SmMsgs
    BY DEF SmMsgs
  <2> QED BY <1>2, <2>1, CountAppend
<1>11. Scheduled(u, r) /\ Flows(s)
  BY <1>5 DEF Sound, Scheduled
<1>12. \A y \in SmQueues : y # x => u.q[y] = s.q[y] /\ z.q[y] = s.q[y] /\ v.q[y] = s.q[y]
  BY <1>16, <1>6, <1>7, <1>8
<1>13. CASE ~low
  <2>1. "QFULL" \in u.flag[x] => Count(u.q[x]) > SmLowat
    BY <1>5, <1>10, <1>13, <1>16, SmAssumption
  <2>2. Flows(u)
    BY <1>5, <1>11, <1>12, <2>1 DEF Flows
  <2>3. Keeps(s, u)
    BY <1>5 DEF Keeps
  <2>4. rmvq(s, x) = u
    BY <1>3, <1>9, <1>13
  <2>7. NewNote(s, u, x)
    BY <1>5, HrIs DEF NewNote, StillRefused
  <2> QED BY <1>5, <1>11, <1>16, <2>2, <2>3, <2>4, <2>7 DEF Sound, l
<1>14. CASE low /\ "QWANTW" \in s.flag[x]
  <2>1. Reflagged(u, z)
    BY <1>5, <1>6, <1>7, <1>8 DEF Reflagged
  <2>2. Scheduled(z, r) /\ Keeps(u, z)
    BY <1>11, <2>1, ReflaggedScheduled
  <2>3. \A y \in SmQueues :
          /\ "QWANTR" \in z.flag[y] <=> "QWANTR" \in s.flag[y]
          /\ y = x => "QFULL" \notin z.flag[y] /\ "QWANTW" \notin z.flag[y]
          /\ y # x => \A g \in {"QFULL", "QWANTW"} : g \in z.flag[y] <=> g \in s.flag[y]
    BY <1>5, <1>6, <1>7, <1>8
  <2>4. Flows(z)
    BY <1>11, <1>12, <2>3 DEF Flows
  <2>5. Keeps(s, z)
    BY <1>5, <2>2 DEF Keeps
  <2>6. rmvq(s, x) = z
    BY <1>3, <1>9, <1>14
  <2>7. NewNote(s, z, x)
    BY <1>5, <1>6, <1>7, <1>8, <1>14, HrIs DEF NewNote, StillRefused
  <2> QED BY <1>16, <1>6, <1>7, <1>8, <2>2, <2>4, <2>5, <2>6, <2>7 DEF Sound, l
<1>15. CASE low /\ "QWANTW" \notin s.flag[x]
  <2>1. Reflagged(u, v)
    BY <1>5, <1>6 DEF Reflagged
  <2>2. Scheduled(v, r) /\ Keeps(u, v)
    BY <1>11, <2>1, ReflaggedScheduled
  <2>3. \A y \in SmQueues :
          /\ "QWANTR" \in v.flag[y] <=> "QWANTR" \in s.flag[y]
          /\ y = x => "QFULL" \notin v.flag[y] /\ "QWANTW" \notin v.flag[y]
          /\ y # x => \A g \in {"QFULL", "QWANTW"} : g \in v.flag[y] <=> g \in s.flag[y]
    BY <1>5, <1>6, <1>15
  <2>4. Flows(v)
    BY <1>11, <1>12, <2>3 DEF Flows
  <2>5. Keeps(s, v)
    BY <1>5, <2>2 DEF Keeps
  <2>6. rmvq(s, x) = v
    BY <1>3, <1>9, <1>15
  <2>7. NewNote(s, v, x)
    BY <1>5, <1>6, HrIs DEF NewNote, StillRefused
  <2> QED BY <1>16, <1>6, <2>2, <2>4, <2>5, <2>6, <2>7 DEF Sound, l
<1> HIDE DEF low
<1> QED BY <1>13, <1>14, <1>15

LEMMA GetqIs ==
  ASSUME NEW s, NEW r, Sound(s, r), NEW x \in SmQueues
  PROVE  LET t == getq(s, x) IN
         /\ Sound(t, r) /\ Keeps(s, t)
         /\ x # "hr" \/ s.q[x] = << >> => NoNewNotes(s, t)
         /\ t.q = IF s.q[x] = << >> THEN s.q ELSE [s.q EXCEPT ![x] = Tail(s.q[x])]
<1> USE DEF IsFlagged, IsUnflagged
<1>0. s \in SmStates /\ "hw" \in SmQueues
  BY DEF Sound, SmQueues
<1>1. CASE s.q[x] = << >>
  <2> DEFINE t == Flagged(s, x, "QWANTR")
  <2>1. IsFlagged(s, t, x, "QWANTR")
    BY <1>0, FlaggedIs DEF SmFlags
  <2>2. getq(s, x) = t
    BY <1>1 DEF getq
  <2> HIDE DEF t
  <2>3. Scheduled(t, r) /\ Keeps(s, t)
    <3>1. Reflagged(s, t)
      BY <1>0, <2>1 DEF Reflagged
    <3> QED BY <3>1, ReflaggedScheduled DEF Sound
  <2>4. Flows(t)
    <3>1. Flows(s)
      BY DEF Sound
    <3> QED BY <2>1, <3>1 DEF Flows
  <2>5. NoNewNotes(s, t)
    BY <2>1, HrIs DEF NoNewNotes, StillRefused
  <2> QED BY <1>1, <2>1, <2>2, <2>3, <2>4, <2>5 DEF Sound
<1>2. CASE s.q[x] # << >>
  <2> DEFINE t == rmvq(s, x)
             u == Unflagged(t, x, "QBACK")
  <2>1. /\ Sound(t, r) /\ Keeps(s, t) /\ NewNote(s, t, x)
        /\ t.q = [s.q EXCEPT ![x] = Tail(s.q[x])]
    BY <1>2, RmvqIs
  <2>2. getq(s, x) = IF "QBACK" \in t.flag[x] THEN QUEUE_TRYSCHED(u, "hw") ELSE t
    BY <1>2 DEF getq
  <2> HIDE DEF t
  <2>3. IsUnflagged(t, u, x, "QBACK")
    <3>1. t \in SmStates
      BY <2>1 DEF Sound
    <3> HIDE DEF IsFlagged, IsUnflagged
    <3> QED BY <3>1, UnflaggedIs DEF SmFlags
  <2> HIDE DEF u
  <2>4. Scheduled(u, r) /\ Keeps(t, u)
    <3>1. Reflagged(t, u)
      BY <2>1, <2>3 DEF Reflagged, Sound
    <3> QED BY <2>1, <3>1, ReflaggedScheduled DEF Sound
  <2>5. Flows(u)
    <3>1. Flows(t)
      BY <2>1 DEF Sound
    <3> QED BY <2>3, <3>1 DEF Flows
  <2>6. Sound(u, r)
    BY <2>3, <2>4, <2>5 DEF Sound
  <2> DEFINE w == QUEUE_TRYSCHED(u, "hw")
  <2>7. Sound(w, r) /\ Keeps(u, w) /\ NoNewNotes(u, w) /\ w.q = u.q
    BY <1>0, <2>6, TrySched
  <2> HIDE DEF w
  <2>8. Keeps(s, w)
    BY <2>1, <2>4, <2>7 DEF Keeps
  <2>9. x # "hr" => NoNewNotes(s, w)
    <3>1. x # "hr" => NoNewNotes(s, u)
      BY <2>1, <2>3, HrIs DEF NewNote, NoNewNotes, StillRefused
    <3> QED BY <2>7, <3>1, NotesOn
  <2>10. CASE "QBACK" \in t.flag[x]
    BY <1>2, <2>1, <2>2, <2>3, <2>7, <2>8, <2>9, <2>10 DEF w
  <2>11. CASE "QBACK" \notin t.flag[x]
    <3>1. x # "hr" => NoNewNotes(s, t)
      BY <2>1, <2>11, HrIs DEF NewNote, NoNewNotes, StillRefused
    <3> QED BY <1>2, <2>1, <2>2, <2>11, <3>1
  <2> QED BY <2>10, <2>11
<1> QED BY <1>1, <1>2

\* The only new note may be QWANTW of x.
Marked(s, t, x) ==
  /\ \A y \in SmQueues : \A f \in {"QWANTW", "QBACK"} :
       f \in t.flag[y] => f \in s.flag[y] \/ (f = "QWANTW" /\ y = x)
  /\ StillRefused(s, t)

LEMMA RefusedIs ==
  ASSUME NEW s, NEW r, Sound(s, r), NEW x \in SmQueues, ~canput(s, x)
  PROVE  LET t == Refused(s, x) IN
         Sound(t, r) /\ Keeps(s, t) /\ Marked(s, t, x) /\ t.q = s.q
<1> USE DEF IsFlagged, IsUnflagged
<1> DEFINE t == Refused(s, x)
<1>0. s \in SmStates /\ "QFULL" \in s.flag[x]
  BY DEF Sound, canput
<1>1. IsFlagged(s, t, x, "QWANTW")
  <2>1. t = Flagged(s, x, "QWANTW")
    BY DEF Refused
  <2> HIDE DEF t
  <2> HIDE DEF IsFlagged, IsUnflagged
  <2> QED BY <1>0, <2>1, FlaggedIs DEF SmFlags
<1> HIDE DEF t
<1>2. Scheduled(t, r) /\ Keeps(s, t)
  <2>1. Reflagged(s, t)
    BY <1>0, <1>1 DEF Reflagged
  <2> QED BY <2>1, ReflaggedScheduled DEF Sound
<1>3. Flows(t)
  <2>1. Flows(s)
    BY DEF Sound
  <2> QED BY <1>0, <1>1, <2>1 DEF Flows
<1>4. Marked(s, t, x)
  BY <1>1, HrIs DEF Marked, StillRefused
<1> QED BY <1>1, <1>2, <1>3, <1>4 DEF Sound, t

----------------------------------------------------------------------------
(* Order: lists of intervals that continue one another.                    *)

\* The messages of l follow on byte a, and the last byte of them.
Linked(a, l) == \A i \in DOMAIN l : l[i][1] = 1 + IF i = 1 THEN a ELSE l[i - 1][2]
End(a, l) == IF l = << >> THEN a ELSE l[Len(l)][2]

LEMMA MsgIs == \A m \in SmMsgs : m[1] \in Int /\ m[2] \in Int
BY DEF SmMsgs

LEMMA EndIs ==
  ASSUME NEW l \in Seq(SmMsgs), NEW a \in Int
  PROVE  End(a, l) \in Int
<1>1. CASE l # << >>
  <2>1. l[Len(l)] \in SmMsgs
    BY <1>1
  <2> QED BY <1>1, <2>1, MsgIs DEF End
<1> QED BY <1>1 DEF End

LEMMA LinkedAppend ==
  ASSUME NEW l \in Seq(SmMsgs), NEW a \in Int, NEW m \in SmMsgs, Linked(a, l), m[1] = End(a, l) + 1
  PROVE  Linked(a, Append(l, m)) /\ End(a, Append(l, m)) = m[2]
<1> DEFINE k == Append(l, m)
           n == Len(l)
<1>1. /\ DOMAIN k = 1 .. n + 1 /\ DOMAIN l = 1 .. n /\ n \in Nat /\ Len(k) = n + 1 /\ k # << >>
      /\ k[n + 1] = m /\ (\A i \in 1 .. n : k[i] = l[i]) /\ (l = << >> <=> n = 0)
  OBVIOUS
<1> HIDE DEF k, n
<1>2. End(a, k) = m[2]
  BY <1>1 DEF End
<1>3. ASSUME NEW i \in 1 .. n + 1
      PROVE  k[i][1] = 1 + IF i = 1 THEN a ELSE k[i - 1][2]
  <2>1. CASE i \in 1 .. n
    <3>1. l[i][1] = 1 + IF i = 1 THEN a ELSE l[i - 1][2]
      BY <1>1, <2>1 DEF Linked
    <3>2. i # 1 => i - 1 \in 1 .. n
      BY <1>1, <2>1
    <3> QED BY <1>1, <2>1, <3>1, <3>2
  <2>2. CASE i = n + 1
    <3>1. End(a, l) = IF n = 0 THEN a ELSE l[n][2]
      BY <1>1 DEF End, n
    <3>2. End(a, l) \in Int
      BY EndIs
    <3>3. n # 0 => k[n] = l[n]
      BY <1>1
    <3>4. m[1] = 1 + End(a, l)
      BY <3>2
    <3> QED BY <1>1, <2>2, <3>1, <3>3, <3>4
  <2> QED BY <1>1, <2>1, <2>2
<1> QED BY <1>1, <1>2, <1>3 DEF Linked, k

LEMMA LinkedCons ==
  ASSUME NEW l \in Seq(SmMsgs), NEW a \in Int, NEW m \in SmMsgs
  PROVE  /\ Linked(a, <<m>> \o l) <=> m[1] = a + 1 /\ Linked(m[2], l)
         /\ End(a, <<m>> \o l) = End(m[2], l)
<1> DEFINE k == <<m>> \o l
           n == Len(l)
<1>1. /\ DOMAIN l = 1 .. n /\ n \in Nat /\ (l = << >> <=> n = 0)
  OBVIOUS
<1>2. k \in Seq(SmMsgs) /\ Len(k) = n + 1 /\ k[1] = m /\ \A i \in 1 .. n : k[i + 1] = l[i]
  BY ConsIs
<1> HIDE DEF k
<1>3. DOMAIN k = 1 .. n + 1 /\ k # << >>
  BY <1>1, <1>2
<1>4. End(a, k) = End(m[2], l)
  BY <1>1, <1>2, <1>3 DEF End
<1> HIDE DEF n
<1>5. ASSUME Linked(a, k) PROVE m[1] = a + 1 /\ Linked(m[2], l)
  <2>1. m[1] = 1 + a
    BY <1>1, <1>2, <1>3, <1>5 DEF Linked
  <2>2. ASSUME NEW i \in 1 .. n PROVE l[i][1] = 1 + IF i = 1 THEN m[2] ELSE l[i - 1][2]
    <3>1. i + 1 \in 1 .. n + 1 /\ i + 1 # 1 /\ (i + 1) - 1 = i /\ i \in Nat
      BY <1>1
    <3>2. k[i + 1][1] = 1 + k[i][2]
      BY <1>3, <1>5, <3>1 DEF Linked
    <3>3. CASE i = 1
      BY <1>2, <3>2, <3>3
    <3>4. CASE i # 1
      <4>1. i - 1 \in 1 .. n /\ (i - 1) + 1 = i
        BY <1>1, <3>4
      <4> QED BY <1>2, <3>2, <3>4, <4>1
    <3> QED BY <3>3, <3>4
  <2> QED BY <1>1, <2>1, <2>2 DEF Linked
<1>6. ASSUME m[1] = a + 1, Linked(m[2], l) PROVE Linked(a, k)
  <2>1. ASSUME NEW i \in 1 .. n + 1 PROVE k[i][1] = 1 + IF i = 1 THEN a ELSE k[i - 1][2]
    <3>1. CASE i = 1
      BY <1>2, <1>6, <3>1
    <3>2. CASE i # 1
      <4>1. PICK j \in 1 .. n : i = j + 1 /\ i - 1 = j
        BY <1>1, <3>2
      <4>2. l[j][1] = 1 + IF j = 1 THEN m[2] ELSE l[j - 1][2]
        BY <1>1, <1>6 DEF Linked
      <4>3. k[i] = l[j]
        BY <1>2, <4>1
      <4>4. j = 1 => k[j] = m
        BY <1>2
      <4>5. j # 1 => k[j] = l[j - 1]
        <5>1. j # 1 => j - 1 \in 1 .. n /\ (j - 1) + 1 = j
          BY <1>1
        <5> QED BY <1>2, <5>1
      <4> QED BY <3>2, <4>1, <4>2, <4>3, <4>4, <4>5
    <3> QED BY <3>1, <3>2
  <2> QED BY <1>3, <2>1 DEF Linked
<1> QED BY <1>4, <1>5, <1>6 DEF k

\* What is first and what is left.
LEMMA HeadTail ==
  ASSUME NEW l \in Seq(SmMsgs), l # << >>
  PROVE  Head(l) \in SmMsgs /\ Tail(l) \in Seq(SmMsgs) /\ l = <<Head(l)>> \o Tail(l)
OBVIOUS

LEMMA LinkedConcat ==
  ASSUME NEW l \in Seq(SmMsgs), NEW k \in Seq(SmMsgs), NEW a \in Int,
         Linked(a, l), Linked(End(a, l), k)
  PROVE  l \o k \in Seq(SmMsgs) /\ Linked(a, l \o k) /\ End(a, l \o k) = End(End(a, l), k)
<1> DEFINE j == l \o k
           n == Len(l)
           h == Len(k)
<1>1. /\ DOMAIN l = 1 .. n /\ n \in Nat /\ (l = << >> <=> n = 0)
      /\ DOMAIN k = 1 .. h /\ h \in Nat /\ (k = << >> <=> h = 0)
      /\ DOMAIN j = 1 .. n + h /\ Len(j) = n + h /\ (j = << >> <=> n + h = 0)
      /\ (\A i \in 1 .. n : j[i] = l[i]) /\ (\A i \in 1 .. h : j[n + i] = k[i])
      /\ j \in Seq(SmMsgs)
  OBVIOUS
<1>2. End(a, l) = IF n = 0 THEN a ELSE l[n][2]
  BY <1>1 DEF End
<1>3. End(End(a, l), k) = IF h = 0 THEN End(a, l) ELSE k[h][2]
  BY <1>1 DEF End
<1>4. End(a, j) = IF n + h = 0 THEN a ELSE j[n + h][2]
  BY <1>1 DEF End
<1> HIDE DEF j, n, h
<1>5. End(a, j) = End(End(a, l), k)
  <2>1. CASE h = 0
    BY <1>1, <1>2, <1>3, <1>4, <2>1
  <2>2. CASE h # 0
    <3>1. h \in 1 .. h /\ n + h # 0
      BY <1>1, <2>2
    <3> QED BY <1>1, <1>3, <1>4, <2>2, <3>1
  <2> QED BY <2>1, <2>2
<1>6. ASSUME NEW i \in 1 .. n + h PROVE j[i][1] = 1 + IF i = 1 THEN a ELSE j[i - 1][2]
  <2>1. CASE i \in 1 .. n
    <3>1. l[i][1] = 1 + IF i = 1 THEN a ELSE l[i - 1][2]
      BY <1>1, <2>1 DEF Linked
    <3>2. i # 1 => i - 1 \in 1 .. n
      BY <1>1, <2>1
    <3> QED BY <1>1, <2>1, <3>1, <3>2
  <2>2. CASE i \notin 1 .. n
    <3>1. PICK g \in 1 .. h : i = n + g
      <4>1. i - n \in 1 .. h /\ i = n + (i - n)
        BY <1>1, <2>2
      <4> QED BY <4>1
    <3>2. k[g][1] = 1 + IF g = 1 THEN End(a, l) ELSE k[g - 1][2]
      BY <1>1 DEF Linked
    <3>3. CASE g = 1
      <4>1. n # 0 => i - 1 = n /\ n \in 1 .. n /\ i # 1
        BY <1>1, <3>1, <3>3
      <4>2. n = 0 => i = 1
        BY <3>1, <3>3
      <4> QED BY <1>1, <1>2, <3>1, <3>2, <3>3, <4>1, <4>2
    <3>4. CASE g # 1
      <4>1. g - 1 \in 1 .. h /\ i - 1 = n + (g - 1) /\ i # 1
        BY <1>1, <3>1, <3>4
      <4> QED BY <1>1, <3>1, <3>2, <3>4, <4>1
    <3> QED BY <3>3, <3>4
  <2> QED BY <2>1, <2>2
<1> QED BY <1>1, <1>5, <1>6 DEF Linked, j

\* What is in the queues follows on byte a, from the reader's end to the
\* writer's, and ends with byte b.
Order(q, a, b) ==
  /\ Linked(a, q["hr"])
  /\ Linked(End(a, q["hr"]), q["dw"])
  /\ Linked(End(End(a, q["hr"]), q["dw"]), q["hw"])
  /\ b = End(End(End(a, q["hr"]), q["dw"]), q["hw"])

LEMMA OrderPut ==
  ASSUME NEW q \in [SmQueues -> Seq(SmMsgs)], NEW a \in Int, NEW b, Order(q, a, b),
         NEW m \in SmMsgs, m[1] = b + 1
  PROVE  Order([q EXCEPT !["hw"] = Append(q["hw"], m)], a, m[2])
<1> DEFINE k == [q EXCEPT !["hw"] = Append(q["hw"], m)]
<1>1. k["hr"] = q["hr"] /\ k["dw"] = q["dw"] /\ k["hw"] = Append(q["hw"], m)
  BY DEF SmQueues
<1>2. q["hr"] \in Seq(SmMsgs) /\ q["dw"] \in Seq(SmMsgs) /\ q["hw"] \in Seq(SmMsgs)
  BY DEF SmQueues
<1> HIDE DEF k
<1>3. End(a, q["hr"]) \in Int
  BY <1>2, EndIs
<1>4. End(End(a, q["hr"]), q["dw"]) \in Int
  BY <1>2, <1>3, EndIs
<1>5. PICK e \in Int : e = End(End(a, q["hr"]), q["dw"])
  BY <1>4
<1>6. Linked(e, q["hw"]) /\ m[1] = End(e, q["hw"]) + 1
  BY <1>5 DEF Order
<1>7. Linked(e, Append(q["hw"], m)) /\ End(e, Append(q["hw"], m)) = m[2]
  BY <1>2, <1>6, LinkedAppend
<1>8. Order(k, a, m[2])
  BY <1>1, <1>5, <1>7 DEF Order
<1> QED BY <1>8 DEF k

LEMMA OrderTake ==
  ASSUME NEW q \in [SmQueues -> Seq(SmMsgs)], NEW a \in Int, NEW b, Order(q, a, b),
         q["hr"] # << >>
  PROVE  Head(q["hr"])[1] = a + 1 /\ Order([q EXCEPT !["hr"] = Tail(q["hr"])], Head(q["hr"])[2], b)
<1> DEFINE k == [q EXCEPT !["hr"] = Tail(q["hr"])]
<1>1. k["hr"] = Tail(q["hr"]) /\ k["dw"] = q["dw"] /\ k["hw"] = q["hw"] /\ q["hr"] \in Seq(SmMsgs)
  BY DEF SmQueues
<1> HIDE DEF k
<1>2. PICK m \in SmMsgs : m = Head(q["hr"])
  BY <1>1, HeadTail
<1>3. PICK l \in Seq(SmMsgs) : l = Tail(q["hr"])
  BY <1>1, HeadTail
<1>4. q["hr"] = <<m>> \o l
  BY <1>1, <1>2, <1>3, HeadTail
<1>5. /\ Linked(a, q["hr"]) <=> m[1] = a + 1 /\ Linked(m[2], l)
      /\ End(a, q["hr"]) = End(m[2], l)
  <2>1. /\ Linked(a, <<m>> \o l) <=> m[1] = a + 1 /\ Linked(m[2], l)
        /\ End(a, <<m>> \o l) = End(m[2], l)
    BY LinkedCons
  <2> QED BY <1>4, <2>1
<1>6. m[1] = a + 1 /\ Order(k, m[2], b)
  BY <1>1, <1>3, <1>5 DEF Order
<1> QED BY <1>2, <1>6 DEF k

LEMMA OrderBack ==
  ASSUME NEW q \in [SmQueues -> Seq(SmMsgs)], NEW a \in Int, NEW b, NEW m \in SmMsgs,
         Order(q, m[2], b), m[1] = a + 1
  PROVE  Order([q EXCEPT !["hr"] = <<m>> \o q["hr"]], a, b)
<1> DEFINE k == [q EXCEPT !["hr"] = <<m>> \o q["hr"]]
<1>1. k["hr"] = <<m>> \o q["hr"] /\ k["dw"] = q["dw"] /\ k["hw"] = q["hw"] /\ q["hr"] \in Seq(SmMsgs)
  BY DEF SmQueues
<1> HIDE DEF k
<1>2. PICK l \in Seq(SmMsgs) : l = q["hr"]
  BY <1>1
<1>3. /\ Linked(a, <<m>> \o l) <=> m[1] = a + 1 /\ Linked(m[2], l)
      /\ End(a, <<m>> \o l) = End(m[2], l)
  BY LinkedCons
<1>4. PICK h : h = <<m>> \o l
  OBVIOUS
<1>5. Order(k, a, b)
  BY <1>1, <1>2, <1>3, <1>4 DEF Order
<1> QED BY <1>5 DEF k

\* The first of one list becomes the last of the list before it.
LEMMA LinkedMove ==
  ASSUME NEW l \in Seq(SmMsgs), NEW k \in Seq(SmMsgs), NEW a \in Int, k # << >>,
         Linked(a, l), Linked(End(a, l), k)
  PROVE  /\ Append(l, Head(k)) \in Seq(SmMsgs) /\ Tail(k) \in Seq(SmMsgs)
         /\ Linked(a, Append(l, Head(k))) /\ Linked(End(a, Append(l, Head(k))), Tail(k))
         /\ End(End(a, Append(l, Head(k))), Tail(k)) = End(End(a, l), k)
<1>1. PICK m \in SmMsgs : m = Head(k)
  BY HeadTail
<1>2. PICK t \in Seq(SmMsgs) : t = Tail(k)
  BY HeadTail
<1>3. k = <<m>> \o t
  BY <1>1, <1>2, HeadTail
<1>4. PICK e \in Int : e = End(a, l)
  BY EndIs
<1>5. /\ Linked(e, <<m>> \o t) <=> m[1] = e + 1 /\ Linked(m[2], t)
      /\ End(e, <<m>> \o t) = End(m[2], t)
  BY LinkedCons
<1>6. Linked(e, k) /\ End(e, k) = End(m[2], t) /\ m[1] = e + 1 /\ Linked(m[2], t)
  BY <1>3, <1>4, <1>5
<1>7. Linked(a, Append(l, m)) /\ End(a, Append(l, m)) = m[2]
  BY <1>4, <1>6, LinkedAppend
<1> QED BY <1>1, <1>2, <1>4, <1>6, <1>7

LEMMA OrderMove ==
  ASSUME NEW q \in [SmQueues -> Seq(SmMsgs)], NEW a \in Int, NEW b, Order(q, a, b),
         NEW x \in {"hw", "dw"}, q[x] # << >>, NEW k,
         \A y \in SmQueues : k[y] = IF y = x THEN Tail(q[x])
                                    ELSE IF y = Below(x) THEN Append(q[y], Head(q[x]))
                                    ELSE q[y]
  PROVE  Order(k, a, b)
<1>1. q["hr"] \in Seq(SmMsgs) /\ q["dw"] \in Seq(SmMsgs) /\ q["hw"] \in Seq(SmMsgs)
  BY DEF SmQueues
<1>2. PICK e \in Int : e = End(a, q["hr"])
  BY <1>1, EndIs
<1>3. Linked(a, q["hr"]) /\ Linked(e, q["dw"]) /\ Linked(End(e, q["dw"]), q["hw"])
      /\ b = End(End(e, q["dw"]), q["hw"])
  BY <1>2 DEF Order
<1>4. CASE x = "hw"
  <2>1. k["hw"] = Tail(q["hw"]) /\ k["dw"] = Append(q["dw"], Head(q["hw"])) /\ k["hr"] = q["hr"]
    BY <1>4 DEF SmQueues, Below
  <2>2. /\ Linked(e, Append(q["dw"], Head(q["hw"])))
        /\ Linked(End(e, Append(q["dw"], Head(q["hw"]))), Tail(q["hw"]))
        /\ End(End(e, Append(q["dw"], Head(q["hw"]))), Tail(q["hw"])) = b
    <3>1. q["hw"] # << >>
      BY <1>4
    <3> QED BY <1>1, <1>3, <3>1, LinkedMove
  <2> QED BY <1>2, <1>3, <2>1, <2>2 DEF Order
<1>5. CASE x = "dw"
  <2>1. k["dw"] = Tail(q["dw"]) /\ k["hr"] = Append(q["hr"], Head(q["dw"])) /\ k["hw"] = q["hw"]
    BY <1>5 DEF SmQueues, Below
  <2>2. /\ Linked(a, Append(q["hr"], Head(q["dw"])))
        /\ Linked(End(a, Append(q["hr"], Head(q["dw"]))), Tail(q["dw"]))
        /\ End(End(a, Append(q["hr"], Head(q["dw"]))), Tail(q["dw"])) = End(e, q["dw"])
    <3>1. q["dw"] # << >>
      BY <1>5
    <3>2. Linked(End(a, q["hr"]), q["dw"])
      BY <1>2, <1>3
    <3> QED BY <1>1, <1>2, <1>3, <3>1, <3>2, LinkedMove
  <2> QED BY <1>3, <2>1, <2>2 DEF Order
<1> QED BY <1>4, <1>5

----------------------------------------------------------------------------
(* The invariant.                                                          *)

SmTyped ==
  /\ smRunning \in BOOLEAN /\ smPanic \in BOOLEAN /\ smSrv \in SmQueues \cup {SmNone}
  /\ smPc \in [SmProcs -> {"user", "go", "asleep", "put", "thawed", "move"}]
  /\ smLen \in [SmProcs -> Nat]
  /\ smHeld \in [SmProcs -> SmMsgs \cup {SmNone}]
  /\ smSent \in Int /\ smGot \in Int

Busy == {"put", "thawed", "move"}

\* One process at a time is between two moments of base level, and a message
\* is held there.
SmHolding ==
  /\ \A p \in SmProcs : smHeld[p] # SmNone => smPc[p] \in {"thawed", "move"}
  /\ \A p \in SmProcs : smPc[p] = "move" => smHeld[p] # SmNone
  /\ \A p, o \in SmProcs : smPc[p] \in Busy /\ smPc[o] \in Busy => p = o

\* A reader who is asleep, or has found nothing and may go to sleep.
Waits(p) == smPc[p] = "asleep" \/ (smPc[p] = "thawed" /\ smHeld[p] = SmNone)

\* The service procedure of the head's read queue runs, or will.
SmComing == "QENAB" \in sm.flag["hr"] \/ smSrv = "hr"

SmTold ==
  /\ \A p \in SmReaders : smPc[p] = "asleep" => "read" \in sh_lock_mask
  /\ \A p \in SmReaders : Waits(p) /\ sm.q["hr"] # << >> => SmComing

\* The order of the bytes, with the message that a reader holds before the
\* others.
SmOrdered ==
  /\ (\A p \in SmProcs : smHeld[p] = SmNone) => Order(sm.q, smGot, smSent)
  /\ \A p \in SmProcs : smHeld[p] # SmNone =>
       smHeld[p][1] = smGot + 1 /\ Order(sm.q, smHeld[p][2], smSent)

SmInv ==
  SmTyped /\ Sound(sm, smRunning) /\ SmHolding /\ (~smPanic => SmTold) /\ SmOrdered

LEMMA SmStateIs ==
  ASSUME NEW s \in SmStates
  PROVE  /\ s.q \in [SmQueues -> Seq(SmMsgs)] /\ s.sched \in Seq(SmQueues)
         /\ s.flag \in [SmQueues -> SUBSET SmFlags]
BY DEF SmStates

LEMMA SmInitInv == SmInit => SmInv
<1> SUFFICES ASSUME SmInit PROVE SmInv
  OBVIOUS
<1> USE DEF SmInit
<1>1. SmTyped
  <2>1. smPc \in [SmProcs -> {"user", "go", "asleep", "put", "thawed", "move"}]
    OBVIOUS
  <2>2. smLen \in [SmProcs -> Nat] /\ smHeld \in [SmProcs -> SmMsgs \cup {SmNone}]
    OBVIOUS
  <2>3. smRunning \in BOOLEAN /\ smPanic \in BOOLEAN /\ smSrv \in SmQueues \cup {SmNone}
    OBVIOUS
  <2> QED BY <2>1, <2>2, <2>3 DEF SmTyped
<1>2. /\ sm \in SmStates /\ \A x \in SmQueues : sm.q[x] = << >> /\ sm.flag[x] = {"QWANTR"}
      /\ sm.sched = << >>
  <2>1. << >> \in Seq(SmMsgs) /\ << >> \in Seq(SmQueues) /\ {"QWANTR"} \in SUBSET SmFlags
    BY DEF SmFlags
  <2> QED BY <2>1 DEF SmStates
<1>3. Sound(sm, smRunning)
  BY <1>2 DEF Sound, Scheduled, Flows
<1>4. SmHolding
  BY DEF SmHolding, Busy
<1>5. SmTold
  BY <1>2, HrIs DEF SmTold, Waits, SmProcs
<1>6. SmOrdered
  <2>1. sm.q["hr"] = << >> /\ sm.q["dw"] = << >> /\ sm.q["hw"] = << >>
    BY <1>2, HrIs
  <2>2. Order(sm.q, smGot, smSent)
    BY <2>1 DEF Order, Linked, End
  <2> QED BY <2>2 DEF SmOrdered
<1> QED BY <1>1, <1>3, <1>4, <1>5, <1>6 DEF SmInv

\* Forward: one message moves, or everything stays.
Moved(s, t, x) ==
  \A y \in SmQueues :
    t.q[y] = IF y = x THEN Tail(s.q[x])
             ELSE IF y = Below(x) THEN Append(s.q[y], Head(s.q[x]))
             ELSE s.q[y]

LEMMA MovedIs ==
  ASSUME NEW s, NEW r, Sound(s, r), NEW x \in {"hw", "dw"}, s.q[x] # << >>
  PROVE  LET t == putq(getq(s, x), Below(x), Head(s.q[x])) IN
         /\ Sound(t, r) /\ Keeps(s, t) /\ "QENAB" \in t.flag[Below(x)] /\ Moved(s, t, x)
         /\ NoNewNotes(s, t)
         /\ canput(getq(s, x), Below(x)) => "QWANTW" \notin t.flag[Below(x)]
<1>1. x \in SmQueues /\ Below(x) \in SmQueues /\ Below(x) # x
  BY DEF SmQueues, Below
<1>2. s \in SmStates
  BY DEF Sound
<1>3. s.q \in [SmQueues -> Seq(SmMsgs)]
  BY <1>2, SmStateIs
<1>4. PICK y \in SmQueues : y = Below(x)
  BY <1>1
<1>5. PICK m \in SmMsgs : m = Head(s.q[x])
  <2>1. s.q[x] \in Seq(SmMsgs)
    BY <1>1, <1>3
  <2> QED BY <2>1, HeadTail
<1> DEFINE g == getq(s, x)
           t == putq(g, y, m)
<1>6. /\ Sound(g, r) /\ Keeps(s, g) /\ NoNewNotes(s, g)
      /\ g.q = [s.q EXCEPT ![x] = Tail(s.q[x])]
  BY <1>1, GetqIs
<1> HIDE DEF g
<1>7. Sound(t, r) /\ Keeps(g, t) /\ NoNewNotes(g, t) /\ "QENAB" \in t.flag[y]
      /\ t.q = [g.q EXCEPT ![y] = Append(g.q[y], m)]
  <2>1. Sound(g, r)
    BY <1>6
  <2> QED BY <2>1, PutqIs
<1>8. putq(getq(s, x), Below(x), Head(s.q[x])) = t
  BY <1>4, <1>5 DEF g
<1> HIDE DEF t
<1>9. Keeps(s, t)
  BY <1>6, <1>7 DEF Keeps
<1>10. g.q[y] = s.q[y]
  BY <1>1, <1>3, <1>4, <1>6
<1>11. \A z \in SmQueues : t.q[z] = IF z = y THEN Append(s.q[y], m) ELSE g.q[z]
  BY <1>1, <1>3, <1>4, <1>6, <1>7, <1>10
<1>12. \A z \in SmQueues : g.q[z] = IF z = x THEN Tail(s.q[x]) ELSE s.q[z]
  BY <1>1, <1>3, <1>6
<1>13. Moved(s, t, x)
  BY <1>1, <1>4, <1>5, <1>11, <1>12 DEF Moved
<1>14. NoNewNotes(s, t)
  BY <1>6, <1>7, NotesOn
<1>15. canput(g, y) => "QWANTW" \notin t.flag[y]
  <2>1. "QWANTW" \in g.flag[y] => "QFULL" \in g.flag[y]
    BY <1>6 DEF Sound, Flows
  <2> QED BY <1>7, <2>1 DEF NoNewNotes, canput
<1>16. getq(s, x) = g
  BY DEF g
<1> QED BY <1>4, <1>7, <1>8, <1>9, <1>13, <1>14, <1>15, <1>16

LEMMA StuckIs ==
  ASSUME NEW s, NEW r, Sound(s, r), NEW x \in {"hw", "dw"}, s.q[x] # << >>,
         ~canput(getq(s, x), Below(x))
  PROVE  LET t == putbq(Refused(getq(s, x), Below(x)), x, Head(s.q[x])) IN
         /\ Sound(t, r) /\ Keeps(s, t) /\ t.q = s.q
         /\ Marked(s, t, Below(x)) /\ "QENAB" \in t.flag[x]
<1>1. x \in SmQueues /\ Below(x) \in SmQueues
  BY DEF SmQueues, Below
<1>3. s.q \in [SmQueues -> Seq(SmMsgs)]
  BY SmStateIs DEF Sound
<1>4. PICK m \in SmMsgs : m = Head(s.q[x])
  <2>1. s.q[x] \in Seq(SmMsgs)
    BY <1>1, <1>3
  <2> QED BY <2>1, HeadTail
<1> DEFINE g == getq(s, x)
           e == Refused(g, Below(x))
           t == putbq(e, x, m)
<1>5. /\ Sound(g, r) /\ Keeps(s, g) /\ NoNewNotes(s, g)
      /\ g.q = [s.q EXCEPT ![x] = Tail(s.q[x])]
  BY <1>1, GetqIs
<1>6. ~canput(g, Below(x))
  OBVIOUS
<1> HIDE DEF g
<1>7. Sound(e, r) /\ Keeps(g, e) /\ Marked(g, e, Below(x)) /\ e.q = g.q
  BY <1>1, <1>5, <1>6, RefusedIs
<1>8. putbq(Refused(getq(s, x), Below(x)), x, Head(s.q[x])) = t
  BY <1>4 DEF g
<1> HIDE DEF e
<1>9. /\ Sound(t, r) /\ Keeps(e, t) /\ NoNewNotes(e, t) /\ "QENAB" \in t.flag[x]
      /\ t.q = [e.q EXCEPT ![x] = <<m>> \o e.q[x]]
  BY <1>1, <1>7, PutbqIs
<1> HIDE DEF t
<1>10. Keeps(s, t)
  BY <1>5, <1>7, <1>9 DEF Keeps
<1>11. s.q[x] = <<m>> \o Tail(s.q[x])
  <2>1. s.q[x] \in Seq(SmMsgs)
    BY <1>1, <1>3
  <2> QED BY <1>4, <2>1, HeadTail
<1>12. PICK l : l = Tail(s.q[x])
  OBVIOUS
<1>13. PICK k : k = <<m>> \o l
  OBVIOUS
<1>14. e.q = [s.q EXCEPT ![x] = l] /\ s.q[x] = k
  BY <1>5, <1>7, <1>11, <1>12, <1>13
<1>15. e.q[x] = l
  BY <1>1, <1>3, <1>14
<1>16. t.q = [e.q EXCEPT ![x] = k]
  BY <1>9, <1>13, <1>15
<1>17. t.q = s.q
  BY <1>1, <1>3, <1>14, <1>16
<1>18. Marked(s, t, Below(x))
  BY <1>5, <1>7, <1>9, HrIs DEF NoNewNotes, Marked, StillRefused
<1> QED BY <1>8, <1>9, <1>10, <1>17, <1>18

\* The first of the schedule is taken off it.
LEMMA FirstIs ==
  ASSUME NEW s, NEW r, Sound(s, r), s.sched # << >>
  PROVE  LET x == Head(s.sched)
             t == [Unflagged(s, x, "QENAB") EXCEPT !.sched = Tail(s.sched)]
         IN  /\ Sound(t, r) /\ NoNewNotes(s, t) /\ t.q = s.q /\ x \in SmQueues
             /\ \A y \in SmQueues : y # x /\ "QENAB" \in s.flag[y] => "QENAB" \in t.flag[y]
<1> USE DEF IsUnflagged
<1> DEFINE n == Len(s.sched)
           l == Tail(s.sched)
<1>1. s \in SmStates /\ s.sched \in Seq(SmQueues) /\ Scheduled(s, r) /\ Flows(s)
  BY SmStateIs DEF Sound
<1>2. PICK x \in SmQueues : x = Head(s.sched)
  BY <1>1
<1>3. /\ l \in Seq(SmQueues) /\ Len(l) = n - 1 /\ n \in Nat \ {0} /\ s.sched[1] = x
      /\ DOMAIN s.sched = 1 .. n /\ DOMAIN l = 1 .. n - 1
      /\ \A i \in 1 .. n - 1 : l[i] = s.sched[i + 1]
  BY <1>1, <1>2
<1> DEFINE u == Unflagged(s, x, "QENAB")
           t == [u EXCEPT !.sched = l]
<1> HIDE DEF n, l
<1>4. IsUnflagged(s, u, x, "QENAB")
  <2> HIDE DEF IsUnflagged
  <2> QED BY <1>1, UnflaggedIs DEF SmFlags
<1> HIDE DEF u
<1>5. t \in SmStates /\ t.q = u.q /\ t.flag = u.flag /\ t.run = u.run /\ t.sched = l
  BY <1>3, <1>4 DEF SmStates
<1> HIDE DEF t
<1>6. \A y \in SmQueues : \A g : g \in t.flag[y] <=> g \in s.flag[y] /\ ~(g = "QENAB" /\ y = x)
  BY <1>4, <1>5
<1>7. Flows(t)
  <2>1. \A y \in SmQueues : t.q[y] = s.q[y]
    BY <1>4, <1>5
  <2> QED BY <1>1, <1>6, <2>1 DEF Flows
<1>8. Scheduled(t, r)
  <2>1. \A i, j \in 1 .. n : s.sched[i] = s.sched[j] => i = j
    BY <1>1, <1>3 DEF Scheduled
  <2>2. \A i, j \in 1 .. n - 1 : l[i] = l[j] => i = j
    <3> TAKE i, j \in 1 .. n - 1
    <3>1. i + 1 \in 1 .. n /\ j + 1 \in 1 .. n /\ (i + 1 = j + 1 => i = j)
      BY <1>3
    <3>2. l[i] = s.sched[i + 1] /\ l[j] = s.sched[j + 1]
      BY <1>3
    <3> QED BY <2>1, <3>1, <3>2
  <2>3. \A y \in SmQueues : "QENAB" \in t.flag[y] <=> \E i \in 1 .. n - 1 : l[i] = y
    <3> TAKE y \in SmQueues
    <3>1. "QENAB" \in s.flag[y] <=> \E i \in 1 .. n : s.sched[i] = y
      BY <1>1, <1>3 DEF Scheduled
    <3>2. "QENAB" \in t.flag[y] <=> "QENAB" \in s.flag[y] /\ y # x
      BY <1>6
    <3>3. ASSUME NEW i \in 1 .. n - 1 PROVE l[i] # x /\ \E j \in 1 .. n : s.sched[j] = l[i]
      <4>1. i + 1 \in 1 .. n /\ i + 1 # 1 /\ 1 \in 1 .. n
        BY <1>3
      <4> QED BY <1>3, <2>1, <4>1
    <3>4. ASSUME NEW i \in 1 .. n, s.sched[i] = y, y # x PROVE \E j \in 1 .. n - 1 : l[j] = y
      <4>1. i - 1 \in 1 .. n - 1 /\ (i - 1) + 1 = i
        BY <1>3, <3>4
      <4> QED BY <1>3, <3>4, <4>1
    <3> QED BY <3>1, <3>2, <3>3, <3>4
  <2>4. t.sched # << >> => t.run \/ r
    <3>1. s.run \/ r
      BY <1>1 DEF Scheduled
    <3> QED BY <1>4, <1>5, <3>1
  <2> QED BY <1>3, <1>5, <2>2, <2>3, <2>4 DEF Scheduled
<1>9. [Unflagged(s, Head(s.sched), "QENAB") EXCEPT !.sched = Tail(s.sched)] = t
  BY <1>2 DEF t, u, l
<1>10. NoNewNotes(s, t)
  BY <1>6, HrIs DEF NoNewNotes, StillRefused
<1> QED BY <1>2, <1>4, <1>5, <1>6, <1>7, <1>8, <1>9, <1>10 DEF Sound

----------------------------------------------------------------------------
(* Steps of RUN_STREAMS: no process takes or puts a message.               *)

\* Nobody's step: a sleeper may have been woken.
Quiet ==
  \A p \in SmProcs : \/ smPc'[p] = smPc[p]
                     \/ smPc[p] = "asleep" /\ smPc'[p] \in {"go", "user"}

LEMMA QuietHolding == SmInv /\ Quiet /\ smHeld' = smHeld => SmHolding'
<1> SUFFICES ASSUME SmInv, Quiet, smHeld' = smHeld PROVE SmHolding'
  OBVIOUS
<1>1. SmHolding
  BY DEF SmInv
<1>2. \A p \in SmProcs : smPc'[p] \in Busy => smPc'[p] = smPc[p]
  BY DEF Quiet, Busy
<1>3. \A p \in SmProcs : smPc[p] \in Busy => smPc'[p] = smPc[p]
  BY DEF Quiet, Busy
<1>4. \A p \in SmProcs : smHeld'[p] # SmNone => smPc'[p] \in {"thawed", "move"}
  BY <1>1, <1>3 DEF SmHolding, Busy
<1>5. \A p \in SmProcs : smPc'[p] = "move" => smHeld'[p] # SmNone
  BY <1>1, <1>2 DEF SmHolding, Busy
<1>6. \A p, o \in SmProcs : smPc'[p] \in Busy /\ smPc'[o] \in Busy => p = o
  BY <1>1, <1>2 DEF SmHolding
<1> QED BY <1>4, <1>5, <1>6 DEF SmHolding

\* What is told stays told.
StaysTold ==
  /\ "read" \in sh_lock_mask => "read" \in sh_lock_mask'
  /\ SmComing => SmComing'
  /\ sm'.q["hr"] # << >> => sm.q["hr"] # << >> \/ SmComing'

LEMMA QuietTold ==
  SmInv /\ ~smPanic /\ Quiet /\ smHeld' = smHeld /\ StaysTold => SmTold'
<1> SUFFICES ASSUME SmInv, ~smPanic, Quiet, smHeld' = smHeld, StaysTold PROVE SmTold'
  OBVIOUS
<1>1. SmTold
  BY DEF SmInv
<1>2. ASSUME NEW p \in SmReaders
      PROVE  /\ smPc'[p] = "asleep" => smPc[p] = "asleep"
             /\ Waits(p)' => Waits(p)
  BY DEF Quiet, Waits, SmProcs
<1>3. \A p \in SmReaders : smPc'[p] = "asleep" => "read" \in sh_lock_mask'
  BY <1>1, <1>2 DEF SmTold, StaysTold
<1>4. ASSUME NEW p \in SmReaders, Waits(p)', sm'.q["hr"] # << >> PROVE SmComing'
  BY <1>1, <1>2, <1>4 DEF SmTold, StaysTold
<1> QED BY <1>3, <1>4 DEF SmTold

LEMMA SameOrder ==
  SmInv /\ smHeld' = smHeld /\ smGot' = smGot /\ smSent' = smSent /\ sm'.q = sm.q => SmOrdered'
BY DEF SmInv, SmOrdered

LEMMA StreamsStarted == SmInv /\ RUN_STREAMS => SmInv'
<1> SUFFICES ASSUME SmInv, RUN_STREAMS PROVE SmInv'
  OBVIOUS
<1> USE DEF RUN_STREAMS
<1>1. Quiet
  BY DEF Quiet
<1>2. sm \in SmStates /\ Scheduled(sm, smRunning) /\ Flows(sm)
  BY DEF SmInv, Sound
<1>3. sm' \in SmStates /\ sm'.q = sm.q /\ sm'.flag = sm.flag /\ sm'.sched = sm.sched
  BY <1>2 DEF SmStates
<1>4. Sound(sm', smRunning')
  BY <1>2, <1>3 DEF Sound, Scheduled, Flows
<1>5. SmTyped'
  BY DEF SmInv, SmTyped
<1>6. StaysTold
  BY <1>3 DEF StaysTold, SmComing
<1>7. SmHolding' /\ SmTold'
  BY <1>1, <1>6, QuietHolding, QuietTold
<1>8. SmOrdered'
  BY <1>3, SameOrder
<1> QED BY <1>4, <1>5, <1>7, <1>8 DEF SmInv

LEMMA StreamsEnded == SmInv /\ RunStreamsEnd => SmInv'
<1> SUFFICES ASSUME SmInv, RunStreamsEnd PROVE SmInv'
  OBVIOUS
<1> USE DEF RunStreamsEnd
<1>1. Quiet
  BY DEF Quiet
<1>2. Sound(sm', smRunning')
  BY DEF SmInv, Sound, Scheduled
<1>3. SmTyped'
  BY DEF SmInv, SmTyped
<1>4. StaysTold
  BY DEF StaysTold, SmComing
<1>5. ~smPanic
  BY DEF Serving
<1>6. SmHolding' /\ SmTold'
  BY <1>1, <1>4, <1>5, QuietHolding, QuietTold
<1>7. SmOrdered'
  BY SameOrder
<1> QED BY <1>2, <1>3, <1>6, <1>7 DEF SmInv

LEMMA FirstStarted == SmInv /\ QSCHED_GETFIRST => SmInv'
<1> SUFFICES ASSUME SmInv, QSCHED_GETFIRST PROVE SmInv'
  OBVIOUS
<1> USE DEF QSCHED_GETFIRST
<1>1. Quiet
  BY DEF Quiet
<1>2. ~smPanic /\ smSrv = SmNone /\ sm.sched # << >>
  BY DEF Serving
<1>3. sm' = [Unflagged(sm, Head(sm.sched), "QENAB") EXCEPT !.sched = Tail(sm.sched)]
  <2>1. sm \in SmStates
    BY DEF SmInv, Sound
  <2>2. Unflagged(sm, Head(sm.sched), "QENAB").sched = sm.sched
    BY <2>1 DEF Unflagged, SmStates
  <2> QED BY <2>2
<1>4. /\ Sound(sm', smRunning) /\ sm'.q = sm.q /\ smSrv' \in SmQueues
      /\ \A y \in SmQueues : y # smSrv' /\ "QENAB" \in sm.flag[y] => "QENAB" \in sm'.flag[y]
  <2>1. Sound(sm, smRunning)
    BY DEF SmInv
  <2> QED BY <1>2, <1>3, <2>1, FirstIs
<1>5. SmTyped'
  BY <1>4 DEF SmInv, SmTyped
<1>6. StaysTold
  <2>1. "hr" # SmNone
    BY SmAssumption, HrIs
  <2> QED BY <1>2, <1>4, <2>1, HrIs DEF StaysTold, SmComing
<1>7. SmHolding' /\ SmTold'
  BY <1>1, <1>2, <1>6, QuietHolding, QuietTold
<1>8. SmOrdered'
  BY <1>4, SameOrder
<1> QED BY <1>4, <1>5, <1>7, <1>8 DEF SmInv

LEMMA Forwarded == ASSUME NEW x \in {"hw", "dw"} PROVE SmInv /\ Forward(x) => SmInv'
<1> SUFFICES ASSUME SmInv, Forward(x) PROVE SmInv'
  OBVIOUS
<1>1. /\ ~smPanic /\ smSrv = x /\ sm.q[x] # << >> /\ x # "hr" /\ x \in SmQueues
      /\ smRunning' = smRunning /\ sh_lock_mask' = sh_lock_mask /\ smPc' = smPc /\ smLen' = smLen
      /\ smHeld' = smHeld /\ smPanic' = smPanic /\ smSent' = smSent /\ smGot' = smGot
  BY DEF Forward, Serving, SmQueues
<1>2. Sound(sm, smRunning)
  BY DEF SmInv
<1>3. /\ Sound(sm', smRunning) /\ Keeps(sm, sm') /\ smSrv' \in {x, SmNone}
      /\ sm'.q = sm.q \/ (Moved(sm, sm', x) /\ "QENAB" \in sm'.flag[Below(x)])
  <2>1. CASE canput(getq(sm, x), Below(x))
    <3>1. sm' = putq(getq(sm, x), Below(x), Head(sm.q[x])) /\ smSrv' = x
      BY <1>1, <2>1 DEF Forward
    <3> QED BY <1>1, <1>2, <3>1, MovedIs
  <2>2. CASE ~canput(getq(sm, x), Below(x))
    <3>1. sm' = putbq(Refused(getq(sm, x), Below(x)), x, Head(sm.q[x])) /\ smSrv' = SmNone
      BY <2>2 DEF Forward
    <3> QED BY <1>1, <1>2, <2>2, <3>1, StuckIs
  <2> QED BY <2>1, <2>2
<1>4. Quiet
  BY <1>1 DEF Quiet
<1>5. SmTyped'
  BY <1>1, <1>3 DEF SmInv, SmTyped
<1>6. StaysTold
  <2>1. SmComing => SmComing'
    BY <1>1, <1>3, HrIs DEF SmComing, Keeps
  <2>2. CASE sm'.q = sm.q
    BY <1>1, <2>1, <2>2 DEF StaysTold
  <2>3. CASE Moved(sm, sm', x) /\ "QENAB" \in sm'.flag[Below(x)]
    <3>1. CASE Below(x) = "hr"
      BY <1>1, <2>1, <2>3, <3>1 DEF StaysTold, SmComing
    <3>2. CASE Below(x) # "hr"
      <4>1. sm'.q["hr"] = sm.q["hr"]
        BY <1>1, <2>3, <3>2, HrIs DEF Moved
      <4> QED BY <1>1, <2>1, <4>1 DEF StaysTold
    <3> QED BY <3>1, <3>2
  <2> QED BY <1>3, <2>2, <2>3
<1>7. SmHolding' /\ SmTold'
  BY <1>1, <1>4, <1>6, QuietHolding, QuietTold
<1>8. SmOrdered'
  <2>1. CASE sm'.q = sm.q
    BY <1>1, <2>1, SameOrder
  <2>2. CASE Moved(sm, sm', x)
    <3>1. sm.q \in [SmQueues -> Seq(SmMsgs)]
      BY <1>2, SmStateIs DEF Sound
    <3>2. \A a \in Int : Order(sm.q, a, smSent) => Order(sm'.q, a, smSent)
      BY <1>1, <2>2, <3>1, OrderMove DEF Moved
    <3>3. smGot \in Int /\ \A p \in SmProcs : smHeld[p] # SmNone => smHeld[p][2] \in Int
      BY MsgIs DEF SmInv, SmTyped
    <3>4. SmOrdered
      BY DEF SmInv
    <3> QED BY <1>1, <3>2, <3>3, <3>4 DEF SmOrdered
  <2> QED BY <1>3, <2>1, <2>2
<1> QED BY <1>1, <1>3, <1>5, <1>7, <1>8 DEF SmInv

\* SHEAD_WAKE panics, or wakes all that sleep if they are known to.
LEMMA WakeIs ==
  ASSUME NEW c \in {"read", "write"}
  PROVE  SmInv /\ ~smPanic /\ SHEAD_WAKE(c) =>
           /\ Quiet /\ smPanic' \in BOOLEAN
           /\ smPc' \in [SmProcs -> {"user", "go", "asleep", "put", "thawed", "move"}]
           /\ c # "read" /\ "read" \in sh_lock_mask => "read" \in sh_lock_mask'
           /\ ~smPanic' /\ c \in sh_lock_mask => \A p \in SmProcs : smPc'[p] # "asleep"
           /\ ~smPanic' /\ c \notin sh_lock_mask => smPc' = smPc
           /\ ~smPanic' => \A p \in SmProcs : smPc[p] # "thawed"
<1> SUFFICES ASSUME SmInv, ~smPanic, SHEAD_WAKE(c)
             PROVE  /\ Quiet /\ smPanic' \in BOOLEAN
                    /\ smPc' \in [SmProcs -> {"user", "go", "asleep", "put", "thawed", "move"}]
                    /\ c # "read" /\ "read" \in sh_lock_mask => "read" \in sh_lock_mask'
                    /\ ~smPanic' /\ c \in sh_lock_mask => \A p \in SmProcs : smPc'[p] # "asleep"
                    /\ ~smPanic' /\ c \notin sh_lock_mask => smPc' = smPc
                    /\ ~smPanic' => \A p \in SmProcs : smPc[p] # "thawed"
  OBVIOUS
<1>1. smPc \in [SmProcs -> {"user", "go", "asleep", "put", "thawed", "move"}]
  BY DEF SmInv, SmTyped
<1>2. smPanic' = HeadLocked /\ HeadLocked \in BOOLEAN
  BY DEF SHEAD_WAKE, HeadLocked
<1>3. ~smPanic' => \A p \in SmProcs : smPc[p] # "thawed"
  BY <1>2 DEF HeadLocked
<1>4. CASE c \in sh_lock_mask /\ ~HeadLocked
  <2>1. /\ sh_lock_mask' = sh_lock_mask \ {c}
        /\ smPc' = [p \in SmProcs |-> IF smPc[p] = "asleep" THEN "go" ELSE smPc[p]]
    BY <1>4 DEF SHEAD_WAKE
  <2>2. Quiet
    BY <2>1 DEF Quiet
  <2>3. smPc' \in [SmProcs -> {"user", "go", "asleep", "put", "thawed", "move"}]
    BY <1>1, <2>1
  <2> QED BY <1>2, <1>3, <1>4, <2>1, <2>2, <2>3
<1>5. CASE ~(c \in sh_lock_mask /\ ~HeadLocked)
  <2>1. sh_lock_mask' = sh_lock_mask /\ smPc' = smPc
    BY <1>5 DEF SHEAD_WAKE
  <2>2. Quiet
    BY <2>1 DEF Quiet
  <2> QED BY <1>1, <1>2, <1>3, <1>5, <2>1, <2>2
<1> QED BY <1>4, <1>5

LEMMA ReadServed == SmInv /\ headrsrv => SmInv'
<1> SUFFICES ASSUME SmInv, headrsrv PROVE SmInv'
  OBVIOUS
<1>1. /\ ~smPanic /\ smSrv' = SmNone /\ sm' = sm /\ smRunning' = smRunning /\ smLen' = smLen
      /\ smHeld' = smHeld /\ smSent' = smSent /\ smGot' = smGot
  BY DEF headrsrv, Serving
<1>2. CASE sm.q["hr"] # << >>
  <2>1. SHEAD_WAKE("read")
    BY <1>2 DEF headrsrv
  <2>2. /\ Quiet /\ smPanic' \in BOOLEAN
        /\ smPc' \in [SmProcs -> {"user", "go", "asleep", "put", "thawed", "move"}]
        /\ ~smPanic' /\ "read" \in sh_lock_mask => \A p \in SmProcs : smPc'[p] # "asleep"
        /\ ~smPanic' /\ "read" \notin sh_lock_mask => smPc' = smPc
        /\ ~smPanic' => \A p \in SmProcs : smPc[p] # "thawed"
    BY <1>1, <2>1, WakeIs
  <2>3. SmTyped'
    BY <1>1, <2>2 DEF SmInv, SmTyped
  <2>4. SmHolding'
    BY <1>1, <2>2, QuietHolding
  <2>5. ASSUME ~smPanic' PROVE SmTold'
    <3>1. \A p \in SmReaders : smPc[p] = "asleep" => "read" \in sh_lock_mask
      BY <1>1 DEF SmInv, SmTold
    <3>2. \A p \in SmReaders : smPc'[p] # "asleep"
      BY <2>2, <2>5, <3>1 DEF SmProcs
    <3>3. \A p \in SmReaders : smPc'[p] # "thawed"
      BY <2>2, <2>5 DEF Quiet, SmProcs
    <3> QED BY <3>2, <3>3 DEF SmTold, Waits
  <2>6. SmOrdered'
    BY <1>1, SameOrder
  <2> QED BY <1>1, <2>3, <2>4, <2>5, <2>6 DEF SmInv
<1>3. CASE sm.q["hr"] = << >>
  <2>1. sh_lock_mask' = sh_lock_mask /\ smPc' = smPc /\ smPanic' = smPanic
    BY <1>3 DEF headrsrv
  <2>2. Quiet
    BY <2>1 DEF Quiet
  <2>3. SmTyped'
    BY <1>1, <2>1 DEF SmInv, SmTyped
  <2>4. SmHolding'
    BY <1>1, <2>2, QuietHolding
  <2>5. SmTold'
    BY <1>1, <1>3, <2>1 DEF SmInv, SmTold
  <2>6. SmOrdered'
    BY <1>1, SameOrder
  <2> QED BY <1>1, <2>3, <2>4, <2>5, <2>6 DEF SmInv
<1> QED BY <1>2, <1>3

LEMMA WriteServed == SmInv /\ headwsrvDone => SmInv'
<1> SUFFICES ASSUME SmInv, headwsrvDone PROVE SmInv'
  OBVIOUS
<1>1. /\ ~smPanic /\ smSrv = "hw" /\ smSrv' = SmNone /\ sm' = getq(sm, "hw") /\ sm.q["hw"] = << >>
      /\ smRunning' = smRunning /\ smLen' = smLen /\ SHEAD_WAKE("write")
      /\ smHeld' = smHeld /\ smSent' = smSent /\ smGot' = smGot
  BY DEF headwsrvDone, Serving
<1>2. Sound(sm', smRunning) /\ Keeps(sm, sm') /\ sm'.q = sm.q
  <2>1. Sound(sm, smRunning)
    BY DEF SmInv
  <2> QED BY <1>1, <2>1, HrIs, GetqIs
<1>3. /\ Quiet /\ smPanic' \in BOOLEAN
      /\ smPc' \in [SmProcs -> {"user", "go", "asleep", "put", "thawed", "move"}]
      /\ "read" \in sh_lock_mask => "read" \in sh_lock_mask'
  BY <1>1, WakeIs
<1>4. SmTyped'
  BY <1>1, <1>3 DEF SmInv, SmTyped
<1>5. StaysTold
  BY <1>1, <1>2, <1>3, HrIs DEF StaysTold, SmComing, Keeps
<1>6. SmHolding' /\ SmTold'
  BY <1>1, <1>3, <1>5, QuietHolding, QuietTold
<1>7. SmOrdered'
  BY <1>1, <1>2, SameOrder
<1> QED BY <1>1, <1>2, <1>4, <1>6, <1>7 DEF SmInv

LEMMA EchoServed == SmInv /\ echowsrvDone => SmInv'
<1> SUFFICES ASSUME SmInv, echowsrvDone PROVE SmInv'
  OBVIOUS
<1>1. /\ ~smPanic /\ smSrv = "dw" /\ smSrv' = SmNone /\ sm' = getq(sm, "dw") /\ sm.q["dw"] = << >>
      /\ smRunning' = smRunning /\ smLen' = smLen /\ sh_lock_mask' = sh_lock_mask
      /\ smPc' = smPc /\ smPanic' = smPanic
      /\ smHeld' = smHeld /\ smSent' = smSent /\ smGot' = smGot
  BY DEF echowsrvDone, Serving
<1>2. Sound(sm', smRunning) /\ Keeps(sm, sm') /\ sm'.q = sm.q
  <2>1. Sound(sm, smRunning)
    BY DEF SmInv
  <2> QED BY <1>1, <2>1, HrIs, GetqIs
<1>3. Quiet
  BY <1>1 DEF Quiet
<1>4. SmTyped'
  BY <1>1 DEF SmInv, SmTyped
<1>5. StaysTold
  BY <1>1, <1>2, HrIs DEF StaysTold, SmComing, Keeps
<1>6. SmHolding' /\ SmTold'
  BY <1>1, <1>3, <1>5, QuietHolding, QuietTold
<1>7. SmOrdered'
  BY <1>1, <1>2, SameOrder
<1> QED BY <1>1, <1>2, <1>4, <1>6, <1>7 DEF SmInv

LEMMA Signalled == ASSUME NEW p \in SmProcs PROVE SmInv /\ SmSignal(p) => SmInv'
<1> SUFFICES ASSUME SmInv, SmSignal(p) PROVE SmInv'
  OBVIOUS
<1> USE DEF SmSignal
<1>1. smPc \in [SmProcs -> {"user", "go", "asleep", "put", "thawed", "move"}]
  BY DEF SmInv, SmTyped
<1>2. smPc' \in [SmProcs -> {"user", "go", "asleep", "put", "thawed", "move"}] /\ Quiet
  BY <1>1 DEF Quiet
<1>3. SmTyped'
  BY <1>2 DEF SmInv, SmTyped
<1>4. StaysTold
  BY DEF StaysTold, SmComing
<1>5. SmHolding' /\ SmTold'
  BY <1>2, <1>4, QuietHolding, QuietTold
<1>6. SmOrdered'
  BY SameOrder
<1> QED BY <1>3, <1>5, <1>6 DEF SmInv

----------------------------------------------------------------------------
(* Steps of processes.                                                     *)

\* The step of p at base level, after which p is at c and holds h.
Stepped(p, c, h) ==
  /\ SmRuns(p) /\ smPc' = [smPc EXCEPT ![p] = c] /\ smHeld' = [smHeld EXCEPT ![p] = h]
  /\ c \in {"user", "go", "asleep", "put", "thawed", "move"} /\ h \in SmMsgs \cup {SmNone}
  /\ (h # SmNone => c \in {"thawed", "move"}) /\ (c = "move" => h # SmNone)

\* The others hold nothing.
LEMMA Alone ==
  ASSUME NEW p \in SmProcs
  PROVE  SmInv /\ SmRuns(p) =>
           /\ \A o \in SmProcs : o # p => smPc[o] \notin Busy /\ smHeld[o] = SmNone
           /\ smHeld[p] = SmNone => Order(sm.q, smGot, smSent)
           /\ smHeld[p] # SmNone =>
                /\ smPc[p] \in {"thawed", "move"} /\ smHeld[p] \in SmMsgs
                /\ smHeld[p][1] = smGot + 1 /\ Order(sm.q, smHeld[p][2], smSent)
<1> SUFFICES ASSUME SmInv, SmRuns(p)
             PROVE  /\ \A o \in SmProcs : o # p => smPc[o] \notin Busy /\ smHeld[o] = SmNone
                    /\ smHeld[p] = SmNone => Order(sm.q, smGot, smSent)
                    /\ smHeld[p] # SmNone =>
                         /\ smPc[p] \in {"thawed", "move"} /\ smHeld[p] \in SmMsgs
                         /\ smHeld[p][1] = smGot + 1 /\ Order(sm.q, smHeld[p][2], smSent)
  OBVIOUS
<1>1. \A o \in SmProcs : o # p => smPc[o] \notin Busy
  BY DEF SmRuns, Busy
<1>2. \A o \in SmProcs : smHeld[o] # SmNone => smPc[o] \in {"thawed", "move"}
  BY DEF SmInv, SmHolding
<1>3. \A o \in SmProcs : o # p => smHeld[o] = SmNone
  BY <1>1, <1>2 DEF Busy
<1>4. SmOrdered
  BY DEF SmInv
<1>5. smHeld[p] \in SmMsgs \cup {SmNone}
  BY DEF SmInv, SmTyped
<1> QED BY <1>1, <1>2, <1>3, <1>4, <1>5 DEF SmOrdered

LEMMA SteppedHolding ==
  ASSUME NEW p \in SmProcs, NEW c, NEW h
  PROVE  SmInv /\ Stepped(p, c, h) =>
           /\ SmHolding'
           /\ smPc' \in [SmProcs -> {"user", "go", "asleep", "put", "thawed", "move"}]
           /\ smHeld' \in [SmProcs -> SmMsgs \cup {SmNone}]
<1> SUFFICES ASSUME SmInv, Stepped(p, c, h)
             PROVE  /\ SmHolding'
                    /\ smPc' \in [SmProcs -> {"user", "go", "asleep", "put", "thawed", "move"}]
                    /\ smHeld' \in [SmProcs -> SmMsgs \cup {SmNone}]
  OBVIOUS
<1>1. /\ smPc \in [SmProcs -> {"user", "go", "asleep", "put", "thawed", "move"}]
      /\ smHeld \in [SmProcs -> SmMsgs \cup {SmNone}]
  BY DEF SmInv, SmTyped
<1>2. /\ smPc' \in [SmProcs -> {"user", "go", "asleep", "put", "thawed", "move"}]
      /\ smPc'[p] = c /\ \A o \in SmProcs : o # p => smPc'[o] = smPc[o]
  BY <1>1 DEF Stepped
<1>3. /\ smHeld' \in [SmProcs -> SmMsgs \cup {SmNone}]
      /\ smHeld'[p] = h /\ \A o \in SmProcs : o # p => smHeld'[o] = smHeld[o]
  BY <1>1 DEF Stepped
<1>4. \A o \in SmProcs : o # p => smPc[o] \notin Busy /\ smHeld[o] = SmNone
  BY Alone DEF Stepped
<1>5. \A o \in SmProcs : smHeld'[o] # SmNone => smPc'[o] \in {"thawed", "move"}
  BY <1>2, <1>3, <1>4 DEF Stepped
<1>6. \A o \in SmProcs : smPc'[o] = "move" => smHeld'[o] # SmNone
  BY <1>2, <1>3, <1>4 DEF Stepped, Busy
<1>7. \A o, u \in SmProcs : smPc'[o] \in Busy /\ smPc'[u] \in Busy => o = u
  BY <1>2, <1>4
<1> QED BY <1>2, <1>3, <1>5, <1>6, <1>7 DEF SmHolding

LEMMA SteppedTold ==
  ASSUME NEW p \in SmProcs, NEW c, NEW h
  PROVE  SmInv /\ Stepped(p, c, h) /\ StaysTold
         /\ (p \in SmReaders /\ c = "asleep" => "read" \in sh_lock_mask')
         /\ (p \in SmReaders /\ c \in {"asleep", "thawed"} /\ h = SmNone /\ sm'.q["hr"] # << >> =>
               SmComing') => SmTold'
<1> SUFFICES ASSUME SmInv, Stepped(p, c, h), StaysTold,
                    p \in SmReaders /\ c = "asleep" => "read" \in sh_lock_mask',
                    p \in SmReaders /\ c \in {"asleep", "thawed"} /\ h = SmNone
                      /\ sm'.q["hr"] # << >> => SmComing'
             PROVE  SmTold'
  OBVIOUS
<1>1. /\ smPc \in [SmProcs -> {"user", "go", "asleep", "put", "thawed", "move"}]
      /\ smHeld \in [SmProcs -> SmMsgs \cup {SmNone}]
  BY DEF SmInv, SmTyped
<1>2. smPc'[p] = c /\ \A o \in SmProcs : o # p => smPc'[o] = smPc[o]
  BY <1>1 DEF Stepped
<1>3. smHeld'[p] = h /\ \A o \in SmProcs : o # p => smHeld'[o] = smHeld[o]
  BY <1>1 DEF Stepped
<1>4. SmTold
  BY DEF SmInv, Stepped, SmRuns
<1>5. ASSUME NEW o \in SmReaders, smPc'[o] = "asleep" PROVE "read" \in sh_lock_mask'
  BY <1>2, <1>4, <1>5 DEF SmTold, StaysTold, SmProcs
<1>6. ASSUME NEW o \in SmReaders, Waits(o)', sm'.q["hr"] # << >> PROVE SmComing'
  <2>1. CASE o = p
    <3>1. c = "asleep" \/ (c = "thawed" /\ h = SmNone)
      BY <1>2, <1>3, <1>6, <2>1 DEF Waits
    <3>2. c = "asleep" => h = SmNone
      BY DEF Stepped
    <3> QED BY <1>6, <2>1, <3>1, <3>2
  <2>2. CASE o # p
    <3>1. Waits(o)
      BY <1>2, <1>3, <1>6, <2>2 DEF Waits, SmProcs
    <3> QED BY <1>4, <1>6, <3>1 DEF SmTold, StaysTold
  <2> QED BY <2>1, <2>2
<1> QED BY <1>5, <1>6 DEF SmTold

LEMMA SteppedOrdered ==
  ASSUME NEW p \in SmProcs, NEW c, NEW h
  PROVE  SmInv /\ Stepped(p, c, h)
         /\ (h = SmNone => Order(sm'.q, smGot', smSent'))
         /\ (h # SmNone => h[1] = smGot' + 1 /\ Order(sm'.q, h[2], smSent')) => SmOrdered'
<1> SUFFICES ASSUME SmInv, Stepped(p, c, h),
                    h = SmNone => Order(sm'.q, smGot', smSent'),
                    h # SmNone => h[1] = smGot' + 1 /\ Order(sm'.q, h[2], smSent')
             PROVE  SmOrdered'
  OBVIOUS
<1>1. smHeld \in [SmProcs -> SmMsgs \cup {SmNone}]
  BY DEF SmInv, SmTyped
<1>2. smHeld'[p] = h /\ \A o \in SmProcs : o # p => smHeld'[o] = smHeld[o]
  BY <1>1 DEF Stepped
<1>3. \A o \in SmProcs : o # p => smHeld'[o] = SmNone
  BY <1>2, Alone DEF Stepped
<1>4. (\A o \in SmProcs : smHeld'[o] = SmNone) => Order(sm'.q, smGot', smSent')
  BY <1>2
<1>5. \A o \in SmProcs : smHeld'[o] # SmNone =>
        smHeld'[o][1] = smGot' + 1 /\ Order(sm'.q, smHeld'[o][2], smSent')
  BY <1>2, <1>3
<1> QED BY <1>4, <1>5 DEF SmOrdered

\* A step that changes neither the messages nor who holds one.
LEMMA HoldsSame ==
  ASSUME NEW p \in SmProcs, NEW c
  PROVE  SmInv /\ SmRuns(p) /\ smPc' = [smPc EXCEPT ![p] = c] /\ smHeld' = smHeld
         /\ (smHeld[p] = SmNone => c \in {"user", "go", "asleep", "put"})
         /\ (smHeld[p] # SmNone => c = "move")
         /\ sm'.q = sm.q /\ smGot' = smGot /\ smSent' = smSent =>
           Stepped(p, c, smHeld[p]) /\ SmOrdered'
<1> SUFFICES ASSUME SmInv, SmRuns(p), smPc' = [smPc EXCEPT ![p] = c], smHeld' = smHeld,
                    smHeld[p] = SmNone => c \in {"user", "go", "asleep", "put"},
                    smHeld[p] # SmNone => c = "move",
                    sm'.q = sm.q, smGot' = smGot, smSent' = smSent
             PROVE  Stepped(p, c, smHeld[p]) /\ SmOrdered'
  OBVIOUS
<1>1. smHeld \in [SmProcs -> SmMsgs \cup {SmNone}]
  BY DEF SmInv, SmTyped
<1>2. smHeld' = [smHeld EXCEPT ![p] = smHeld[p]] /\ smHeld[p] \in SmMsgs \cup {SmNone}
  BY <1>1
<1> QED BY <1>2, SameOrder DEF Stepped

LEMMA Begun == ASSUME NEW p \in SmProcs PROVE SmInv /\ Begin(p) => SmInv'
<1> SUFFICES ASSUME SmInv, Begin(p) PROVE SmInv'
  OBVIOUS
<1> USE DEF Begin
<1>1. smHeld[p] = SmNone
  BY Alone
<1>2. Stepped(p, "go", smHeld[p]) /\ SmOrdered'
  <2>1. PICK c : c = "go"
    OBVIOUS
  <2>2. Stepped(p, c, smHeld[p]) /\ SmOrdered'
    BY <1>1, <2>1, HoldsSame
  <2> QED BY <2>1, <2>2
<1>3. SmHolding' /\ smPc' \in [SmProcs -> {"user", "go", "asleep", "put", "thawed", "move"}]
  BY <1>2, SteppedHolding
<1>4. smLen' \in [SmProcs -> Nat]
  <2>1. PICK n \in SmSizes : smLen' = [smLen EXCEPT ![p] = n]
    OBVIOUS
  <2>2. n \in Nat /\ smLen \in [SmProcs -> Nat]
    BY <2>1, SmAssumption DEF SmInv, SmTyped
  <2> QED BY <2>1, <2>2
<1>5. SmTyped'
  BY <1>3, <1>4 DEF SmInv, SmTyped
<1>6. StaysTold
  BY DEF StaysTold, SmComing
<1>7. SmTold'
  BY <1>2, <1>6, SteppedTold
<1> QED BY <1>2, <1>3, <1>5, <1>7 DEF SmInv

LEMMA WriteTested == ASSUME NEW p \in SmWriters PROVE SmInv /\ SHEAD_WRITE_TEST(p) => SmInv'
<1> SUFFICES ASSUME SmInv, SHEAD_WRITE_TEST(p) PROVE SmInv'
  OBVIOUS
<1>1. /\ SmRuns(p) /\ smPc[p] = "go" /\ p \in SmProcs /\ p \notin SmReaders
      /\ smRunning' = smRunning /\ smSrv' = smSrv /\ smLen' = smLen /\ smHeld' = smHeld
      /\ smPanic' = smPanic /\ smSent' = smSent /\ smGot' = smGot
  BY SmAssumption DEF SHEAD_WRITE_TEST, SmProcs
<1>2. smHeld[p] = SmNone
  BY <1>1, Alone
<1>3. Sound(sm, smRunning)
  BY DEF SmInv
<1>4. PICK c \in {"put", "asleep"} :
        /\ smPc' = [smPc EXCEPT ![p] = c] /\ sh_lock_mask \subseteq sh_lock_mask'
        /\ Sound(sm', smRunning) /\ Keeps(sm, sm') /\ sm'.q = sm.q
  <2>1. Below("hw") \in SmQueues
    BY DEF Below, SmQueues
  <2>2. CASE canput(sm, Below("hw"))
    <3>1. smPc' = [smPc EXCEPT ![p] = "put"] /\ sm' = sm /\ sh_lock_mask' = sh_lock_mask
      BY <2>2 DEF SHEAD_WRITE_TEST
    <3> QED BY <1>3, <3>1 DEF Keeps
  <2>3. CASE ~canput(sm, Below("hw"))
    <3>1. /\ sm' = Refused(sm, Below("hw")) /\ smPc' = [smPc EXCEPT ![p] = "asleep"]
          /\ sh_lock_mask' = sh_lock_mask \cup {"write"}
      BY <2>3 DEF SHEAD_WRITE_TEST, Sleeps
    <3>2. Sound(sm', smRunning) /\ Keeps(sm, sm') /\ sm'.q = sm.q
      BY <1>3, <2>1, <2>3, <3>1, RefusedIs
    <3> QED BY <3>1, <3>2
  <2> QED BY <2>2, <2>3
<1>5. Stepped(p, c, smHeld[p]) /\ SmOrdered'
  BY <1>1, <1>2, <1>4, HoldsSame
<1>6. SmHolding' /\ smPc' \in [SmProcs -> {"user", "go", "asleep", "put", "thawed", "move"}]
  BY <1>1, <1>5, SteppedHolding
<1>7. SmTyped'
  BY <1>1, <1>6 DEF SmInv, SmTyped
<1>8. StaysTold
  BY <1>1, <1>4, HrIs DEF StaysTold, SmComing, Keeps
<1>9. SmTold'
  BY <1>1, <1>5, <1>8, SteppedTold
<1> QED BY <1>1, <1>4, <1>5, <1>6, <1>7, <1>9 DEF SmInv

LEMMA Written == ASSUME NEW p \in SmWriters PROVE SmInv /\ STREAMS_WRITE(p) => SmInv'
<1> SUFFICES ASSUME SmInv, STREAMS_WRITE(p) PROVE SmInv'
  OBVIOUS
<1> DEFINE m == <<smSent + 1, smSent + smLen[p]>>
<1>1. /\ SmRuns(p) /\ smPc[p] = "put" /\ p \in SmProcs
      /\ sm' = putq(sm, "hw", m) /\ smSent' = smSent + smLen[p]
      /\ smPc' = [smPc EXCEPT ![p] = "user"]
      /\ smRunning' = smRunning /\ smSrv' = smSrv /\ smLen' = smLen /\ smHeld' = smHeld
      /\ sh_lock_mask' = sh_lock_mask /\ smPanic' = smPanic /\ smGot' = smGot
  BY DEF STREAMS_WRITE, SmProcs
<1>2. smHeld[p] = SmNone /\ Order(sm.q, smGot, smSent)
  BY <1>1, Alone
<1>3. /\ smSent \in Int /\ smGot \in Int /\ smLen[p] \in Nat
      /\ smHeld \in [SmProcs -> SmMsgs \cup {SmNone}]
  BY <1>1 DEF SmInv, SmTyped
<1>4. m \in SmMsgs /\ m[1] = smSent + 1 /\ m[2] = smSent' /\ smSent' \in Int
  BY <1>1, <1>3 DEF SmMsgs
<1> HIDE DEF m
<1>5. Sound(sm', smRunning) /\ Keeps(sm, sm')
      /\ sm'.q = [sm.q EXCEPT !["hw"] = Append(sm.q["hw"], m)]
  <2>1. Sound(sm, smRunning)
    BY DEF SmInv
  <2> QED BY <1>1, <1>4, <2>1, HrIs, PutqIs
<1>6. sm.q \in [SmQueues -> Seq(SmMsgs)]
  BY SmStateIs DEF SmInv, Sound
<1>7. Order(sm'.q, smGot', smSent')
  <2>1. Order([sm.q EXCEPT !["hw"] = Append(sm.q["hw"], m)], smGot, m[2])
    BY <1>2, <1>3, <1>4, <1>6, OrderPut
  <2> QED BY <1>1, <1>4, <1>5, <2>1
<1>8. Stepped(p, "user", SmNone)
  <2>1. smHeld' = [smHeld EXCEPT ![p] = SmNone]
    BY <1>1, <1>2, <1>3
  <2> QED BY <1>1, <2>1 DEF Stepped
<1>9. SmHolding' /\ smPc' \in [SmProcs -> {"user", "go", "asleep", "put", "thawed", "move"}]
  BY <1>1, <1>8, SteppedHolding
<1>10. SmTyped'
  BY <1>1, <1>4, <1>9 DEF SmInv, SmTyped
<1>11. SmOrdered'
  BY <1>1, <1>7, <1>8, SteppedOrdered
<1>12. StaysTold
  <2>1. sm'.q["hr"] = sm.q["hr"]
    BY <1>5, <1>6, HrIs
  <2> QED BY <1>1, <1>5, <2>1, HrIs DEF StaysTold, SmComing, Keeps
<1>13. SmTold'
  BY <1>1, <1>8, <1>12, SteppedTold
<1> QED BY <1>1, <1>5, <1>9, <1>10, <1>11, <1>13 DEF SmInv

LEMMA DataRead == ASSUME NEW p \in SmReaders PROVE SmInv /\ SHEAD_READ_DATA(p) => SmInv'
<1> SUFFICES ASSUME SmInv, SHEAD_READ_DATA(p) PROVE SmInv'
  OBVIOUS
<1>1. /\ SmRuns(p) /\ smPc[p] = "go" /\ p \in SmProcs
      /\ smPc' = [smPc EXCEPT ![p] = "thawed"]
      /\ smRunning' = smRunning /\ smSrv' = smSrv /\ smLen' = smLen
      /\ sh_lock_mask' = sh_lock_mask /\ smPanic' = smPanic /\ smGot' = smGot /\ smSent' = smSent
  BY DEF SHEAD_READ_DATA, SmProcs
<1>2. smHeld[p] = SmNone /\ Order(sm.q, smGot, smSent)
  BY <1>1, Alone
<1>3. smGot \in Int /\ smHeld \in [SmProcs -> SmMsgs \cup {SmNone}] /\ Sound(sm, smRunning)
  BY DEF SmInv, SmTyped
<1>4. sm.q \in [SmQueues -> Seq(SmMsgs)] /\ sm.q["hr"] \in Seq(SmMsgs)
  <2>1. sm.q \in [SmQueues -> Seq(SmMsgs)]
    BY <1>3, SmStateIs DEF Sound
  <2> QED BY <2>1, HrIs
<1>5. PICK h \in SmMsgs \cup {SmNone} :
        /\ smHeld' = [smHeld EXCEPT ![p] = h]
        /\ Sound(sm', smRunning) /\ Keeps(sm, sm')
        /\ h = SmNone => sm'.q = sm.q /\ sm.q["hr"] = << >>
        /\ h # SmNone => h[1] = smGot + 1 /\ Order(sm'.q, h[2], smSent)
        /\ sm'.q["hr"] # << >> => sm.q["hr"] # << >>
  <2>1. CASE sm.q["hr"] = << >>
    <3>1. sm' = getq(sm, "hr") /\ smHeld' = smHeld
      BY <2>1 DEF SHEAD_READ_DATA, getq
    <3>2. Sound(sm', smRunning) /\ Keeps(sm, sm') /\ sm'.q = sm.q
      BY <1>3, <2>1, <3>1, HrIs, GetqIs
    <3>3. smHeld' = [smHeld EXCEPT ![p] = SmNone]
      BY <1>2, <1>3, <3>1
    <3> QED BY <2>1, <3>2, <3>3
  <2>2. CASE sm.q["hr"] # << >>
    <3>1. sm' = rmvq(sm, "hr") /\ smHeld' = [smHeld EXCEPT ![p] = Head(sm.q["hr"])]
      BY <2>2 DEF SHEAD_READ_DATA
    <3>2. Head(sm.q["hr"]) \in SmMsgs
      BY <1>4, <2>2, HeadTail
    <3>3. /\ Sound(sm', smRunning) /\ Keeps(sm, sm')
          /\ sm'.q = [sm.q EXCEPT !["hr"] = Tail(sm.q["hr"])]
      BY <1>3, <2>2, <3>1, HrIs, RmvqIs
    <3>4. /\ Head(sm.q["hr"])[1] = smGot + 1
          /\ Order([sm.q EXCEPT !["hr"] = Tail(sm.q["hr"])], Head(sm.q["hr"])[2], smSent)
      BY <1>2, <1>3, <1>4, <2>2, OrderTake
    <3>5. SmNone \notin SmMsgs
      BY SmAssumption DEF SmMsgs
    <3> QED BY <2>2, <3>1, <3>2, <3>3, <3>4, <3>5
  <2> QED BY <2>1, <2>2
<1>6. Stepped(p, "thawed", h)
  BY <1>1, <1>5 DEF Stepped
<1>7. /\ SmHolding' /\ smPc' \in [SmProcs -> {"user", "go", "asleep", "put", "thawed", "move"}]
      /\ smHeld' \in [SmProcs -> SmMsgs \cup {SmNone}]
  BY <1>1, <1>6, SteppedHolding
<1>8. SmTyped'
  BY <1>1, <1>7 DEF SmInv, SmTyped
<1>9. SmOrdered'
  BY <1>1, <1>2, <1>5, <1>6, SteppedOrdered
<1>10. StaysTold
  BY <1>1, <1>5, HrIs DEF StaysTold, SmComing, Keeps
<1>11. SmTold'
  <2>1. h = SmNone => sm'.q["hr"] = << >>
    BY <1>5
  <2> QED BY <1>1, <1>6, <1>10, <2>1, SteppedTold
<1> QED BY <1>1, <1>5, <1>7, <1>8, <1>9, <1>11 DEF SmInv

LEMMA Unlocked == ASSUME NEW p \in SmReaders PROVE SmInv /\ Unlocks(p) => SmInv'
<1> SUFFICES ASSUME SmInv, Unlocks(p) PROVE SmInv'
  OBVIOUS
<1>1. /\ SmRuns(p) /\ smPc[p] = "thawed" /\ p \in SmProcs /\ sm' = sm
      /\ smRunning' = smRunning /\ smSrv' = smSrv /\ smLen' = smLen /\ smHeld' = smHeld
      /\ smPanic' = smPanic /\ smGot' = smGot /\ smSent' = smSent
  BY DEF Unlocks, SmProcs
<1>2. PICK c \in {"user", "asleep", "move"} :
        /\ smPc' = [smPc EXCEPT ![p] = c]
        /\ smHeld[p] = SmNone => c \in {"user", "asleep"}
        /\ smHeld[p] # SmNone => c = "move"
        /\ sh_lock_mask \subseteq sh_lock_mask'
        /\ c = "asleep" => "read" \in sh_lock_mask'
  BY DEF Unlocks, Sleeps
<1>3. Stepped(p, c, smHeld[p]) /\ SmOrdered'
  BY <1>1, <1>2, HoldsSame
<1>4. SmHolding' /\ smPc' \in [SmProcs -> {"user", "go", "asleep", "put", "thawed", "move"}]
  BY <1>1, <1>3, SteppedHolding
<1>5. SmTyped'
  BY <1>1, <1>4 DEF SmInv, SmTyped
<1>6. StaysTold
  BY <1>1, <1>2 DEF StaysTold, SmComing
<1>7. SmTold'
  <2>1. smHeld[p] = SmNone /\ sm.q["hr"] # << >> => SmComing
    BY <1>1 DEF SmInv, SmTold, Waits, SmRuns
  <2>2. smHeld[p] = SmNone /\ sm'.q["hr"] # << >> => SmComing'
    BY <1>1, <2>1 DEF SmComing
  <2> QED BY <1>1, <1>2, <1>3, <1>6, <2>2, SteppedTold
<1> QED BY <1>1, <1>3, <1>4, <1>5, <1>7 DEF SmInv

LEMMA DataMoved == ASSUME NEW p \in SmReaders PROVE SmInv /\ SHEAD_READ_MOVE(p) => SmInv'
<1> SUFFICES ASSUME SmInv, SHEAD_READ_MOVE(p) PROVE SmInv'
  OBVIOUS
<1>1. /\ SmRuns(p) /\ smPc[p] = "move" /\ p \in SmProcs
      /\ smHeld' = [smHeld EXCEPT ![p] = SmNone]
      /\ smRunning' = smRunning /\ smSrv' = smSrv
      /\ sh_lock_mask' = sh_lock_mask /\ smPanic' = smPanic /\ smSent' = smSent
  BY DEF SHEAD_READ_MOVE, SmProcs
<1>2. smHeld[p] # SmNone
  BY <1>1 DEF SmInv, SmHolding
<1>3. PICK m \in SmMsgs : m = smHeld[p] /\ m[1] = smGot + 1 /\ Order(sm.q, m[2], smSent)
  BY <1>1, <1>2, Alone
<1>4. /\ smGot \in Int /\ smLen \in [SmProcs -> Nat] /\ smLen[p] \in Nat /\ Sound(sm, smRunning)
      /\ m[1] \in Int /\ m[2] \in Int /\ m[1] <= m[2] + 1
  BY <1>1 DEF SmInv, SmTyped, SmMsgs
<1>5. sm.q \in [SmQueues -> Seq(SmMsgs)]
  BY <1>4, SmStateIs DEF Sound
<1>6. PICK c \in {"user", "go"} :
        /\ smPc' = [smPc EXCEPT ![p] = c] /\ smLen' \in [SmProcs -> Nat] /\ smGot' \in Int
        /\ Sound(sm', smRunning) /\ Keeps(sm, sm') /\ Order(sm'.q, smGot', smSent)
        /\ sm'.q["hr"] # << >> => sm.q["hr"] # << >> \/ "QENAB" \in sm'.flag["hr"]
  <2>1. ASSUME NEW b \in SmMsgs, b[2] = m[2], sm' = putbq(sm, "hr", b), b[1] = smGot' + 1,
               smGot' \in Int
        PROVE  /\ Sound(sm', smRunning) /\ Keeps(sm, sm') /\ Order(sm'.q, smGot', smSent)
               /\ "QENAB" \in sm'.flag["hr"]
    <3>1. /\ Sound(sm', smRunning) /\ Keeps(sm, sm') /\ "QENAB" \in sm'.flag["hr"]
          /\ sm'.q = [sm.q EXCEPT !["hr"] = <<b>> \o sm.q["hr"]]
      <4>1. Sound(sm, smRunning) /\ sm' = putbq(sm, "hr", b) /\ b \in SmMsgs
        BY <1>4, <2>1
      <4> QED BY <4>1, HrIs, PutbqIs
    <3>2. Order(sm.q, b[2], smSent)
      BY <1>3, <2>1
    <3>3. Order([sm.q EXCEPT !["hr"] = <<b>> \o sm.q["hr"]], smGot', smSent)
      BY <1>5, <2>1, <3>2, OrderBack
    <3> QED BY <3>1, <3>3
  <2> DEFINE size == m[2] - m[1] + 1
             n == IF size <= smLen[p] THEN size ELSE smLen[p]
  <2>2. size \in Nat /\ n \in Nat /\ n <= size /\ n <= smLen[p]
    BY <1>4
  <2>3. \/ /\ smGot' = m[1] + n - 1
           /\ sm' = IF n < size THEN putbq(sm, "hr", <<m[1] + n, m[2]>>) ELSE sm
           /\ smLen' = [smLen EXCEPT ![p] = @ - n]
           /\ smPc' = [smPc EXCEPT ![p] = IF n < smLen[p] THEN "go" ELSE "user"]
        \/ /\ sm' = putbq(sm, "hr", m)
           /\ smPc' = [smPc EXCEPT ![p] = "user"]
           /\ smLen' = smLen /\ smGot' = smGot
    BY <1>3 DEF SHEAD_READ_MOVE
  <2> DEFINE b == <<m[1] + n, m[2]>>
  <2>4. n < size => b \in SmMsgs
    BY <1>4, <2>2 DEF SmMsgs
  <2>5. b[1] = m[1] + n /\ b[2] = m[2]
    OBVIOUS
  <2>6. n = size => m[1] + n - 1 = m[2]
    BY <1>4
  <2> HIDE DEF n, b, size
  <2>7. CASE /\ smGot' = m[1] + n - 1
             /\ sm' = IF n < size THEN putbq(sm, "hr", b) ELSE sm
             /\ smLen' = [smLen EXCEPT ![p] = @ - n]
             /\ smPc' = [smPc EXCEPT ![p] = IF n < smLen[p] THEN "go" ELSE "user"]
    <3>1. smLen' \in [SmProcs -> Nat] /\ smGot' \in Int /\ m[1] + n = smGot' + 1
      <4>1. smLen[p] - n \in Nat
        BY <1>4, <2>2
      <4>2. smLen' \in [SmProcs -> Nat]
        BY <1>1, <1>4, <2>7, <4>1
      <4> QED BY <1>4, <2>2, <2>7, <4>2
    <3>2. CASE n < size
      <4>1. sm' = putbq(sm, "hr", b)
        BY <2>7, <3>2
      <4>2. b \in SmMsgs /\ b[2] = m[2] /\ b[1] = smGot' + 1
        BY <2>4, <2>5, <3>1, <3>2
      <4>3. /\ Sound(sm', smRunning) /\ Keeps(sm, sm') /\ Order(sm'.q, smGot', smSent)
            /\ "QENAB" \in sm'.flag["hr"]
        BY <2>1, <3>1, <4>1, <4>2
      <4> QED BY <2>7, <3>1, <4>3
    <3>3. CASE ~(n < size)
      <4>1. n = size
        BY <2>2, <3>3
      <4>2. sm' = sm /\ smGot' = m[2]
        BY <2>6, <2>7, <3>3, <4>1
      <4>3. Order(sm'.q, smGot', smSent) /\ Keeps(sm, sm')
        BY <1>3, <4>2 DEF Keeps
      <4> QED BY <1>4, <2>7, <3>1, <4>2, <4>3
    <3> QED BY <3>2, <3>3
  <2>8. CASE /\ sm' = putbq(sm, "hr", m)
             /\ smPc' = [smPc EXCEPT ![p] = "user"]
             /\ smLen' = smLen /\ smGot' = smGot
    <3>1. /\ Sound(sm', smRunning) /\ Keeps(sm, sm') /\ Order(sm'.q, smGot', smSent)
          /\ "QENAB" \in sm'.flag["hr"]
      BY <1>3, <1>4, <2>1, <2>8
    <3> QED BY <1>4, <2>8, <3>1
  <2> QED BY <2>3, <2>7, <2>8 DEF b, n, size
<1>7. Stepped(p, c, SmNone)
  BY <1>1, <1>6 DEF Stepped
<1>8. /\ SmHolding' /\ smPc' \in [SmProcs -> {"user", "go", "asleep", "put", "thawed", "move"}]
      /\ smHeld' \in [SmProcs -> SmMsgs \cup {SmNone}]
  BY <1>1, <1>7, SteppedHolding
<1>9. SmTyped'
  BY <1>1, <1>6, <1>8 DEF SmInv, SmTyped
<1>10. SmOrdered'
  BY <1>1, <1>6, <1>7, SteppedOrdered
<1>11. StaysTold
  BY <1>1, <1>6, HrIs DEF StaysTold, SmComing, Keeps
<1>12. SmTold'
  BY <1>1, <1>7, <1>11, SteppedTold
<1> QED BY <1>1, <1>6, <1>8, <1>9, <1>10, <1>12 DEF SmInv

LEMMA SmStep == SmInv /\ [SmNext]_smVars => SmInv'
<1> SUFFICES ASSUME SmInv, [SmNext]_smVars PROVE SmInv'
  OBVIOUS
<1>1. CASE RUN_STREAMS \/ QSCHED_GETFIRST \/ RunStreamsEnd
  BY <1>1, StreamsStarted, FirstStarted, StreamsEnded
<1>2. CASE headrsrv \/ headwsrvDone \/ echowsrvDone
  BY <1>2, ReadServed, WriteServed, EchoServed
<1>3. CASE \E x \in {"hw", "dw"} : Forward(x)
  BY <1>3, Forwarded
<1>4. CASE \E p \in SmProcs : Begin(p) \/ SmSignal(p)
  BY <1>4, Begun, Signalled
<1>5. CASE \E p \in SmWriters : SHEAD_WRITE_TEST(p) \/ STREAMS_WRITE(p)
  BY <1>5, WriteTested, Written
<1>6. CASE \E p \in SmReaders : SHEAD_READ_DATA(p) \/ Unlocks(p) \/ SHEAD_READ_MOVE(p)
  BY <1>6, DataRead, Unlocked, DataMoved
<1>7. CASE UNCHANGED smVars
  BY <1>7 DEF smVars, SmInv, SmTyped, SmHolding, SmTold, Waits, SmComing, SmOrdered
<1> QED BY <1>1, <1>2, <1>3, <1>4, <1>5, <1>6, <1>7 DEF SmNext

LEMMA SmAlways == SmSpec => []SmInv
<1> QED BY SmInitInv, SmStep, PTL DEF SmSpec

----------------------------------------------------------------------------
(* RUN_STREAMS empties the queue of the driver, or is stuck for good.       *)

SmWaking(x, s, srv) == "QENAB" \in s.flag[x] \/ srv = x

SmFlowing ==
  /\ \A x \in SmQueues : "QBACK" \notin sm.flag[x]
  /\ \A x \in {"hw", "dw"} : sm.q[x] # << >> => SmWaking(x, sm, smSrv)
  /\ ~smRunning => sm.q["dw"] = << >>
  /\ "QWANTW" \in sm.flag["hr"] => sm.q["dw"] # << >>
  /\ SmWriterUnblocked

FlowsOn == SmFlowing' /\ StillRefused(sm, sm')

LEMMA FlowingOn ==
  ASSUME SmFlowing, NoNewNotes(sm, sm'), SmWriterUnblocked',
         \A x \in {"hw", "dw"} : sm'.q[x] # << >> => SmWaking(x, sm', smSrv'),
         ~smRunning' => sm'.q["dw"] = << >>,
         "QWANTW" \in sm.flag["hr"] => sm'.q["dw"] # << >>
  PROVE  FlowsOn
<1>1. \A x \in SmQueues : "QBACK" \notin sm'.flag[x]
  BY DEF SmFlowing, NoNewNotes
<1>2. "QWANTW" \in sm'.flag["hr"] => sm'.q["dw"] # << >>
  BY HrIs DEF NoNewNotes
<1>3. \A x \in {"hw", "dw"} : SmWaking(x, sm, smSrv)' <=> SmWaking(x, sm', smSrv')
  BY DEF SmWaking
<1> QED BY <1>1, <1>2, <1>3 DEF SmFlowing, NoNewNotes, FlowsOn

\* A process at base level: the queue of the driver is empty and stays so.
LEMMA FlowingAside ==
  ASSUME SmFlowing, ~smRunning, smRunning' = smRunning, smSrv' = smSrv,
         NoNewNotes(sm, sm'), Keeps(sm, sm'), sm'.q["dw"] = sm.q["dw"],
         sm'.q["hw"] = sm.q["hw"] \/ "QENAB" \in sm'.flag["hw"], SmWriterUnblocked'
  PROVE  FlowsOn
<1>1. sm'.q["dw"] = << >> /\ "QWANTW" \notin sm.flag["hr"]
  BY DEF SmFlowing
<1>2. \A x \in {"hw", "dw"} : sm'.q[x] # << >> => SmWaking(x, sm', smSrv')
  BY <1>1, HrIs DEF SmFlowing, SmWaking, Keeps
<1> QED BY <1>1, <1>2, FlowingOn

LEMMA SameNotes == ASSUME NEW s, NEW t, t.flag = s.flag PROVE NoNewNotes(s, t) /\ Keeps(s, t)
BY DEF NoNewNotes, StillRefused, Keeps

LEMMA InitFlows == SmInit => SmFlowing
<1> SUFFICES ASSUME SmInit PROVE SmFlowing
  OBVIOUS
<1>1. \A x \in SmQueues : sm.q[x] = << >> /\ sm.flag[x] = {"QWANTR"}
  BY DEF SmInit
<1>2. \A p \in SmProcs : smPc[p] = "user"
  BY DEF SmInit
<1> QED BY <1>1, <1>2, HrIs DEF SmFlowing, SmWriterUnblocked, SmProcs

LEMMA StreamsFlow ==
  SmInv /\ SmFlowing /\ (RUN_STREAMS \/ QSCHED_GETFIRST \/ RunStreamsEnd) => FlowsOn
<1> SUFFICES ASSUME SmInv, SmFlowing, RUN_STREAMS \/ QSCHED_GETFIRST \/ RunStreamsEnd
             PROVE  FlowsOn
  OBVIOUS
<1>1. SmWriterUnblocked'
  BY DEF SmFlowing, SmWriterUnblocked, RUN_STREAMS, QSCHED_GETFIRST, RunStreamsEnd
<1>2. sm \in SmStates /\ Scheduled(sm, smRunning)
  BY DEF SmInv, Sound
<1>3. CASE RUN_STREAMS
  <2>1. sm'.q = sm.q /\ sm'.flag = sm.flag /\ smSrv' = smSrv /\ smRunning' = TRUE
    BY <1>2, <1>3 DEF RUN_STREAMS, SmStates
  <2>2. \A x \in {"hw", "dw"} : sm'.q[x] # << >> => SmWaking(x, sm', smSrv')
    BY <2>1 DEF SmFlowing, SmWaking
  <2>3. "QWANTW" \in sm.flag["hr"] => sm'.q["dw"] # << >>
    BY <2>1 DEF SmFlowing
  <2> QED BY <1>1, <2>1, <2>2, <2>3, SameNotes, FlowingOn
<1>4. CASE QSCHED_GETFIRST
  <2>1. smRunning /\ smRunning' = smRunning /\ smSrv = SmNone /\ sm.sched # << >>
    BY <1>4 DEF QSCHED_GETFIRST, Serving
  <2>2. sm' = [Unflagged(sm, Head(sm.sched), "QENAB") EXCEPT !.sched = Tail(sm.sched)]
    <3>1. Unflagged(sm, Head(sm.sched), "QENAB").sched = sm.sched
      BY <1>2 DEF Unflagged, SmStates
    <3> QED BY <1>4, <3>1 DEF QSCHED_GETFIRST
  <2>3. /\ sm'.q = sm.q /\ NoNewNotes(sm, sm') /\ smSrv' \in SmQueues
        /\ \A y \in SmQueues : y # smSrv' /\ "QENAB" \in sm.flag[y] => "QENAB" \in sm'.flag[y]
    <3>1. Sound(sm, smRunning) /\ smSrv' = Head(sm.sched)
      BY <1>4 DEF SmInv, QSCHED_GETFIRST
    <3> QED BY <2>1, <2>2, <3>1, FirstIs
  <2>4. \A x \in {"hw", "dw"} : sm'.q[x] # << >> => SmWaking(x, sm', smSrv')
    <3>1. \A x \in {"hw", "dw"} : x # SmNone /\ x \in SmQueues
      BY HrIs, SmAssumption
    <3> QED BY <2>1, <2>3, <3>1 DEF SmFlowing, SmWaking
  <2>5. "QWANTW" \in sm.flag["hr"] => sm'.q["dw"] # << >>
    BY <2>3 DEF SmFlowing
  <2> QED BY <1>1, <2>1, <2>3, <2>4, <2>5, FlowingOn
<1>5. CASE RunStreamsEnd
  <2>1. sm' = sm /\ smSrv' = smSrv /\ smSrv = SmNone /\ sm.sched = << >>
    BY <1>5 DEF RunStreamsEnd, Serving
  <2>2. \A x \in SmQueues : "QENAB" \notin sm.flag[x]
    BY <1>2, <2>1 DEF Scheduled
  <2>3. sm.q["dw"] = << >>
    BY <2>1, <2>2, HrIs, SmAssumption DEF SmFlowing, SmWaking
  <2>4. \A x \in {"hw", "dw"} : sm'.q[x] # << >> => SmWaking(x, sm', smSrv')
    BY <2>1 DEF SmFlowing
  <2>5. "QWANTW" \in sm.flag["hr"] => sm'.q["dw"] # << >>
    BY <2>1 DEF SmFlowing
  <2>6. NoNewNotes(sm, sm')
    BY <2>1, SameNotes
  <2> QED BY <1>1, <2>1, <2>3, <2>4, <2>5, <2>6, FlowingOn
<1> QED BY <1>3, <1>4, <1>5

\* SHEAD_WAKE puts nobody to sleep.
LEMMA WakesFlow ==
  ASSUME SmFlowing, Quiet PROVE SmWriterUnblocked'
<1>1. \A p \in SmWriters : smPc'[p] = "asleep" => smPc[p] = "asleep"
  BY DEF Quiet, SmProcs
<1> QED BY <1>1 DEF SmFlowing, SmWriterUnblocked

LEMMA ServedFlow ==
  SmInv /\ SmFlowing /\ (headrsrv \/ headwsrvDone \/ echowsrvDone) => FlowsOn
<1> SUFFICES ASSUME SmInv, SmFlowing, headrsrv \/ headwsrvDone \/ echowsrvDone PROVE FlowsOn
  OBVIOUS
<1>1. PICK x \in SmQueues :
        /\ smRunning /\ smRunning' = smRunning /\ ~smPanic /\ smSrv = x /\ smSrv' = SmNone
        /\ \/ x = "hr" /\ sm' = sm
           \/ x \in {"hw", "dw"} /\ sm.q[x] = << >> /\ sm' = getq(sm, x)
  BY HrIs DEF headrsrv, headwsrvDone, echowsrvDone, Serving
<1>2. NoNewNotes(sm, sm') /\ Keeps(sm, sm') /\ sm'.q = sm.q
  <2>1. CASE sm' = sm
    BY <2>1, SameNotes
  <2>2. CASE sm.q[x] = << >> /\ sm' = getq(sm, x)
    <3>1. Sound(sm, smRunning)
      BY DEF SmInv
    <3> QED BY <2>2, <3>1, GetqIs
  <2> QED BY <1>1, <2>1, <2>2
<1>3. Quiet
  <2>1. CASE smPc' = smPc
    BY <2>1 DEF Quiet
  <2>2. CASE \E c \in {"read", "write"} : SHEAD_WAKE(c)
    BY <1>1, <2>2, WakeIs
  <2> QED BY <2>1, <2>2 DEF headrsrv, headwsrvDone, echowsrvDone
<1>4. \A y \in {"hw", "dw"} : sm'.q[y] # << >> => SmWaking(y, sm', smSrv')
  <2>1. TAKE y \in {"hw", "dw"}
  <2>2. sm'.q[y] # << >> => y # x
    BY <1>1, <1>2
  <2>3. sm'.q[y] # << >> => "QENAB" \in sm.flag[y] \/ smSrv = y
    BY <1>2 DEF SmFlowing, SmWaking
  <2>4. "QENAB" \in sm.flag[y] => "QENAB" \in sm'.flag[y]
    BY <1>2, HrIs DEF Keeps
  <2> QED BY <1>1, <2>2, <2>3, <2>4 DEF SmWaking
<1>5. "QWANTW" \in sm.flag["hr"] => sm'.q["dw"] # << >>
  BY <1>2 DEF SmFlowing
<1> QED BY <1>1, <1>2, <1>3, <1>4, <1>5, WakesFlow, FlowingOn

LEMMA ForwardFlows ==
  ASSUME NEW x \in {"hw", "dw"} PROVE SmInv /\ SmFlowing /\ Forward(x) => FlowsOn
<1> SUFFICES ASSUME SmInv, SmFlowing, Forward(x) PROVE FlowsOn
  OBVIOUS
<1>1. /\ smRunning /\ smSrv = x /\ sm.q[x] # << >> /\ x \in SmQueues
      /\ smRunning' = smRunning /\ smPc' = smPc
  BY HrIs DEF Forward, Serving
<1>2. Sound(sm, smRunning) /\ sm.q \in [SmQueues -> Seq(SmMsgs)]
  BY SmStateIs DEF SmInv, Sound
<1>3. SmWriterUnblocked'
  BY <1>1 DEF SmFlowing, SmWriterUnblocked
<1>4. CASE canput(getq(sm, x), Below(x))
  <2>1. sm' = putq(getq(sm, x), Below(x), Head(sm.q[x])) /\ smSrv' = x
    BY <1>1, <1>4 DEF Forward
  <2>2. /\ Keeps(sm, sm') /\ "QENAB" \in sm'.flag[Below(x)] /\ Moved(sm, sm', x)
        /\ NoNewNotes(sm, sm') /\ "QWANTW" \notin sm'.flag[Below(x)]
    BY <1>1, <1>2, <1>4, <2>1, MovedIs
  <2>3. ASSUME NEW y \in {"hw", "dw"}, sm'.q[y] # << >> PROVE SmWaking(y, sm', smSrv')
    <3>1. y \in SmQueues
      BY HrIs
    <3>2. CASE y = x \/ y = Below(x)
      BY <2>1, <2>2, <3>2 DEF SmWaking
    <3>3. CASE y # x /\ y # Below(x)
      <4>1. sm'.q[y] = sm.q[y]
        BY <2>2, <3>1, <3>3 DEF Moved
      <4> QED BY <1>1, <2>2, <2>3, <3>1, <3>3, <4>1 DEF SmFlowing, SmWaking, Keeps
    <3> QED BY <3>2, <3>3
  <2>4. "QWANTW" \in sm'.flag["hr"] => sm'.q["dw"] # << >>
    <3>1. CASE x = "dw"
      BY <2>2, <3>1 DEF Below
    <3>2. CASE x = "hw"
      <4>1. sm'.q["dw"] = Append(sm.q["dw"], Head(sm.q["hw"]))
        BY <2>2, <3>2, HrIs DEF Moved, Below
      <4>2. sm.q["dw"] \in Seq(SmMsgs) /\ Head(sm.q["hw"]) \in SmMsgs
        BY <1>1, <1>2, <3>2, HrIs, HeadTail
      <4> QED BY <4>1, <4>2
    <3> QED BY <3>1, <3>2
  <2>5. \A y \in SmQueues : "QBACK" \notin sm'.flag[y]
    BY <2>2 DEF SmFlowing, NoNewNotes
  <2>6. \A y \in {"hw", "dw"} : SmWaking(y, sm, smSrv)' <=> SmWaking(y, sm', smSrv')
    BY DEF SmWaking
  <2>7. StillRefused(sm, sm')
    BY <2>2 DEF NoNewNotes
  <2> QED BY <1>1, <1>3, <2>3, <2>4, <2>5, <2>6, <2>7 DEF SmFlowing, FlowsOn
<1>5. CASE ~canput(getq(sm, x), Below(x))
  <2>1. sm' = putbq(Refused(getq(sm, x), Below(x)), x, Head(sm.q[x])) /\ smSrv' = SmNone
    BY <1>5 DEF Forward
  <2>2. /\ Keeps(sm, sm') /\ sm'.q = sm.q /\ Marked(sm, sm', Below(x))
        /\ "QENAB" \in sm'.flag[x]
    BY <1>1, <1>2, <1>5, <2>1, StuckIs
  <2>3. ASSUME NEW y \in {"hw", "dw"}, sm'.q[y] # << >> PROVE SmWaking(y, sm', smSrv')
    <3>1. CASE y = x
      BY <2>2, <3>1 DEF SmWaking
    <3>2. CASE y # x
      BY <1>1, <2>2, <2>3, <3>2, HrIs DEF SmFlowing, SmWaking, Keeps
    <3> QED BY <3>1, <3>2
  <2>4. "QWANTW" \in sm'.flag["hr"] => sm'.q["dw"] # << >>
    <3>1. CASE x = "dw"
      BY <1>1, <2>2, <3>1
    <3>2. CASE x = "hw"
      <4>1. Below(x) # "hr"
        BY <3>2 DEF Below
      <4>2. "QWANTW" \in sm'.flag["hr"] => "QWANTW" \in sm.flag["hr"]
        BY <2>2, <4>1, HrIs DEF Marked
      <4> QED BY <2>2, <4>2 DEF SmFlowing
    <3> QED BY <3>1, <3>2
  <2>5. \A y \in SmQueues : "QBACK" \notin sm'.flag[y]
    BY <2>2 DEF SmFlowing, Marked
  <2>6. \A y \in {"hw", "dw"} : SmWaking(y, sm, smSrv)' <=> SmWaking(y, sm', smSrv')
    BY DEF SmWaking
  <2>7. StillRefused(sm, sm')
    BY <2>2 DEF Marked
  <2> QED BY <1>1, <1>3, <2>3, <2>4, <2>5, <2>6, <2>7 DEF SmFlowing, FlowsOn
<1> QED BY <1>4, <1>5

\* A step of p at base level that puts no writer to sleep.
LEMMA ProcessUnblocked ==
  ASSUME SmInv, SmFlowing, NEW p \in SmProcs, NEW c, smPc' = [smPc EXCEPT ![p] = c],
         p \in SmWriters => c # "asleep"
  PROVE  SmWriterUnblocked'
<1>1. smPc \in [SmProcs -> {"user", "go", "asleep", "put", "thawed", "move"}]
  BY DEF SmInv, SmTyped
<1>2. ASSUME NEW o \in SmWriters PROVE smPc'[o] # "asleep"
  <2>1. o \in SmProcs /\ smPc[o] # "asleep"
    BY DEF SmFlowing, SmWriterUnblocked, SmProcs
  <2> QED BY <1>1, <2>1
<1> QED BY <1>2 DEF SmWriterUnblocked

LEMMA BeginFlows ==
  ASSUME NEW p \in SmProcs PROVE SmInv /\ SmFlowing /\ (Begin(p) \/ SmSignal(p)) => FlowsOn
<1> SUFFICES ASSUME SmInv, SmFlowing, Begin(p) \/ SmSignal(p) PROVE FlowsOn
  OBVIOUS
<1>1. PICK c \in {"go", "user"} : smPc' = [smPc EXCEPT ![p] = c]
  BY DEF Begin, SmSignal
<1>2. ~smRunning /\ smRunning' = smRunning /\ smSrv' = smSrv /\ sm' = sm
  BY DEF Begin, SmSignal, SmRuns
<1>3. SmWriterUnblocked'
  BY <1>1, ProcessUnblocked
<1> QED BY <1>2, <1>3, SameNotes, FlowingAside

\* The queue of the driver is empty, so it has room.
LEMMA TestFlows ==
  ASSUME NEW p \in SmWriters PROVE SmInv /\ SmFlowing /\ SHEAD_WRITE_TEST(p) => FlowsOn
<1> SUFFICES ASSUME SmInv, SmFlowing, SHEAD_WRITE_TEST(p) PROVE FlowsOn
  OBVIOUS
<1>1. ~smRunning /\ smRunning' = smRunning /\ smSrv' = smSrv /\ p \in SmProcs
  BY DEF SHEAD_WRITE_TEST, SmRuns, SmProcs
<1>2. canput(sm, Below("hw"))
  <2>1. sm.q["dw"] = << >>
    BY <1>1 DEF SmFlowing
  <2>2. Count(sm.q["dw"]) = 0
    <3>1. PICK l : l = << >>
      OBVIOUS
    <3>2. DOMAIN l = {}
      BY <3>1
    <3> QED BY <2>1, <3>1, <3>2, SumEmpty DEF Count
  <2>3. "QFULL" \notin sm.flag["dw"]
    BY <2>2, HrIs, SmAssumption DEF SmInv, Sound, Flows
  <2> QED BY <2>3 DEF canput, Below
<1>3. sm' = sm /\ smPc' = [smPc EXCEPT ![p] = "put"]
  BY <1>2 DEF SHEAD_WRITE_TEST
<1>4. SmWriterUnblocked'
  <2>1. PICK c : c = "put"
    OBVIOUS
  <2> QED BY <1>1, <1>3, <2>1, ProcessUnblocked
<1> QED BY <1>1, <1>3, <1>4, SameNotes, FlowingAside

LEMMA WriteFlows ==
  ASSUME NEW p \in SmWriters PROVE SmInv /\ SmFlowing /\ STREAMS_WRITE(p) => FlowsOn
<1> SUFFICES ASSUME SmInv, SmFlowing, STREAMS_WRITE(p) PROVE FlowsOn
  OBVIOUS
<1> DEFINE n == <<smSent + 1, smSent + smLen[p]>>
<1>1. /\ ~smRunning /\ smRunning' = smRunning /\ smSrv' = smSrv /\ p \in SmProcs
      /\ sm' = putq(sm, "hw", n) /\ smPc' = [smPc EXCEPT ![p] = "user"]
  BY DEF STREAMS_WRITE, SmRuns, SmProcs
<1>2. PICK m \in SmMsgs : m = n
  <2>1. smSent \in Int /\ smLen[p] \in Nat
    BY <1>1 DEF SmInv, SmTyped
  <2>2. n \in SmMsgs
    BY <2>1 DEF SmMsgs
  <2> QED BY <2>2
<1> HIDE DEF n
<1>3. Sound(sm, smRunning) /\ sm.q \in [SmQueues -> Seq(SmMsgs)]
  BY SmStateIs DEF SmInv, Sound
<1>4. /\ Keeps(sm, sm') /\ NoNewNotes(sm, sm') /\ "QENAB" \in sm'.flag["hw"]
      /\ sm'.q = [sm.q EXCEPT !["hw"] = Append(sm.q["hw"], m)]
  <2>1. sm' = putq(sm, "hw", m)
    BY <1>1, <1>2
  <2> QED BY <1>3, <2>1, HrIs, PutqIs
<1>5. sm'.q["dw"] = sm.q["dw"]
  BY <1>3, <1>4, HrIs
<1>6. SmWriterUnblocked'
  <2>1. PICK c : c = "user"
    OBVIOUS
  <2> QED BY <1>1, <2>1, ProcessUnblocked
<1> QED BY <1>1, <1>4, <1>5, <1>6, FlowingAside

\* rmvq may leave a note on hr, but there is none that is wanted.
LEMMA ReadFlows ==
  ASSUME NEW p \in SmReaders PROVE SmInv /\ SmFlowing /\ SHEAD_READ_DATA(p) => FlowsOn
<1> SUFFICES ASSUME SmInv, SmFlowing, SHEAD_READ_DATA(p) PROVE FlowsOn
  OBVIOUS
<1>1. /\ ~smRunning /\ smRunning' = smRunning /\ smSrv' = smSrv /\ p \in SmProcs
      /\ smPc' = [smPc EXCEPT ![p] = "thawed"]
  BY DEF SHEAD_READ_DATA, SmRuns, SmProcs
<1>2. Sound(sm, smRunning) /\ sm.q \in [SmQueues -> Seq(SmMsgs)]
  BY SmStateIs DEF SmInv, Sound
<1>3. "QWANTW" \notin sm.flag["hr"]
  BY <1>1 DEF SmFlowing
<1>4. /\ Keeps(sm, sm') /\ NoNewNotes(sm, sm')
      /\ sm'.q["dw"] = sm.q["dw"] /\ sm'.q["hw"] = sm.q["hw"]
  <2>1. CASE sm.q["hr"] = << >>
    <3>1. sm' = getq(sm, "hr")
      BY <2>1 DEF SHEAD_READ_DATA, getq
    <3> QED BY <1>2, <2>1, <3>1, HrIs, GetqIs
  <2>2. CASE sm.q["hr"] # << >>
    <3>1. sm' = rmvq(sm, "hr")
      BY <2>2 DEF SHEAD_READ_DATA
    <3>2. /\ Keeps(sm, sm') /\ NewNote(sm, sm', "hr")
          /\ sm'.q = [sm.q EXCEPT !["hr"] = Tail(sm.q["hr"])]
      BY <1>2, <2>2, <3>1, HrIs, RmvqIs
    <3>3. NoNewNotes(sm, sm')
      BY <1>3, <3>2, HrIs DEF NewNote, NoNewNotes, StillRefused
    <3> QED BY <1>2, <3>2, <3>3, HrIs
  <2> QED BY <2>1, <2>2
<1>5. SmWriterUnblocked'
  <2>1. PICK c : c = "thawed"
    OBVIOUS
  <2> QED BY <1>1, <2>1, ProcessUnblocked
<1> QED BY <1>1, <1>4, <1>5, FlowingAside

LEMMA UnlockFlows ==
  ASSUME NEW p \in SmReaders PROVE SmInv /\ SmFlowing /\ Unlocks(p) => FlowsOn
<1> SUFFICES ASSUME SmInv, SmFlowing, Unlocks(p) PROVE FlowsOn
  OBVIOUS
<1>1. ~smRunning /\ smRunning' = smRunning /\ smSrv' = smSrv /\ sm' = sm /\ p \in SmProcs
  BY DEF Unlocks, SmRuns, SmProcs
<1>2. PICK c : smPc' = [smPc EXCEPT ![p] = c]
  BY DEF Unlocks, Sleeps
<1>3. SmWriterUnblocked'
  BY <1>1, <1>2, ProcessUnblocked, SmAssumption
<1> QED BY <1>1, <1>3, SameNotes, FlowingAside

LEMMA MoveFlows ==
  ASSUME NEW p \in SmReaders PROVE SmInv /\ SmFlowing /\ SHEAD_READ_MOVE(p) => FlowsOn
<1> SUFFICES ASSUME SmInv, SmFlowing, SHEAD_READ_MOVE(p) PROVE FlowsOn
  OBVIOUS
<1>1. /\ ~smRunning /\ smRunning' = smRunning /\ smSrv' = smSrv /\ p \in SmProcs
      /\ smPc[p] = "move"
  BY DEF SHEAD_READ_MOVE, SmRuns, SmProcs
<1>2. PICK c : smPc' = [smPc EXCEPT ![p] = c]
  BY DEF SHEAD_READ_MOVE
<1>3. SmWriterUnblocked'
  BY <1>1, <1>2, ProcessUnblocked, SmAssumption
<1>4. Sound(sm, smRunning) /\ sm.q \in [SmQueues -> Seq(SmMsgs)]
  BY SmStateIs DEF SmInv, Sound
<1>5. sm' = sm \/ \E b \in SmMsgs : sm' = putbq(sm, "hr", b)
  <2>1. smHeld[p] \in SmMsgs /\ smLen[p] \in Nat
    BY <1>1 DEF SmInv, SmHolding, SmTyped
  <2>2. PICK m \in SmMsgs : m = smHeld[p]
    BY <2>1
  <2>3. m[1] \in Int /\ m[2] \in Int
    BY MsgIs
  <2> DEFINE size == m[2] - m[1] + 1
             n == IF size <= smLen[p] THEN size ELSE smLen[p]
             b == <<m[1] + n, m[2]>>
  <2>4. size \in Int /\ n \in Int
    BY <2>1, <2>3
  <2>5. n < size => b \in SmMsgs
    BY <2>3, <2>4 DEF SmMsgs
  <2>6. sm' = (IF n < size THEN putbq(sm, "hr", b) ELSE sm) \/ sm' = putbq(sm, "hr", m)
    BY <2>2 DEF SHEAD_READ_MOVE
  <2> HIDE DEF n, size, b
  <2> QED BY <2>5, <2>6
<1>6. /\ Keeps(sm, sm') /\ NoNewNotes(sm, sm')
      /\ sm'.q["dw"] = sm.q["dw"] /\ sm'.q["hw"] = sm.q["hw"]
  <2>1. CASE sm' = sm
    BY <2>1, SameNotes
  <2>2. ASSUME NEW b \in SmMsgs, sm' = putbq(sm, "hr", b)
        PROVE  /\ Keeps(sm, sm') /\ NoNewNotes(sm, sm')
               /\ sm'.q["dw"] = sm.q["dw"] /\ sm'.q["hw"] = sm.q["hw"]
    <3>1. /\ Keeps(sm, sm') /\ NoNewNotes(sm, sm')
          /\ sm'.q = [sm.q EXCEPT !["hr"] = <<b>> \o sm.q["hr"]]
      BY <1>4, <2>2, HrIs, PutbqIs
    <3> QED BY <1>4, <3>1, HrIs
  <2> QED BY <1>5, <2>1, <2>2
<1> QED BY <1>1, <1>3, <1>6, FlowingAside

LEMMA FlowStep == SmInv /\ SmFlowing /\ [SmNext]_smVars => FlowsOn
<1> SUFFICES ASSUME SmInv, SmFlowing, [SmNext]_smVars PROVE FlowsOn
  OBVIOUS
<1>1. CASE RUN_STREAMS \/ QSCHED_GETFIRST \/ RunStreamsEnd
  BY <1>1, StreamsFlow
<1>2. CASE headrsrv \/ headwsrvDone \/ echowsrvDone
  BY <1>2, ServedFlow
<1>3. CASE \E x \in {"hw", "dw"} : Forward(x)
  BY <1>3, ForwardFlows
<1>4. CASE \E p \in SmProcs : Begin(p) \/ SmSignal(p)
  BY <1>4, BeginFlows
<1>5. CASE \E p \in SmWriters : SHEAD_WRITE_TEST(p) \/ STREAMS_WRITE(p)
  BY <1>5, TestFlows, WriteFlows
<1>6. CASE \E p \in SmReaders : SHEAD_READ_DATA(p) \/ Unlocks(p) \/ SHEAD_READ_MOVE(p)
  BY <1>6, ReadFlows, UnlockFlows, MoveFlows
<1>7. CASE UNCHANGED smVars
  BY <1>7 DEF smVars, SmFlowing, SmWaking, SmWriterUnblocked, StillRefused, FlowsOn
<1> QED BY <1>1, <1>2, <1>3, <1>4, <1>5, <1>6, <1>7 DEF SmNext

LEMMA FlowsAlways == SmSpec => [](SmInv /\ SmFlowing)
<1>1. SmInv /\ SmFlowing /\ [SmNext]_smVars => SmFlowing'
  BY FlowStep DEF FlowsOn
<1> QED BY <1>1, SmInitInv, SmStep, InitFlows, PTL DEF SmSpec

\* Once the driver is refused, RUN_STREAMS does not return.
LEMMA RefusedRuns == SmFlowing => ("QWANTW" \in sm.flag["hr"] => smRunning)
BY DEF SmFlowing

----------------------------------------------------------------------------

LEMMA SmInvServed == SmInv /\ SmFlowing => SmServed
<1> SUFFICES ASSUME SmInv, SmFlowing, ~smPanic PROVE SmServed
  BY DEF SmServed
<1>1. Scheduled(sm, smRunning) /\ Flows(sm) /\ SmTold
  BY DEF SmInv, Sound
<1>2. SmScheduled
  <2>1. IsInjective(sm.sched)
    BY <1>1 DEF Scheduled, IsInjective
  <2> QED BY <1>1, <2>1 DEF Scheduled, SmScheduled
<1>3. SmReaderTold
  BY <1>1 DEF SmTold, Waits, SmComing, SmReaderTold
<1>4. SmRefusedTold
  <2>1. \A x \in SmQueues : "QWANTW" \in sm.flag[x] => "QFULL" \in sm.flag[x]
                                                       /\ Count(sm.q[x]) > SmLowat
    BY <1>1 DEF Flows
  <2> QED BY <2>1, CountIs DEF SmFlowing, SmRefusedTold
<1>5. SmMessageTold /\ SmWriterUnblocked
  BY DEF SmFlowing, SmWaking, SmMessageTold
<1> QED BY <1>2, <1>3, <1>4, <1>5 DEF SmServed

\* The queues, one after the other.
LEMMA OrderLinked ==
  ASSUME NEW q \in [SmQueues -> Seq(SmMsgs)], NEW a \in Int, NEW b, Order(q, a, b)
  PROVE  LET l == q["hr"] \o q["dw"] \o q["hw"]
         IN  l \in Seq(SmMsgs) /\ Linked(a, l) /\ b = End(a, l)
<1>1. PICK i \in Seq(SmMsgs), j \in Seq(SmMsgs), k \in Seq(SmMsgs) :
        i = q["hr"] /\ j = q["dw"] /\ k = q["hw"]
  BY HrIs
<1>2. Linked(a, i) /\ Linked(End(a, i), j) /\ Linked(End(End(a, i), j), k)
      /\ b = End(End(End(a, i), j), k)
  BY <1>1 DEF Order
<1>3. i \o j \in Seq(SmMsgs) /\ Linked(a, i \o j) /\ End(a, i \o j) = End(End(a, i), j)
  BY <1>2, LinkedConcat
<1>4. PICK h \in Seq(SmMsgs) : h = i \o j
  BY <1>3
<1>5. Linked(a, h) /\ Linked(End(a, h), k) /\ End(a, h) = End(End(a, i), j)
  BY <1>2, <1>3, <1>4
<1>6. h \o k \in Seq(SmMsgs) /\ Linked(a, h \o k) /\ End(a, h \o k) = End(End(a, h), k)
  BY <1>5, LinkedConcat
<1> QED BY <1>1, <1>2, <1>4, <1>5, <1>6

LEMMA SmInvInOrder == SmInv => SmInOrder
<1> SUFFICES ASSUME SmInv PROVE SmInOrder
  OBVIOUS
<1> DEFINE held == {p \in SmProcs : smHeld[p] # SmNone}
           all == IF held = {} THEN SmTransit
                  ELSE <<smHeld[CHOOSE p \in held : TRUE]>> \o SmTransit
<1>1. smGot \in Int /\ smHeld \in [SmProcs -> SmMsgs \cup {SmNone}]
  BY DEF SmInv, SmTyped
<1>2. sm.q \in [SmQueues -> Seq(SmMsgs)]
  BY SmStateIs DEF SmInv, Sound
<1>3. \A p, o \in held : p = o
  BY DEF SmInv, SmHolding, Busy
<1>4. SmOrdered
  BY DEF SmInv
<1> HIDE DEF all
<1>5. Cardinality(held) <= 1
  <2>1. CASE held = {}
    BY <2>1, FS_EmptySet
  <2>2. CASE held # {}
    <3>1. PICK p : p \in held
      BY <2>2
    <3> HIDE DEF held
    <3>2. held = {p}
      BY <1>3, <3>1
    <3> QED BY <3>2, FS_Singleton
  <2> QED BY <2>1, <2>2
<1>6. /\ all \in Seq(SmMsgs) /\ Linked(smGot, all) /\ smSent = End(smGot, all)
  <2>1. CASE held = {}
    <3>1. Order(sm.q, smGot, smSent)
      BY <1>4, <2>1 DEF SmOrdered
    <3>2. SmTransit \in Seq(SmMsgs) /\ Linked(smGot, SmTransit) /\ smSent = End(smGot, SmTransit)
      BY <1>1, <1>2, <3>1, OrderLinked DEF SmTransit
    <3> QED BY <2>1, <3>2 DEF all
  <2>2. CASE held # {}
    <3>1. PICK p \in held : p = CHOOSE o \in held : TRUE
      BY <2>2
    <3>2. PICK m \in SmMsgs : m = smHeld[p]
      BY <1>1
    <3>3. m[1] = smGot + 1 /\ Order(sm.q, m[2], smSent) /\ m[2] \in Int
      BY <1>4, <3>2, MsgIs DEF SmOrdered
    <3>4. /\ SmTransit \in Seq(SmMsgs) /\ Linked(m[2], SmTransit)
          /\ smSent = End(m[2], SmTransit)
      BY <1>2, <3>3, OrderLinked DEF SmTransit
    <3>5. PICK l \in Seq(SmMsgs) : l = SmTransit
      BY <3>4
    <3>6. <<m>> \o l \in Seq(SmMsgs)
      BY ConsIs
    <3>7. /\ Linked(smGot, <<m>> \o l) <=> m[1] = smGot + 1 /\ Linked(m[2], l)
          /\ End(smGot, <<m>> \o l) = End(m[2], l)
      BY <1>1, LinkedCons
    <3>8. all = <<m>> \o l
      BY <2>2, <3>1, <3>2, <3>5 DEF all
    <3> QED BY <3>3, <3>4, <3>5, <3>6, <3>7, <3>8
  <2> QED BY <2>1, <2>2
<1>7. \A i \in DOMAIN all : all[i][1] = 1 + IF i = 1 THEN smGot ELSE all[i - 1][2]
  BY <1>6 DEF Linked
<1>8. smSent = IF all = << >> THEN smGot ELSE Last(all)[2]
  BY <1>6 DEF End, Last
<1> HIDE DEF held
<1> QED BY <1>5, <1>7, <1>8 DEF SmInOrder, held, all

(***************************************************************************)
(* Every queue that is to be served is on the schedule, once, and the      *)
(* schedule will be run; no reader sleeps beside data without a service    *)
(* procedure that wakes it; a message waits at the head or the driver only *)
(* for a service procedure or for a queue that has refused it, which is    *)
(* still so full that taking its messages will tell; and no writer sleeps, *)
(* as a process always finds the queue of the driver empty (strmisc.c,     *)
(* strmlib.c).                                                             *)
(***************************************************************************)
THEOREM StreamServed == SmSpec => []SmServed
<1> QED BY FlowsAlways, SmInvServed, PTL

(***************************************************************************)
(* And when the read queue of the head has refused the driver, RUN_STREAMS *)
(* does not return ever after, so no process runs again: echowsrv puts the *)
(* message back, and putbq (strmlib.c:820) schedules it.                   *)
(***************************************************************************)
THEOREM StreamHangs == SmSpec => SmHangs
<1> DEFINE Refusing == "QWANTW" \in sm.flag["hr"]
<1>1. SmInv /\ SmFlowing => (Refusing => smRunning)
  BY RefusedRuns
<1>2. SmInv /\ SmFlowing /\ [SmNext]_smVars => (Refusing => Refusing')
  BY FlowStep DEF FlowsOn, StillRefused
<1> HIDE DEF Refusing
<1>3. SmSpec => [](Refusing => []smRunning)
  BY <1>1, <1>2, FlowsAlways, PTL DEF SmSpec
<1> QED BY <1>3 DEF Refusing, SmHangs

(***************************************************************************)
(* The bytes come out of the three queues in the order in which they were  *)
(* written, none lost and none twice, also when a message is put back in   *)
(* part, or by a service procedure that was refused.                       *)
(***************************************************************************)
THEOREM StreamInOrder == SmSpec => []SmInOrder
<1> QED BY SmAlways, SmInvInOrder, PTL

(***************************************************************************)
(* The DDI/DKI timeouts.  The inductive invariant has the ticks to every   *)
(* place of the queue as a function of the place, the tickets of every     *)
(* cell in the order in which they are given out and taken back, and what  *)
(* RUN_TIMEOUTS has passed over and has to come back for.                  *)
(***************************************************************************)

\* The ticks in front of each place of the queue q with the deltas d.
Delays(P, q, d) ==
  /\ P \in [0 .. Len(q) -> Nat] /\ P[0] = 0
  /\ \A i \in 1 .. Len(q) : P[i] = P[i - 1] + d[q[i]]

IsDelay(g, q, d, S) ==
  g = [T \in SUBSET S |-> IF T = {} THEN 0 ELSE g[T \ {Max(T)}] + d[q[Max(T)]]]

LEMMA DelayDef ==
  \A i : Delay(i) = (CHOOSE g : IsDelay(g, SubSeq(tdQueue, 1, i), t_delta,
                                        DOMAIN SubSeq(tdQueue, 1, i)))
                      [DOMAIN SubSeq(tdQueue, 1, i)]
BY DEF Delay, FoldLeft, MapThenFoldSet, IsDelay

LEMMA DelaysExist ==
  ASSUME NEW q \in Seq(TdCells), NEW d \in [TdCells -> Nat]
  PROVE  \E P : Delays(P, q, d)
<1> DEFINE F == [x \in (1 .. Len(q)) \X Nat |-> x[2] + d[q[x[1]]]]
<1>1. Len(q) \in Nat /\ \A i \in 1 .. Len(q) : q[i] \in TdCells /\ d[q[i]] \in Nat
  OBVIOUS
<1>2. F \in [(1 .. Len(q)) \X Nat -> Nat]
  BY <1>1
<1>3. \A i \in 1 .. Len(q), v \in Nat : F[<<i, v>>] = v + d[q[i]]
  OBVIOUS
<1> HIDE DEF F
<1>4. PICK P \in [0 .. Len(q) -> Nat] : IsRec(P, Len(q), 0, F)
  BY <1>1, <1>2, RecExists
<1>5. P[0] = 0
  BY <1>1, <1>4 DEF IsRec
<1>6. ASSUME NEW i \in 1 .. Len(q) PROVE P[i] = P[i - 1] + d[q[i]]
  <2>1. i \in 0 .. Len(q) /\ i - 1 \in 0 .. Len(q) /\ i # 0
    BY <1>1
  <2>2. P[i] = F[<<i, P[i - 1]>>] /\ P[i - 1] \in Nat
    BY <1>4, <2>1 DEF IsRec
  <2> QED BY <1>3, <2>2
<1> QED BY <1>4, <1>5, <1>6 DEF Delays

LEMMA IsDelayExists ==
  ASSUME NEW q \in Seq(TdCells), NEW d \in [TdCells -> Nat]
  PROVE  \E g : IsDelay(g, q, d, 1 .. Len(q))
<1> DEFINE S == 1 .. Len(q)
           pick == [T \in SUBSET S |-> Max(T)]
           F == [x \in S \X Nat |-> x[2] + d[q[x[1]]]]
<1>1. /\ Len(q) \in Nat /\ \A i \in S : q[i] \in TdCells /\ d[q[i]] \in Nat
      /\ IsFiniteSet(S) /\ S \subseteq Nat
  <2>1. Len(q) \in Nat /\ \A i \in S : q[i] \in TdCells /\ d[q[i]] \in Nat
    OBVIOUS
  <2>2. IsFiniteSet(S) /\ S \subseteq Nat
    BY <2>1, FS_Interval
  <2> QED BY <2>1, <2>2
<1>2. F \in [S \X Nat -> Nat]
  BY <1>1
<1>3. \A i \in S, v \in Nat : F[<<i, v>>] = v + d[q[i]]
  OBVIOUS
<1> HIDE DEF F
<1>4. ASSUME NEW T \in SUBSET S, T # {} PROVE pick[T] \in T /\ pick[T] = Max(T)
  <2> HIDE DEF S
  <2>1. IsFiniteSet(T) /\ T \subseteq Nat
    BY <1>1, FS_Subset
  <2>2. \E n \in T : \A m \in T : n >= m
    BY <2>1, <1>4, GreatestNat
  <2> QED BY <2>2 DEF Max
<1> HIDE DEF pick
<1>5. PICK g \in [SUBSET S -> Nat] : IsFolded(g, S, 0, pick, F)
  <2> HIDE DEF S
  <2>1. \A T \in SUBSET S : T # {} => pick[T] \in T
    BY <1>4
  <2>2. 0 \in Nat
    OBVIOUS
  <2>3. PICK p : p = pick
    OBVIOUS
  <2>4. PICK E : E = F
    OBVIOUS
  <2>5. PICK R : R = S
    OBVIOUS
  <2>6. IsFiniteSet(R) /\ E \in [R \X Nat -> Nat] /\ \A T \in SUBSET R : T # {} => p[T] \in T
    BY <1>1, <1>2, <2>1, <2>3, <2>4, <2>5
  <2>7. \E g \in [SUBSET R -> Nat] : IsFolded(g, R, 0, p, E)
    BY <2>2, <2>6, SubsetsExist
  <2> QED BY <2>3, <2>4, <2>5, <2>7
<1>6. ASSUME NEW T \in SUBSET S
      PROVE  Folded(g, 0, pick, F, T)
               = IF T = {} THEN 0 ELSE g[T \ {Max(T)}] + d[q[Max(T)]]
  <2>1. CASE T = {}
    BY <2>1 DEF Folded
  <2>2. CASE T # {}
    <3>1. pick[T] = Max(T) /\ Max(T) \in S
      BY <1>4, <2>2
    <3>2. T \ {Max(T)} \in SUBSET S
      OBVIOUS
    <3>3. g[T \ {Max(T)}] \in Nat
      <4> HIDE DEF S
      <4> QED BY <1>5, <3>2
    <3> QED BY <1>3, <2>2, <3>1, <3>3 DEF Folded
  <2> QED BY <2>1, <2>2
<1>7. IsDelay(g, q, d, S)
  <2> HIDE DEF S
  <2>1. g = [T \in SUBSET S |-> IF T = {} THEN 0 ELSE g[T \ {Max(T)}] + d[q[Max(T)]]]
    BY <1>5, <1>6 DEF IsFolded
  <2> QED BY <2>1 DEF IsDelay
<1> QED BY <1>7

LEMMA DelayIs ==
  ASSUME NEW P, tdQueue \in Seq(TdCells), t_delta \in [TdCells -> Nat],
         Delays(P, tdQueue, t_delta), NEW i \in 0 .. Len(tdQueue)
  PROVE  Delay(i) = P[i]
<1>1. PICK q : q = SubSeq(tdQueue, 1, i)
  OBVIOUS
<1>2. /\ q \in Seq(TdCells) /\ Len(q) = i /\ DOMAIN q = 1 .. i /\ i \in Nat
      /\ \A j \in 1 .. i : q[j] = tdQueue[j]
  BY <1>1
<1>3. PICK g : IsDelay(g, q, t_delta, 1 .. i) /\ Delay(i) = g[1 .. i]
  <2>1. \E g : IsDelay(g, q, t_delta, 1 .. i)
    BY <1>2, IsDelayExists
  <2>2. Delay(i) = (CHOOSE g : IsDelay(g, q, t_delta, 1 .. i))[1 .. i]
    BY <1>1, <1>2, DelayDef
  <2> QED BY <2>1, <2>2
<1> DEFINE G == {j \in 0 .. i : g[1 .. j] = P[j]}
<1>4. 0 \in G
  <2>1. 1 .. 0 = {} /\ {} \in SUBSET (1 .. i)
    OBVIOUS
  <2>2. g[{}] = 0
    BY <1>3, <2>1 DEF IsDelay
  <2>3. g[1 .. 0] = P[0]
    BY <2>1, <2>2 DEF Delays
  <2>4. i \in Nat
    BY <1>2
  <2>5. 0 \in 0 .. i
    BY <2>4
  <2> QED BY <2>3, <2>5
<1>5. ASSUME NEW j \in 1 .. i, j - 1 \in G PROVE j \in G
  <2>1. j \in Nat \ {0} /\ 1 .. j \in SUBSET (1 .. i) /\ 1 .. j # {}
    BY <1>2
  <2>2. g[1 .. j] = g[1 .. j - 1] + t_delta[q[j]]
    <3>1. Max(1 .. j) = j /\ (1 .. j) \ {j} = 1 .. j - 1
      BY <2>1, MaxIs
    <3>2. PICK T : T = 1 .. j
      OBVIOUS
    <3>3. g[T] = g[T \ {Max(T)}] + t_delta[q[Max(T)]]
      BY <1>3, <2>1, <3>2 DEF IsDelay
    <3> QED BY <3>1, <3>2, <3>3
  <2>3. P[j] = P[j - 1] + t_delta[tdQueue[j]]
    <3>1. j \in 1 .. Len(tdQueue)
      BY <1>2
    <3> QED BY <3>1 DEF Delays
  <2>4. j \in 0 .. i
    BY <1>2
  <2> QED BY <1>2, <1>5, <2>2, <2>3, <2>4
<1>6. \A j \in 0 .. i : j \in G
  <2> HIDE DEF G
  <2> QED BY <1>2, <1>4, <1>5, Upwards
<1> QED BY <1>2, <1>3, <1>6

\* The further back, the later.
LEMMA DelaysGrow ==
  ASSUME NEW q \in Seq(TdCells), NEW d \in [TdCells -> Nat], NEW P, Delays(P, q, d),
         NEW j \in 0 .. Len(q), NEW i \in 0 .. j
  PROVE  P[i] <= P[j]
<1>1. PICK L \in Nat : L = Len(q)
  OBVIOUS
<1>2. P \in [0 .. L -> Nat] /\ \A m \in 1 .. L : P[m] = P[m - 1] + d[q[m]] /\ d[q[m]] \in Nat
  BY <1>1 DEF Delays
<1>3. i \in 0 .. L /\ j \in 0 .. L /\ i <= j
  BY <1>1
<1> DEFINE G == {m \in 0 .. L : m < i \/ P[i] <= P[m]}
<1>4. 0 \in G
  BY <1>2, <1>3
<1>5. ASSUME NEW m \in 1 .. L, m - 1 \in G PROVE m \in G
  <2>1. m \in 0 .. L /\ m - 1 \in 0 .. L
    OBVIOUS
  <2>2. P[m] \in Nat /\ P[m - 1] \in Nat /\ P[i] \in Nat /\ P[m] >= P[m - 1]
    <3>1. P[m] \in Nat /\ P[m - 1] \in Nat /\ P[i] \in Nat
      BY <1>2, <1>3, <2>1
    <3>2. P[m] = P[m - 1] + d[q[m]] /\ d[q[m]] \in Nat
      BY <1>2
    <3> QED BY <3>1, <3>2
  <2>3. m - 1 < i => m < i \/ m = i
    BY <1>3
  <2>4. m < i \/ P[i] <= P[m]
    BY <1>5, <2>2, <2>3
  <2> QED BY <2>1, <2>4
<1>6. j \in G
  <2> HIDE DEF G
  <2> QED BY <1>3, <1>4, <1>5, Upwards
<1> QED BY <1>3, <1>6

\* A queue of cells, each in it once, the first e of them expired.
CellQueue(q, e) ==
  /\ q \in Seq(TdCells) /\ e \in 0 .. Len(q)
  /\ \A i, j \in 1 .. Len(q) : q[i] = q[j] => i = j

\* The queue keeps time: P are the ticks to each of its places.
Timed(P, q, e, d, ticket, due, now) ==
  /\ Delays(P, q, d)
  /\ \A i \in 0 .. Len(q) : i <= e <=> P[i] = 0
  /\ \A i \in 1 .. Len(q) : ticket[q[i]] = 0 =>
       IF i <= e THEN due[q[i]] <= now ELSE due[q[i]] = now + P[i]

\* c comes to the place i of the queue.
Put(q, r, c, i) ==
  /\ Len(r) = Len(q) + 1 /\ r[i] = c
  /\ \A j \in 1 .. i - 1 : r[j] = q[j]
  /\ \A j \in i + 1 .. Len(q) + 1 : r[j] = q[j - 1]

LEMMA PutIs ==
  ASSUME NEW e, NEW q, CellQueue(q, e), NEW c \in TdCells, NEW i \in 1 .. Len(q) + 1, e < i,
         \A j \in 1 .. Len(q) : q[j] # c
  PROVE  Put(q, InsertAt(q, i, c), c, i) /\ CellQueue(InsertAt(q, i, c), e)
<1>1. PICK a : a = SubSeq(q, 1, i - 1)
  OBVIOUS
<1>2. PICK b : b = SubSeq(q, i, Len(q))
  OBVIOUS
<1>3. q \in Seq(TdCells) /\ Len(q) \in Nat
  BY DEF CellQueue
<1>4. a \in Seq(TdCells) /\ Len(a) = i - 1 /\ \A j \in 1 .. i - 1 : a[j] = q[j]
  BY <1>1, <1>3
<1>5. b \in Seq(TdCells) /\ Len(b) = Len(q) - i + 1 /\ \A j \in 1 .. Len(b) : b[j] = q[i + j - 1]
  BY <1>2, <1>3
<1>6. PICK h : h = a \o <<c>>
  OBVIOUS
<1>7. /\ h \in Seq(TdCells) /\ Len(h) = i /\ h[i] = c
      /\ \A j \in 1 .. i - 1 : h[j] = q[j]
  BY <1>4, <1>6
<1>8. PICK r : r = h \o b
  OBVIOUS
<1>9. r = InsertAt(q, i, c)
  BY <1>1, <1>2, <1>6, <1>8 DEF InsertAt
<1>10. r \in Seq(TdCells) /\ Len(r) = Len(q) + 1 /\ r[i] = c
  <2>1. r \in Seq(TdCells) /\ Len(r) = Len(h) + Len(b)
    <3>1. h \in Seq(TdCells) /\ b \in Seq(TdCells)
      BY <1>5, <1>7
    <3> QED BY <1>8, <3>1
  <2>2. i \in 1 .. Len(h)
    BY <1>3, <1>7
  <2>3. r[i] = h[i]
    BY <1>5, <1>7, <1>8, <2>2
  <2> QED BY <1>3, <1>5, <1>7, <2>1, <2>3
<1>11. ASSUME NEW j \in 1 .. i - 1 PROVE r[j] = q[j]
  <2>1. j \in 1 .. Len(h) /\ h[j] = q[j]
    BY <1>3, <1>7
  <2> QED BY <1>5, <1>7, <1>8, <2>1
<1>12. ASSUME NEW j \in i + 1 .. Len(q) + 1 PROVE r[j] = q[j - 1]
  <2>1. r[j] = b[j - i] /\ j - i \in 1 .. Len(b)
    BY <1>3, <1>5, <1>7, <1>8
  <2> QED BY <1>3, <1>5, <2>1
<1>13. Put(q, r, c, i)
  BY <1>10, <1>11, <1>12 DEF Put
<1>14. CellQueue(r, e)
  <2>1. PICK n \in Nat : n = Len(q)
    BY <1>3
  <2>2. ASSUME NEW j \in 1 .. n + 1
        PROVE  \/ j = i /\ r[j] = c
               \/ j < i /\ j \in 1 .. n /\ r[j] = q[j]
               \/ j > i /\ j - 1 \in 1 .. n /\ r[j] = q[j - 1]
    BY <2>1, <1>13 DEF Put
  <2>3. \A j, k \in 1 .. n : q[j] = q[k] => j = k
    BY <2>1 DEF CellQueue
  <2>4. \A j, k \in 1 .. n + 1 : r[j] = r[k] => j = k
    BY <2>1, <2>2, <2>3
  <2>5. e \in 0 .. n + 1
    BY <2>1 DEF CellQueue
  <2> QED BY <1>10, <2>1, <2>4, <2>5 DEF CellQueue
<1> QED BY <1>9, <1>13, <1>14

\* The place i is where a cell belongs that is t ticks away.
Fits(P, q, e, i, t) ==
  /\ i \in 1 .. Len(q) + 1 /\ e < i /\ P[i - 1] <= t
  /\ i <= Len(q) => t < P[i]

\* The deltas once c is there, and when it is due.
Spliced(P, q, i, t, c, d, d2) ==
  /\ d2[c] = t - P[i - 1]
  /\ i <= Len(q) => d2[q[i]] = P[i] - t
  /\ \A j \in 1 .. Len(q) : j # i => d2[q[j]] = d[q[j]]

DueAt(q, c, at, due, due2) ==
  due2[c] = at /\ \A j \in 1 .. Len(q) : due2[q[j]] = due[q[j]] /\ q[j] # c

LEMMA TimedPut ==
  ASSUME NEW e, NEW q, CellQueue(q, e), NEW r, NEW c \in TdCells, NEW i, NEW P, NEW t \in Nat, t > 0,
         Fits(P, q, e, i, t), Put(q, r, c, i),
         NEW d, NEW ticket, NEW due, NEW now, Timed(P, q, e, d, ticket, due, now),
         NEW d2, Spliced(P, q, i, t, c, d, d2), NEW due2, DueAt(q, c, now + t, due, due2)
  PROVE  \E R : Timed(R, r, e, d2, ticket, due2, now)
<1>0. /\ i \in 1 .. Len(q) + 1 /\ e < i /\ P[i - 1] <= t
      /\ i <= Len(q) => t < P[i]
      /\ d2[c] = t - P[i - 1]
      /\ i <= Len(q) => d2[q[i]] = P[i] - t
      /\ \A j \in 1 .. Len(q) : j # i => d2[q[j]] = d[q[j]]
      /\ due2[c] = now + t /\ \A j \in 1 .. Len(q) : due2[q[j]] = due[q[j]] /\ q[j] # c
  BY DEF Fits, Spliced, DueAt
<1>1. PICK n \in Nat : n = Len(q) /\ Len(r) = n + 1
  BY DEF CellQueue, Put
<1> DEFINE R == [j \in 0 .. n + 1 |-> IF j < i THEN P[j] ELSE IF j = i THEN t ELSE P[j - 1]]
<1>2. /\ P \in [0 .. n -> Nat] /\ P[0] = 0 /\ i \in 1 .. n + 1 /\ e \in 0 .. n
      /\ \A j \in 1 .. n : P[j] = P[j - 1] + d[q[j]]
      /\ \A j \in 0 .. n : j <= e <=> P[j] = 0
  BY <1>0, <1>1 DEF Timed, Delays, CellQueue
<1>3. \A j \in 0 .. n : P[j] \in Nat
  BY <1>0, <1>2
<1>4. /\ r[i] = c
      /\ \A j \in 1 .. n + 1 : j < i => r[j] = q[j] /\ j \in 1 .. n
      /\ \A j \in 1 .. n + 1 : j > i => r[j] = q[j - 1] /\ j - 1 \in 1 .. n
  <2>1. r[i] = c /\ i \in Nat /\ i <= n + 1 /\ i > 0
    BY <1>2 DEF Put
  <2>2. ASSUME NEW j \in 1 .. n + 1, j < i PROVE r[j] = q[j] /\ j \in 1 .. n
    <3>1. j \in 1 .. i - 1 /\ j \in 1 .. n
      BY <2>1, <2>2
    <3> QED BY <3>1 DEF Put
  <2>3. ASSUME NEW j \in 1 .. n + 1, j > i PROVE r[j] = q[j - 1] /\ j - 1 \in 1 .. n
    <3>1. j \in i + 1 .. n + 1 /\ j - 1 \in 1 .. n
      BY <2>1, <2>3
    <3> QED BY <1>1, <3>1 DEF Put
  <2> QED BY <2>1, <2>2, <2>3
<1>5. R \in [0 .. n + 1 -> Nat] /\ R[0] = 0
  BY SMTT(30), <1>0, <1>2, <1>3
<1>R. \A j \in 0 .. n + 1 : /\ j < i => R[j] = P[j]
                            /\ j = i => R[j] = t
                            /\ j > i => R[j] = P[j - 1]
  BY <1>0, <1>2
<1> HIDE DEF R
<1>6. ASSUME NEW j \in 1 .. n + 1 PROVE R[j] = R[j - 1] + d2[r[j]]
  <2>1. j \in 0 .. n + 1 /\ j - 1 \in 0 .. n + 1
    OBVIOUS
  <2>2. CASE j < i
    <3>1. R[j] = P[j] /\ R[j - 1] = P[j - 1]
      BY SMTT(30), <1>0, <1>2, <1>R, <2>1, <2>2
    <3>2. r[j] = q[j] /\ j \in 1 .. n /\ d2[q[j]] = d[q[j]]
      BY <1>0, <1>1, <1>4, <2>2
    <3> QED BY <1>0, <1>2, <3>1, <3>2
  <2>3. CASE j = i
    <3>1. R[j] = t /\ R[j - 1] = P[i - 1] /\ P[i - 1] \in Nat
      BY <1>0, <1>2, <1>3, <1>R, <2>1, <2>3
    <3>2. d2[r[j]] = t - P[i - 1]
      BY <1>0, <1>4, <2>3
    <3> QED BY <3>1, <3>2
  <2>4. CASE j = i + 1
    <3>1. R[j] = P[i] /\ R[j - 1] = t /\ i \in 1 .. n /\ P[i] \in Nat
      BY SMTT(30), <1>0, <1>2, <1>3, <1>R, <2>1, <2>4
    <3>2. d2[r[j]] = P[i] - t
      BY SMTT(30), <1>0, <1>1, <1>2, <1>4, <2>4, <3>1
    <3> QED BY <3>1, <3>2
  <2>5. CASE j > i + 1
    <3>5. j > i /\ j - 1 > i /\ j - 1 \in 1 .. n
      BY <1>0, <1>2, <2>5
    <3>1. R[j] = P[j - 1] /\ R[j - 1] = P[j - 1 - 1] /\ j - 1 \in 1 .. n
      BY <1>R, <2>1, <3>5
    <3>2. r[j] = q[j - 1] /\ d2[q[j - 1]] = d[q[j - 1]]
      BY <1>0, <1>1, <1>2, <1>4, <2>5, <3>1
    <3>3. \A k \in 1 .. n : P[k] = P[k - 1] + d[q[k]]
      BY <1>0, <1>2
    <3>4. P[j - 1] = P[j - 1 - 1] + d[q[j - 1]]
      BY <3>1, <3>3
    <3> QED BY <3>1, <3>2, <3>4
  <2> QED BY <1>0, <1>2, <2>2, <2>3, <2>4, <2>5
<1>7. ASSUME NEW j \in 0 .. n + 1 PROVE j <= e <=> R[j] = 0
  <2>1. CASE j < i
    <3>1. R[j] = P[j] /\ j \in 0 .. n
      BY <1>0, <1>2, <1>R, <2>1
    <3> QED BY <1>0, <1>2, <3>1
  <2>2. CASE j = i
    <3>1. R[j] = t
      BY <1>R, <2>2
    <3> QED BY <1>0, <1>2, <2>2, <3>1
  <2>3. CASE j > i
    <3>1. R[j] = P[j - 1]
      BY <1>R, <2>3
    <3>2. j - 1 \in 0 .. n /\ ~ (j - 1 <= e) /\ ~ (j <= e)
      BY SMTT(30), <1>0, <1>2, <2>3
    <3>3. ~ (P[j - 1] = 0)
      BY <1>0, <1>2, <3>2
    <3> QED BY <3>1, <3>2, <3>3
  <2> QED BY <1>0, <1>2, <2>1, <2>2, <2>3
<1>8. ASSUME NEW j \in 1 .. n + 1, ticket[r[j]] = 0
      PROVE  IF j <= e THEN due2[r[j]] <= now ELSE due2[r[j]] = now + R[j]
  <2>0. \A k \in 1 .. n : ticket[q[k]] = 0 =>
             IF k <= e THEN due[q[k]] <= now ELSE due[q[k]] = now + P[k]
    BY <1>1 DEF Timed
  <2>1. CASE j < i
    <3>1. R[j] = P[j] /\ j \in 1 .. n /\ r[j] = q[j] /\ due2[r[j]] = due[q[j]]
      BY <1>0, <1>1, <1>2, <1>4, <1>R, <2>1
    <3> QED BY <1>8, <2>0, <3>1
  <2>2. CASE j = i
    <3>1. R[j] = t /\ r[j] = c /\ ~ (j <= e)
      BY <1>0, <1>2, <1>4, <1>R, <2>2
    <3>2. due2[r[j]] = now + R[j]
      BY <1>0, <3>1
    <3> QED BY <3>1, <3>2
  <2>3. CASE j > i
    <3>1. R[j] = P[j - 1]
      BY <1>R, <2>3
    <3>2. ~ (j - 1 <= e) /\ ~ (j <= e)
      BY SMTT(30), <1>0, <1>2, <2>3
    <3>3. j - 1 \in 1 .. n /\ r[j] = q[j - 1]
      BY <1>0, <1>4, <2>3
    <3>4. due2[r[j]] = due[q[j - 1]]
      BY <1>0, <1>1, <3>3
    <3> QED BY <1>8, <2>0, <3>1, <3>2, <3>3, <3>4
  <2> QED BY <1>0, <1>2, <2>1, <2>2, <2>3
<1>9. Delays(R, r, d2)
  BY <1>0, <1>1, <1>5, <1>6 DEF Delays
<1>10. Timed(R, r, e, d2, ticket, due2, now)
  BY <1>0, <1>1, <1>7, <1>8, <1>9 DEF Timed
<1> QED BY <1>10

\* c moves from the place i to the front.
Fronted(q, r, i) ==
  /\ Len(r) = Len(q) /\ r[1] = q[i]
  /\ \A j \in 2 .. i : r[j] = q[j - 1]
  /\ \A j \in i + 1 .. Len(q) : r[j] = q[j]

LEMMA FrontedIs ==
  ASSUME NEW e, NEW q, CellQueue(q, e), NEW i \in 1 .. Len(q), NEW f \in 0 .. Len(q)
  PROVE  Fronted(q, <<q[i]>> \o RemoveAt(q, i), i) /\ CellQueue(<<q[i]>> \o RemoveAt(q, i), f)
<1>1. PICK a : a = SubSeq(q, 1, i - 1)
  OBVIOUS
<1>2. PICK b : b = SubSeq(q, i + 1, Len(q))
  OBVIOUS
<1>3. q \in Seq(TdCells) /\ Len(q) \in Nat /\ q[i] \in TdCells
  BY DEF CellQueue
<1>4. a \in Seq(TdCells) /\ Len(a) = i - 1 /\ \A j \in 1 .. i - 1 : a[j] = q[j]
  BY <1>1, <1>3
<1>5. b \in Seq(TdCells) /\ Len(b) = Len(q) - i /\ \A j \in 1 .. Len(b) : b[j] = q[i + j]
  BY <1>2, <1>3
<1>6. PICK h : h = a \o b
  OBVIOUS
<1>7. /\ h \in Seq(TdCells) /\ Len(h) = Len(q) - 1
      /\ \A j \in 1 .. i - 1 : h[j] = q[j]
  BY <1>3, <1>4, <1>5, <1>6
<1>8. ASSUME NEW j \in i .. Len(q) - 1 PROVE h[j] = q[j + 1]
  <2>1. h[j] = b[j - i + 1] /\ j - i + 1 \in 1 .. Len(b)
    BY <1>3, <1>4, <1>5, <1>6
  <2>2. b[j - i + 1] = q[i + (j - i + 1)]
    BY <1>5, <2>1
  <2>3. i + (j - i + 1) = j + 1
    OBVIOUS
  <2> QED BY <2>1, <2>2, <2>3
<1>9. PICK r : r = <<q[i]>> \o h
  OBVIOUS
<1>10. h = RemoveAt(q, i) /\ r = <<q[i]>> \o RemoveAt(q, i)
  BY <1>1, <1>2, <1>6, <1>9 DEF RemoveAt
<1>11. /\ r \in Seq(TdCells) /\ Len(r) = Len(q) /\ r[1] = q[i]
       /\ \A j \in 2 .. Len(q) : r[j] = h[j - 1]
  BY <1>3, <1>7, <1>9
<1>12. \A j \in 2 .. i : r[j] = q[j - 1]
  <2> TAKE j \in 2 .. i
  <2>1. j \in 2 .. Len(q) /\ j - 1 \in 1 .. i - 1
    BY <1>3
  <2> QED BY <1>7, <1>11, <2>1
<1>13. \A j \in i + 1 .. Len(q) : r[j] = q[j]
  <2> TAKE j \in i + 1 .. Len(q)
  <2>1. j \in 2 .. Len(q) /\ j - 1 \in i .. Len(q) - 1 /\ j - 1 + 1 = j
    BY <1>3
  <2> QED BY <1>8, <1>11, <2>1
<1>14. Fronted(q, r, i)
  BY <1>11, <1>12, <1>13 DEF Fronted
<1>15. CellQueue(r, f)
  <2>1. PICK n \in Nat : n = Len(q)
    BY <1>3
  <2>2. ASSUME NEW j \in 1 .. n
        PROVE  \/ j = 1 /\ r[j] = q[i]
               \/ j > 1 /\ j <= i /\ j - 1 \in 1 .. n /\ r[j] = q[j - 1]
               \/ j > i /\ r[j] = q[j]
    BY <2>1, <1>14 DEF Fronted
  <2>3. \A j, k \in 1 .. n : q[j] = q[k] => j = k
    BY <2>1 DEF CellQueue
  <2>4. i \in 1 .. n
    BY <2>1
  <2>5. ASSUME NEW j \in 1 .. n, NEW k \in 1 .. n, r[j] = r[k] PROVE j = k
    BY <2>2, <2>3, <2>4, <2>5
  <2> QED BY <1>11, <2>1, <2>5 DEF CellQueue
<1> QED BY <1>10, <1>14, <1>15

\* Its delta passes on to the one behind it, and it is cancelled.
Passed(q, i, d, d2) ==
  /\ d2[q[i]] = 0
  /\ i < Len(q) => d2[q[i + 1]] = d[q[i + 1]] + d[q[i]]
  /\ \A j \in 1 .. Len(q) : d[q[j]] \in Nat /\ (j # i /\ j # i + 1 => d2[q[j]] = d[q[j]])

Given(q, i, ticket, ticket2) ==
  ticket2[q[i]] # 0 /\ \A j \in 1 .. Len(q) : j # i => ticket2[q[j]] = ticket[q[j]]

LEMMA TimedFronted ==
  ASSUME NEW e, NEW q, CellQueue(q, e), NEW r, NEW i \in 2 .. Len(q), Fronted(q, r, i),
         NEW P, NEW d, NEW ticket, NEW due, NEW now, Timed(P, q, e, d, ticket, due, now),
         NEW f, f = IF i > e THEN e + 1 ELSE e,
         NEW d2, Passed(q, i, d, d2), NEW ticket2, Given(q, i, ticket, ticket2)
  PROVE  \E R : Timed(R, r, f, d2, ticket2, due, now)
<1>0. /\ d2[q[i]] = 0
      /\ i < Len(q) => d2[q[i + 1]] = d[q[i + 1]] + d[q[i]]
      /\ \A j \in 1 .. Len(q) : j # i /\ j # i + 1 => d2[q[j]] = d[q[j]]
      /\ \A j \in 1 .. Len(q) : d[q[j]] \in Nat
      /\ ticket2[q[i]] # 0
      /\ \A j \in 1 .. Len(q) : j # i => ticket2[q[j]] = ticket[q[j]]
  BY DEF Passed, Given
<1>1. PICK n \in Nat : n = Len(q) /\ Len(r) = n
  BY DEF CellQueue, Fronted
<1> DEFINE R == [j \in 0 .. n |-> IF j = 0 THEN 0 ELSE IF j <= i THEN P[j - 1] ELSE P[j]]
<1>2. /\ P \in [0 .. n -> Nat] /\ P[0] = 0 /\ i \in 2 .. n /\ e \in 0 .. n
      /\ \A j \in 1 .. n : P[j] = P[j - 1] + d[q[j]]
      /\ \A j \in 0 .. n : j <= e <=> P[j] = 0
  BY <1>1 DEF Timed, Delays, CellQueue
<1>3. \A j \in 0 .. n : P[j] \in Nat
  BY <1>0, <1>2
<1>4. /\ r[1] = q[i]
      /\ \A j \in 1 .. n : 1 < j /\ j <= i => r[j] = q[j - 1] /\ j - 1 \in 1 .. n
      /\ \A j \in 1 .. n : j > i => r[j] = q[j]
  BY <1>0, <1>1, <1>2 DEF Fronted
<1>5. R \in [0 .. n -> Nat] /\ R[0] = 0
  BY <1>2, <1>3
<1>R. \A j \in 0 .. n : /\ j = 0 => R[j] = 0
                        /\ 0 < j /\ j <= i => R[j] = P[j - 1]
                        /\ j > i => R[j] = P[j]
  BY <1>0, <1>2
<1>T. i \in Nat /\ e \in Nat /\ 2 <= i /\ i <= n /\ e <= n
  BY <1>0, <1>2
<1>P. \A j \in 1 .. n : P[j] = P[j - 1] + d[q[j]]
  BY <1>0, <1>2
<1> HIDE DEF R
<1>6. ASSUME NEW j \in 1 .. n PROVE R[j] = R[j - 1] + d2[r[j]]
  <2>1. j \in 0 .. n /\ j - 1 \in 0 .. n
    OBVIOUS
  <2>2. CASE j = 1
    <3>1. R[j] = 0 /\ R[j - 1] = 0
      <4>1. 0 < j /\ j <= i /\ j - 1 = 0
        BY <1>T, <2>2
      <4> QED BY <1>0, <1>2, <1>R, <2>1, <4>1
    <3> QED BY <1>0, <1>4, <2>2, <3>1
  <2>3. CASE 1 < j /\ j <= i
    <3>1. j - 1 \in 1 .. n /\ j - 1 < i
      BY <1>0, <1>2, <2>3
    <3>4. R[j] = P[j - 1] /\ R[j - 1] = P[j - 1 - 1]
      BY <1>R, <2>1, <2>3, <3>1
    <3>2. r[j] = q[j - 1] /\ d2[q[j - 1]] = d[q[j - 1]]
      BY <1>0, <1>1, <1>2, <1>4, <2>3, <3>1
    <3>3. P[j - 1] = P[j - 1 - 1] + d[q[j - 1]]
      BY <1>P, <3>1
    <3> QED BY <3>2, <3>3, <3>4
  <2>4. CASE j = i + 1
    <3>1. i \in 1 .. n /\ i + 1 \in 1 .. n
      BY <1>0, <1>2, <2>4
    <3>6. R[j] = P[i + 1] /\ R[j - 1] = P[i - 1]
      BY <1>R, <2>1, <2>4, <3>1
    <3>2. d2[r[j]] = d[q[i + 1]] + d[q[i]]
      BY <1>0, <1>1, <1>2, <1>4, <2>4
    <3>3. P[i + 1] = P[i] + d[q[i + 1]] /\ P[i] = P[i - 1] + d[q[i]]
      <4>1. P[i + 1] = P[i + 1 - 1] + d[q[i + 1]] /\ i + 1 - 1 = i
        BY <1>P, <3>1
      <4>2. P[i] = P[i - 1] + d[q[i]]
        BY <1>P, <3>1
      <4> QED BY <4>1, <4>2
    <3>4. P[i + 1] \in Nat /\ P[i] \in Nat /\ P[i - 1] \in Nat
      <4>1. i + 1 \in 0 .. n /\ i \in 0 .. n /\ i - 1 \in 0 .. n
        BY <1>T, <3>1
      <4> QED BY <1>0, <1>3, <4>1
    <3>5. d[q[i]] \in Nat /\ d[q[i + 1]] \in Nat
      BY <1>0, <1>1, <1>2, <3>1
    <3>7. R[j] = R[j - 1] + (d[q[i + 1]] + d[q[i]])
      <4>1. PICK x \in Nat, y \in Nat, z \in Nat : x = d[q[i + 1]] /\ y = d[q[i]] /\ z = P[i - 1]
        BY <3>4, <3>5
      <4> QED BY SMTT(30), <3>3, <3>6, <4>1
    <3> QED BY <3>2, <3>7
  <2>5. CASE j > i + 1
    <3>1. R[j] = P[j] /\ R[j - 1] = P[j - 1]
      <4>1. j > i /\ j - 1 > i
        BY <1>T, <2>5
      <4> QED BY <1>R, <2>1, <4>1
    <3>3. r[j] = q[j]
      BY <1>0, <1>2, <1>4, <2>5
    <3>2. d2[q[j]] = d[q[j]]
      BY <1>0, <1>1, <1>2, <2>5
    <3> QED BY <1>P, <3>1, <3>2, <3>3
  <2> QED BY <1>0, <1>2, <2>2, <2>3, <2>4, <2>5
<1>7. ASSUME NEW j \in 0 .. n PROVE j <= f <=> R[j] = 0
  <2>1. CASE j = 0
    BY <1>0, <1>2, <1>R, <2>1
  <2>2. CASE 0 < j /\ j <= i
    <3>1. R[j] = P[j - 1] /\ j - 1 \in 0 .. n
      BY <1>0, <1>2, <1>R, <2>2
    <3>2. j <= f <=> j - 1 <= e
      BY <1>T, <2>2
    <3> QED BY <1>0, <1>2, <3>1, <3>2
  <2>3. CASE j > i
    <3>3. R[j] = P[j]
      BY <1>R, <2>3
    <3>1. j <= f <=> j <= e
      BY <1>T, <2>3
    <3> QED BY <1>2, <3>1, <3>3
  <2> QED BY <1>0, <1>2, <2>1, <2>2, <2>3
<1>8. ASSUME NEW j \in 1 .. n, ticket2[r[j]] = 0
      PROVE  IF j <= f THEN due[r[j]] <= now ELSE due[r[j]] = now + R[j]
  <2>0. \A k \in 1 .. n : ticket[q[k]] = 0 =>
             IF k <= e THEN due[q[k]] <= now ELSE due[q[k]] = now + P[k]
    BY <1>1 DEF Timed
  <2>1. j # 1
    BY <1>0, <1>4, <1>8
  <2>2. CASE j <= i
    <3>1. R[j] = P[j - 1] /\ j - 1 \in 1 .. n /\ r[j] = q[j - 1] /\ j - 1 # i
          /\ (j <= f <=> j - 1 <= e)
      <4>1. R[j] = P[j - 1]
        BY <1>R, <2>1, <2>2
      <4>2. j - 1 \in 1 .. n /\ r[j] = q[j - 1]
        BY <1>0, <1>4, <2>1, <2>2
      <4>3. j - 1 # i /\ (j <= f <=> j - 1 <= e)
        BY <1>T, <2>1, <2>2
      <4> QED BY <4>1, <4>2, <4>3
    <3>2. ticket[q[j - 1]] = 0
      BY <1>0, <1>1, <1>8, <3>1
    <3> QED BY <2>0, <3>1, <3>2
  <2>3. CASE j > i
    <3>1. R[j] = P[j] /\ r[j] = q[j] /\ (j <= f <=> j <= e)
      <4>1. j <= f <=> j <= e
        BY <1>T, <2>3
      <4>2. R[j] = P[j]
        BY <1>R, <2>3
      <4> QED BY <1>0, <1>4, <2>3, <4>1, <4>2
    <3>2. ticket[q[j]] = 0
      BY <1>0, <1>1, <1>2, <1>8, <2>3, <3>1
    <3> QED BY <2>0, <3>1, <3>2
  <2> QED BY <1>0, <1>2, <2>2, <2>3
<1>9. Delays(R, r, d2)
  BY <1>0, <1>1, <1>5, <1>6 DEF Delays
<1>10. Timed(R, r, f, d2, ticket2, due, now)
  BY <1>0, <1>1, <1>7, <1>8, <1>9 DEF Timed
<1> QED BY <1>10

\* The cells of the queue that a tick makes due.
Hits(q, e, d) == {j \in e + 1 .. Len(q) : \A i \in e + 1 .. j : d[q[i]] = 0}

\* The front of the queue up to f has expired.
Expired(q, e, f, hit, d, ticket, due, now) ==
  /\ f \in 0 .. Len(q) /\ f = e + Cardinality(hit) /\ e <= f /\ hit = e + 1 .. f
  /\ d \in [TdCells -> Nat]
  /\ \E R : Timed(R, q, f, d, ticket, due, now)

LEMMA TimedCounted ==
  ASSUME NEW e, NEW q, CellQueue(q, e), e < Len(q), NEW P, NEW d \in [TdCells -> Nat], NEW ticket,
         NEW due, NEW now \in Nat, Timed(P, q, e, d, ticket, due, now),
         \A c \in TdCells : due[c] \in Nat,
         NEW d2, d2 = [d EXCEPT ![q[e + 1]] = @ - 1], NEW hit,
         hit = Hits(q, e, d2)
  PROVE  \E f : Expired(q, e, f, hit, d2, ticket, due, now + 1)
<1>0. hit = {j \in e + 1 .. Len(q) : \A i \in e + 1 .. j : d2[q[i]] = 0}
  BY DEF Hits
<1>1. PICK n \in Nat : n = Len(q)
  BY DEF CellQueue
<1>2. /\ P \in [0 .. n -> Nat] /\ P[0] = 0 /\ e \in 0 .. n /\ e < n
      /\ \A j \in 1 .. n : P[j] = P[j - 1] + d[q[j]]
      /\ \A j \in 0 .. n : j <= e <=> P[j] = 0
      /\ \A j \in 1 .. n : q[j] \in TdCells
  BY <1>1 DEF Timed, Delays, CellQueue
<1>T. e \in Nat /\ e < n /\ e + 1 \in 1 .. n /\ e + 1 \in 0 .. n
  BY SMTT(30), <1>2
<1>3. \A j \in 0 .. n : P[j] \in Nat /\ (j > e => P[j] > 0)
  BY <1>2
<1>4. d[q[e + 1]] \in Nat /\ d[q[e + 1]] > 0
  <2>1. P[e + 1] = P[e + 1 - 1] + d[q[e + 1]] /\ e + 1 - 1 = e
    BY <1>2, <1>T
  <2>2. P[e] = 0 /\ P[e + 1] > 0 /\ d[q[e + 1]] \in Nat
    BY <1>2, <1>3, <1>T
  <2> QED BY <2>1, <2>2
<1>5. d2 \in [TdCells -> Nat]
  <2>1. d[q[e + 1]] - 1 \in Nat
    BY <1>4
  <2> QED BY <2>1
<1>6. /\ d2[q[e + 1]] = d[q[e + 1]] - 1
      /\ \A j \in 1 .. n : j # e + 1 => d2[q[j]] = d[q[j]]
  <2>1. \A j \in 1 .. n : j # e + 1 => q[j] # q[e + 1]
    BY <1>1, <1>T DEF CellQueue
  <2> QED BY <1>2, <1>T, <2>1
<1>7. \A j \in 1 .. n : d2[q[j]] \in Nat
  BY <1>2, <1>5
<1> DEFINE R == [j \in 0 .. n |-> IF j <= e THEN 0 ELSE P[j] - 1]
<1>8. /\ R \in [0 .. n -> Nat] /\ R[0] = 0
      /\ \A j \in 0 .. n : (j <= e => R[j] = 0) /\ (j > e => R[j] = P[j] - 1)
  BY <1>3, <1>T
<1> HIDE DEF R
<1>9. ASSUME NEW j \in 1 .. n PROVE R[j] = R[j - 1] + d2[q[j]]
  <2>1. j \in 0 .. n /\ j - 1 \in 0 .. n
    OBVIOUS
  <2>2. P[j] = P[j - 1] + d[q[j]] /\ P[j] \in Nat /\ P[j - 1] \in Nat
    BY <1>2, <1>3, <2>1
  <2>3. CASE j <= e
    <3>0. j - 1 <= e /\ j # e + 1
      BY <1>T, <2>3
    <3>1. P[j] = 0 /\ P[j - 1] = 0 /\ R[j] = 0 /\ R[j - 1] = 0 /\ j # e + 1 /\ d[q[j]] \in Nat
      <4>1. P[j] = 0 /\ P[j - 1] = 0
        BY <1>2, <2>1, <2>3, <3>0
      <4>2. R[j] = 0 /\ R[j - 1] = 0
        BY <1>8, <2>1, <2>3, <3>0
      <4>3. d[q[j]] \in Nat
        BY <1>2
      <4> QED BY <3>0, <4>1, <4>2, <4>3
    <3>2. d2[q[j]] = d[q[j]]
      BY <1>6, <3>1
    <3> QED BY <2>2, <3>1, <3>2
  <2>4. CASE j = e + 1
    <3>1. R[j] = P[j] - 1 /\ R[j - 1] = 0 /\ P[j - 1] = 0
      <4>1. j > e /\ j - 1 <= e
        BY <1>T, <2>4
      <4>2. R[j] = P[j] - 1 /\ R[j - 1] = 0
        BY <1>8, <2>1, <4>1
      <4>3. P[j - 1] = 0
        BY <1>2, <2>1, <4>1
      <4> QED BY <4>2, <4>3
    <3>2. d2[q[j]] = d[q[j]] - 1 /\ d[q[j]] \in Nat
      BY <1>4, <1>6, <2>4
    <3>3. P[j] = d[q[j]]
      BY <2>2, <3>1, <3>2
    <3>4. R[j] = d2[q[j]] /\ d2[q[j]] \in Int
      BY <3>1, <3>2, <3>3
    <3> QED BY <3>1, <3>4
  <2>5. CASE j > e + 1
    <3>1. R[j] = P[j] - 1 /\ R[j - 1] = P[j - 1] - 1
      <4>1. j > e /\ j - 1 > e
        BY <1>T, <2>5
      <4> QED BY <1>8, <2>1, <4>1
    <3>2. d2[q[j]] = d[q[j]] /\ d2[q[j]] \in Nat
      BY <1>6, <1>7, <1>T, <2>5
    <3>3. PICK x \in Nat, y \in Nat, z \in Nat : x = P[j] /\ y = P[j - 1] /\ z = d[q[j]]
      BY <2>2, <3>2
    <3>4. x = y + z
      BY <2>2, <3>3
    <3>5. R[j] = x - 1 /\ R[j - 1] = y - 1 /\ d2[q[j]] = z
      BY <3>1, <3>2, <3>3
    <3>6. x - 1 = (y - 1) + z
      BY <3>4
    <3> QED BY <3>5, <3>6
  <2> QED BY <1>T, <2>3, <2>4, <2>5
<1>10. Delays(R, q, d2)
  BY <1>1, <1>8, <1>9 DEF Delays
<1>11. ASSUME NEW j \in 0 .. n, NEW i \in 0 .. j PROVE R[i] <= R[j] /\ R[i] \in Nat /\ R[j] \in Nat
  <2>1. q \in Seq(TdCells) /\ j \in 0 .. Len(q) /\ i \in 0 .. n
    BY <1>1 DEF CellQueue
  <2>2. R[i] <= R[j]
    BY <1>5, <1>10, <2>1, DelaysGrow
  <2> QED BY <1>8, <2>1, <2>2
<1> DEFINE Z == {j \in 0 .. n : R[j] = 0}
<1>12. PICK m \in Z : \A j \in Z : m >= j
  <2>1. e \in Z
    BY <1>8, <1>T
  <2>2. IsFiniteSet(0 .. n) /\ Z \subseteq 0 .. n
    BY FS_Interval
  <2>3. IsFiniteSet(Z) /\ Z \subseteq Nat
    BY <2>2, FS_Subset
  <2> HIDE DEF Z
  <2> QED BY <2>1, <2>3, GreatestNat
<1>13. m \in 0 .. n /\ R[m] = 0 /\ e <= m
  BY <1>8, <1>12, <1>T
<1>14. \A j \in 0 .. n : j <= m <=> R[j] = 0
  <2> TAKE j \in 0 .. n
  <2>1. ASSUME j <= m PROVE R[j] = 0
    <3>1. j \in 0 .. m
      BY <1>13, <2>1
    <3>2. R[j] <= R[m] /\ R[j] \in Nat
      BY <1>11, <1>13, <3>1
    <3> QED BY <1>13, <3>2
  <2>2. R[j] = 0 => j <= m
    BY <1>12, <1>13
  <2> QED BY <2>1, <2>2
<1> HIDE DEF Z
<1>15. ASSUME NEW j \in e + 1 .. n PROVE j \in hit <=> j <= m
  <2>1. ASSUME j \in hit PROVE j <= m
    <3> DEFINE G == {i \in 0 .. j : R[i] = 0}
    <3>1. 0 \in G
      BY <1>8, <1>T
    <3>2. ASSUME NEW i \in 1 .. j, i - 1 \in G PROVE i \in G
      <4>1. i \in 1 .. n /\ i \in 0 .. n /\ i \in 0 .. j
        BY <1>T
      <4>2. CASE i <= e
        BY <1>8, <4>1, <4>2
      <4>3. CASE i > e
        <5>1. d2[q[i]] = 0
          <6>1. i \in e + 1 .. j
            BY <1>T, <4>1, <4>3
          <6>2. \A x \in e + 1 .. j : d2[q[x]] = 0
            BY <1>0, <2>1
          <6> QED BY <6>1, <6>2
        <5> QED BY <1>9, <3>2, <4>1, <5>1
      <4> QED BY <1>T, <4>1, <4>2, <4>3
    <3>3. j \in Nat
      BY <1>T
    <3>4. j \in G
      <4> HIDE DEF G
      <4>1. \A i \in 0 .. j : i \in G
        BY <3>1, <3>2, <3>3, Upwards
      <4> QED BY <3>3, <4>1
    <3>5. j \in 0 .. n
      BY <1>T
    <3> QED BY <1>14, <3>4, <3>5
  <2>2. ASSUME j <= m PROVE j \in hit
    <3>1. ASSUME NEW i \in e + 1 .. j PROVE d2[q[i]] = 0
      <4>1. i \in 1 .. n /\ i \in 0 .. n /\ i - 1 \in 0 .. n /\ i <= m /\ i - 1 <= m
        BY <1>13, <1>T, <2>2
      <4>2. R[i] = 0 /\ R[i - 1] = 0
        BY <1>14, <4>1
      <4>3. R[i] = R[i - 1] + d2[q[i]] /\ d2[q[i]] \in Nat
        BY <1>7, <1>9, <4>1
      <4> QED BY <4>2, <4>3
    <3> QED BY <1>0, <1>1, <3>1
  <2> QED BY <2>1, <2>2
<1>16. hit = e + 1 .. m
  <2>1. hit \subseteq e + 1 .. n
    BY <1>0, <1>1
  <2>2. e + 1 .. m \subseteq e + 1 .. n
    BY <1>13, <1>T
  <2>3. \A j \in e + 1 .. n : j \in e + 1 .. m <=> j <= m
    BY <1>13, <1>T
  <2> QED BY <1>15, <2>1, <2>2, <2>3
<1>17. m = e + Cardinality(hit)
  <2>1. e + 1 \in Int /\ m \in Int /\ m - e \in Nat
    BY <1>13, <1>T
  <2>2. Cardinality(e + 1 .. m) = IF e + 1 > m THEN 0 ELSE m - (e + 1) + 1
    BY <2>1, FS_Interval
  <2>3. Cardinality(e + 1 .. m) = m - e
    BY <1>13, <1>T, <2>1, <2>2
  <2>5. Cardinality(hit) = m - e
    BY <1>16, <2>3, Zenon
  <2>4. m = e + (m - e)
    BY <1>13, <1>T
  <2> QED BY <2>4, <2>5, Zenon
<1>18. ASSUME NEW j \in 1 .. n, ticket[q[j]] = 0
       PROVE  IF j <= m THEN due[q[j]] <= now + 1 ELSE due[q[j]] = now + 1 + R[j]
  <2>1. /\ j <= e => due[q[j]] <= now
        /\ ~ (j <= e) => due[q[j]] = now + P[j]
    BY <1>1, <1>18 DEF Timed
  <2>2. due[q[j]] \in Nat /\ j \in 0 .. n /\ P[j] \in Nat
    <3>1. q[j] \in TdCells /\ j \in 0 .. n
      BY <1>2
    <3> QED BY <1>3, <3>1
  <2>3. CASE j <= e
    <3>1. j <= m
      BY <1>13, <1>T, <2>3
    <3> QED BY <2>1, <2>2, <2>3, <3>1
  <2>4. CASE ~ (j <= e)
    <3>1. R[j] = P[j] - 1 /\ due[q[j]] = now + P[j]
      BY <1>8, <1>T, <2>1, <2>2, <2>4
    <3>2. j <= m => R[j] = 0
      BY <1>14, <2>2
    <3>3. PICK x \in Nat : x = P[j]
      BY <2>2
    <3>4. R[j] = x - 1 /\ due[q[j]] = now + x
      BY <3>1, <3>3
    <3>5. CASE j <= m
      <4>1. x = 1
        BY <3>2, <3>4, <3>5
      <4> QED BY <3>4, <3>5, <4>1
    <3>6. CASE ~ (j <= m)
      BY <3>4, <3>6
    <3> QED BY <3>5, <3>6
  <2> QED BY <2>3, <2>4
<1>19. Timed(R, q, m, d2, ticket, due, now + 1)
  BY <1>1, <1>10, <1>14, <1>18 DEF Timed
<1>20. Expired(q, e, m, hit, d2, ticket, due, now + 1)
  BY <1>1, <1>5, <1>13, <1>16, <1>17, <1>19 DEF Expired
<1> QED BY <1>20

\* The first n cells, expired all of them, leave the queue.
Dropped(q, r, n) ==
  /\ n \in 0 .. Len(q) /\ Len(r) = Len(q) - n
  /\ \A j \in 1 .. Len(q) - n : r[j] = q[j + n]

LEMMA DroppedIs ==
  ASSUME NEW e, NEW q, CellQueue(q, e), NEW n \in 0 .. e
  PROVE  Dropped(q, SubSeq(q, n + 1, Len(q)), n) /\ CellQueue(SubSeq(q, n + 1, Len(q)), e - n)
<1>1. PICK r : r = SubSeq(q, n + 1, Len(q))
  OBVIOUS
<1>2. q \in Seq(TdCells) /\ Len(q) \in Nat /\ e \in 0 .. Len(q) /\ n \in 0 .. Len(q)
  BY DEF CellQueue
<1>3. /\ r \in Seq(TdCells) /\ Len(r) = Len(q) - n
      /\ \A j \in 1 .. Len(q) - n : r[j] = q[j + n]
  BY SMTT(30), <1>1, <1>2
<1>4. \A j, k \in 1 .. Len(r) : r[j] = r[k] => j = k
  <2>1. \A j, k \in 1 .. Len(q) : q[j] = q[k] => j = k
    BY DEF CellQueue
  <2>2. ASSUME NEW j \in 1 .. Len(r), NEW k \in 1 .. Len(r), r[j] = r[k] PROVE j = k
    <3>1. PICK l \in Nat : l = Len(q)
      BY <1>2
    <3>2. n \in Nat /\ Len(r) = l - n
      BY <1>2, <1>3, <3>1
    <3>3. j \in 1 .. l - n /\ k \in 1 .. l - n
      BY <3>2
    <3>4. /\ r[j] = q[j + n] /\ r[k] = q[k + n]
          /\ j + n \in 1 .. l /\ k + n \in 1 .. l
      BY <1>3, <3>1, <3>2, <3>3
    <3>5. j + n = k + n
      BY <2>1, <2>2, <3>1, <3>4
    <3> QED BY <3>2, <3>3, <3>5
  <2> QED BY <2>2
<1>5. e - n \in 0 .. Len(r)
  BY <1>2, <1>3
<1> QED BY <1>1, <1>2, <1>3, <1>4, <1>5 DEF Dropped, CellQueue

LEMMA TimedDropped ==
  ASSUME NEW e, NEW q, CellQueue(q, e), NEW n \in 0 .. e, NEW r, Dropped(q, r, n),
         NEW P, NEW d, NEW ticket, NEW due, NEW now, Timed(P, q, e, d, ticket, due, now)
  PROVE  \E R : Timed(R, r, e - n, d, ticket, due, now)
<1>1. PICK L \in Nat : L = Len(q)
  BY DEF CellQueue
<1>2. /\ P \in [0 .. L -> Nat] /\ e \in 0 .. L /\ n \in Nat /\ n <= e /\ n <= L
      /\ \A j \in 1 .. L : P[j] = P[j - 1] + d[q[j]]
      /\ \A j \in 0 .. L : j <= e <=> P[j] = 0
  BY <1>1 DEF Timed, Delays, CellQueue
<1> DEFINE R == [j \in 0 .. L - n |-> P[j + n]]
<1>3. /\ R \in [0 .. L - n -> Nat] /\ L - n \in Nat
      /\ \A j \in 0 .. L - n : R[j] = P[j + n] /\ j + n \in 0 .. L
  BY <1>2
<1>4. R[0] = 0
  BY <1>2, <1>3
<1> HIDE DEF R
<1>5. ASSUME NEW j \in 1 .. L - n PROVE R[j] = R[j - 1] + d[r[j]]
  <2>1. j \in 0 .. L - n /\ j - 1 \in 0 .. L - n /\ j + n \in 1 .. L /\ j - 1 + n = j + n - 1
    BY <1>2
  <2>2. R[j] = P[j + n] /\ R[j - 1] = P[j + n - 1]
    BY <1>3, <2>1
  <2>3. P[j + n] = P[j + n - 1] + d[q[j + n]]
    BY <1>2, <2>1
  <2>4. r[j] = q[j + n]
    BY <1>1 DEF Dropped
  <2> QED BY <2>2, <2>3, <2>4
<1>6. \A j \in 0 .. L - n : j <= e - n <=> R[j] = 0
  BY <1>2, <1>3
<1>7. ASSUME NEW j \in 1 .. L - n, ticket[r[j]] = 0
      PROVE  IF j <= e - n THEN due[r[j]] <= now ELSE due[r[j]] = now + R[j]
  <2>1. r[j] = q[j + n] /\ j + n \in 1 .. L /\ R[j] = P[j + n] /\ (j <= e - n <=> j + n <= e)
    BY <1>1, <1>2, <1>3 DEF Dropped
  <2>2. \A k \in 1 .. L : ticket[q[k]] = 0 =>
             IF k <= e THEN due[q[k]] <= now ELSE due[q[k]] = now + P[k]
    BY <1>1 DEF Timed
  <2> QED BY <1>7, <2>1, <2>2
<1>8. Len(r) = L - n
  BY <1>1 DEF Dropped
<1>9. Delays(R, r, d)
  BY <1>3, <1>4, <1>5, <1>8 DEF Delays
<1>10. Timed(R, r, e - n, d, ticket, due, now)
  BY <1>6, <1>7, <1>8, <1>9 DEF Timed
<1> QED BY <1>10

\* Cells are called or cancelled where they stand.
LEMMA TimedSame ==
  ASSUME NEW e, NEW q, NEW P, NEW d, NEW ticket, NEW due, NEW now,
         Timed(P, q, e, d, ticket, due, now), NEW ticket2,
         \A j \in 1 .. Len(q) : ticket2[q[j]] = 0 => ticket[q[j]] = 0
  PROVE  Timed(P, q, e, d, ticket2, due, now)
BY DEF Timed

\* Time goes on while nothing waits for it.
LEMMA TimedIdle ==
  ASSUME NEW e, NEW q, CellQueue(q, e), ~ (e < Len(q)), NEW P, NEW d, NEW ticket, NEW due,
         NEW now \in Nat, Timed(P, q, e, d, ticket, due, now),
         \A c \in TdCells : due[c] \in Nat
  PROVE  Timed(P, q, e, d, ticket, due, now + 1)
<1>1. ASSUME NEW j \in 1 .. Len(q), ticket[q[j]] = 0 PROVE j <= e /\ due[q[j]] <= now + 1
  <2>1. j <= e /\ q[j] \in TdCells
    BY DEF CellQueue
  <2>2. due[q[j]] <= now /\ due[q[j]] \in Nat
    BY <1>1, <2>1 DEF Timed
  <2> QED BY <2>1, <2>2
<1> QED BY <1>1 DEF Timed

TdTyped ==
  /\ t_delta \in [TdCells -> Nat]
  /\ t_ticket \in [TdCells -> Nat]
  /\ t_holder \in [TdCells -> Nat]
  /\ t_cpu \in [TdCells -> TdCpus \cup {TdNone}]
  /\ tdRun \in [TdCpus -> TdCells \cup {TdNone}]
  /\ tdFailed \in [TdCpus -> BOOLEAN]
  /\ dcRun \in [TdCpus -> BOOLEAN]
  /\ tdWait \in [TdCallers -> {<< >>} \cup TdCells \X Nat]
  /\ tdNow \in Nat
  /\ tdDue \in [TdCells -> Nat]
  /\ tdCancelled \subseteq TdCells

In(q, n, c) == \E i \in 1 .. n : q[i] = c

TdTimely == \E P : Timed(P, tdQueue, tdExpired, t_delta, t_ticket, tdDue, tdNow)

(***************************************************************************)
(* A cell whose function runs is expired and has given out its first       *)
(* ticket but not taken it back, no two CPUs run the same one, and who     *)
(* waits has a ticket of his own that is still to come.                    *)
(***************************************************************************)
Holders(holder, ticket, cancelled) ==
  /\ \A c \in TdCells : holder[c] <= ticket[c]
  /\ \A c \in cancelled : holder[c] > 0

Runners(q, e, holder, ticket, run) ==
  \A k \in TdCpus : run[k] # TdNone =>
    /\ In(q, e, run[k]) /\ ticket[run[k]] > 0 /\ holder[run[k]] = 0
    /\ \A l \in TdCpus : run[l] = run[k] => l = k

Waiters(q, holder, ticket, wait) ==
  /\ \A u \in TdCallers : wait[u] # << >> =>
       /\ In(q, Len(q), wait[u][1]) /\ wait[u][2] > 0
       /\ holder[wait[u][1]] <= wait[u][2] /\ wait[u][2] < ticket[wait[u][1]]
  /\ \A u, v \in TdCallers : wait[u] # << >> /\ wait[u] = wait[v] => u = v

TdTickets ==
  /\ Holders(t_holder, t_ticket, tdCancelled)
  /\ Runners(tdQueue, tdExpired, t_holder, t_ticket, tdRun)
  /\ Waiters(tdQueue, t_holder, t_ticket, tdWait)

(***************************************************************************)
(* Who is due has RUN_TIMEOUTS asked for, and what the one that runs has   *)
(* left behind it knows of.                                                *)
(***************************************************************************)
Pends(q, cpu, ticket, i, k) == cpu[q[i]] = k /\ ticket[q[i]] = 0

TdAsking ==
  /\ \A k \in TdCpus, i \in 1 .. tdExpired : Pends(tdQueue, t_cpu, t_ticket, i, k) => dcRun[k]
  /\ \A k \in TdCpus : dcRun[k] => tdRun[k] # TdNone \/ k \in dcDefint \cup dcDefproc

Behind(q, e, cpu, ticket, run, failed) ==
  \A k \in TdCpus : run[k] # TdNone =>
    \A i \in 1 .. e : q[i] = run[k] =>
      \A j \in 1 .. i - 1 : Pends(q, cpu, ticket, j, k) => failed[k]

TdBehind == Behind(tdQueue, tdExpired, t_cpu, t_ticket, tdRun, tdFailed)

TdInv ==
  /\ TdTyped /\ CellQueue(tdQueue, tdExpired) /\ TdTimely /\ TdTickets /\ TdAsking /\ TdBehind

LEMMA TdInitInv == TdInit => TdInv
<1> SUFFICES ASSUME TdInit PROVE TdInv
  OBVIOUS
<1> USE DEF TdInit
<1>1. TdTyped
  BY DEF TdTyped
<1>2. tdQueue \in Seq(TdCells) /\ Len(tdQueue) = 0 /\ tdExpired = 0
  OBVIOUS
<1>3. CellQueue(tdQueue, tdExpired)
  BY <1>2 DEF CellQueue
<1>4. TdTimely
  <2> DEFINE P == [i \in 0 .. 0 |-> 0]
  <2>1. P \in [0 .. 0 -> Nat] /\ P[0] = 0
    OBVIOUS
  <2> HIDE DEF P
  <2>2. Timed(P, tdQueue, tdExpired, t_delta, t_ticket, tdDue, tdNow)
    BY <1>2, <2>1 DEF Timed, Delays
  <2> QED BY <2>2 DEF TdTimely
<1>5. TdTickets
  BY <1>2 DEF TdTickets, Holders, Runners, Waiters
<1>6. TdAsking /\ TdBehind
  BY <1>2 DEF TdAsking, TdBehind, Behind
<1> QED BY <1>1, <1>3, <1>4, <1>5, <1>6 DEF TdInv

LEMMA MinIs ==
  ASSUME NEW S, S \subseteq Nat, S # {}
  PROVE  Min(S) \in S /\ \A m \in S : Min(S) <= m
<1>1. \E n \in S : \A m \in S : n <= m
  BY LeastNat
<1> QED BY <1>1 DEF Min

LEMMA GreatestIs ==
  ASSUME NEW S, S \subseteq Nat, S # {}, IsFiniteSet(S)
  PROVE  Max(S) \in S /\ \A m \in S : Max(S) >= m
<1>1. \E n \in S : \A m \in S : n >= m
  BY GreatestNat
<1> QED BY <1>1 DEF Max

Measured(P, i) ==
  /\ Delay(i - 1) = P[i - 1]
  /\ i <= Len(tdQueue) => Delay(i) = P[i]

\* The place of a new cell is behind the expired ones, where its time is.
LEMMA PlaceIs ==
  ASSUME TdTyped, CellQueue(tdQueue, tdExpired), NEW t \in Nat, t > 0, NEW P,
         Timed(P, tdQueue, tdExpired, t_delta, t_ticket, tdDue, tdNow),
         NEW i, i = Place(t)
  PROVE  Fits(P, tdQueue, tdExpired, i, t) /\ Measured(P, i)
<1>1. PICK n \in Nat : n = Len(tdQueue)
  BY DEF CellQueue
<1>2. /\ tdQueue \in Seq(TdCells) /\ t_delta \in [TdCells -> Nat]
      /\ P \in [0 .. n -> Nat] /\ P[0] = 0 /\ tdExpired \in 0 .. n
      /\ \A j \in 0 .. n : j <= tdExpired <=> P[j] = 0
      /\ Delays(P, tdQueue, t_delta)
  BY <1>1 DEF Timed, Delays, CellQueue, TdTyped
<1>3. \A j \in 0 .. n : Delay(j) = P[j] /\ P[j] \in Nat
  BY <1>1, <1>2, DelayIs
<1> DEFINE later == {j \in DOMAIN tdQueue : t < Delay(j)}
<1>4. DOMAIN tdQueue = 1 .. n
  BY <1>1, <1>2
<1>5. later = {j \in 1 .. n : t < P[j]}
  <2>1. \A j \in 1 .. n : Delay(j) = P[j]
    BY <1>3
  <2> QED BY <1>4, <2>1
<1>6. i = IF later = {} THEN n + 1 ELSE Min(later)
  BY <1>1 DEF Place
<1> HIDE DEF later
<1>7. /\ i \in 1 .. n + 1
      /\ i <= n => t < P[i]
      /\ \A j \in 1 .. n : j < i => P[j] <= t
  <2>1. CASE later = {}
    <3>1. i = n + 1
      BY <1>6, <2>1
    <3>2. \A j \in 1 .. n : P[j] <= t
      BY <1>3, <1>5, <2>1
    <3> QED BY <3>1, <3>2
  <2>2. CASE later # {}
    <3>1. later \subseteq Nat
      BY <1>5
    <3>2. i \in later /\ \A j \in later : i <= j
      BY <1>6, <2>2, <3>1, MinIs
    <3>3. i \in 1 .. n /\ t < P[i]
      BY <1>5, <3>2
    <3>4. ASSUME NEW j \in 1 .. n, j < i PROVE P[j] <= t
      <4>1. j \notin later
        BY <3>2, <3>3, <3>4
      <4> QED BY <1>3, <1>5, <4>1
    <3> QED BY <3>3, <3>4
  <2> QED BY <2>1, <2>2
<1>8. tdExpired < i
  <2>1. CASE i = n + 1
    BY <1>2, <2>1
  <2>2. CASE i <= n
    <3>1. i \in 0 .. n /\ P[i] # 0
      BY <1>3, <1>7, <2>2
    <3> QED BY <1>2, <1>7, <3>1
  <2> QED BY <1>7, <2>1, <2>2
<1>9. P[i - 1] <= t /\ Delay(i - 1) = P[i - 1]
  <2>1. i - 1 \in 0 .. n
    BY <1>7
  <2>2. CASE i = 1
    BY <1>2, <1>3, <2>1, <2>2
  <2>3. CASE i # 1
    <3>1. i - 1 \in 1 .. n /\ i - 1 < i
      BY <1>7, <2>3
    <3> QED BY <1>3, <1>7, <2>1, <3>1
  <2> QED BY <2>2, <2>3
<1>10. i <= n => Delay(i) = P[i]
  BY <1>3, <1>7
<1> QED BY <1>1, <1>7, <1>8, <1>9, <1>10 DEF Fits, Measured

LEMMA TimeoutQueued ==
  ASSUME NEW c \in TdCells, NEW m \in TdTicks
  PROVE  TdInv /\ QUEUE_TIMEOUT(c, m) => TdInv'
<1> SUFFICES ASSUME TdInv, QUEUE_TIMEOUT(c, m) PROVE TdInv'
  OBVIOUS
<1>1. PICK t \in Nat : t > 0 /\ t = IF m = 0 THEN 1 ELSE m
  BY TdAssumption
<1>2. PICK i : i = Place(t)
  OBVIOUS
<1>3. /\ c \notin Queued
      /\ tdQueue' = InsertAt(tdQueue, i, c)
      /\ t_delta' = [Shortened(i, t) EXCEPT ![c] = t - Delay(i - 1)]
      /\ tdDue' = [tdDue EXCEPT ![c] = tdNow + t]
      /\ UNCHANGED <<tdExpired, t_ticket, t_holder, t_cpu, tdRun, tdFailed, dcRun,
                 dcDefint, dcDefproc, tdWait, tdNow, tdStarted, tdCancelled>>
  BY <1>1, <1>2 DEF QUEUE_TIMEOUT
<1>4. TdTyped /\ CellQueue(tdQueue, tdExpired)
  BY DEF TdInv
<1>5. PICK n \in Nat : n = Len(tdQueue)
  BY <1>4 DEF CellQueue
<1>6. /\ DOMAIN tdQueue = 1 .. n /\ tdExpired \in 0 .. n
      /\ \A j \in 1 .. n : tdQueue[j] \in TdCells /\ tdQueue[j] # c
      /\ \A j, k \in 1 .. n : tdQueue[j] = tdQueue[k] => j = k
  BY <1>3, <1>4, <1>5 DEF CellQueue, Queued
<1>7. PICK P : Timed(P, tdQueue, tdExpired, t_delta, t_ticket, tdDue, tdNow)
  BY DEF TdInv, TdTimely
<1>8. /\ i \in 1 .. n + 1 /\ tdExpired < i /\ P[i - 1] <= t /\ Delay(i - 1) = P[i - 1]
      /\ i <= n => t < P[i] /\ Delay(i) = P[i]
  <2>1. /\ i \in 1 .. Len(tdQueue) + 1 /\ tdExpired < i /\ P[i - 1] <= t
        /\ Delay(i - 1) = P[i - 1]
        /\ i <= Len(tdQueue) => t < P[i] /\ Delay(i) = P[i]
    <3>1. Fits(P, tdQueue, tdExpired, i, t) /\ Measured(P, i)
      BY <1>1, <1>2, <1>4, <1>7, PlaceIs
    <3> QED BY <3>1 DEF Fits, Measured
  <2> QED BY <1>5, <2>1
<1>9. P \in [0 .. n -> Nat] /\ \A j \in 0 .. n : P[j] \in Nat
  BY <1>5, <1>7 DEF Timed, Delays
<1>10. Put(tdQueue, tdQueue', c, i) /\ CellQueue(tdQueue', tdExpired')
  <2>1. Put(tdQueue, tdQueue', c, i) /\ CellQueue(tdQueue', tdExpired)
    BY <1>3, <1>4, <1>5, <1>6, <1>8, PutIs
  <2> QED BY <1>3, <2>1
<1>11. PICK s : s = Shortened(i, t)
  OBVIOUS
<1>12. /\ s \in [TdCells -> Nat]
       /\ i <= n => s[tdQueue[i]] = P[i] - t
       /\ \A j \in 1 .. n : j # i => s[tdQueue[j]] = t_delta[tdQueue[j]]
  <2>1. CASE i > n
    <3>1. s = t_delta
      BY <1>5, <1>11, <2>1 DEF Shortened
    <3> QED BY <1>4, <1>8, <2>1, <3>1 DEF TdTyped
  <2>2. CASE i <= n
    <3>1. s = [t_delta EXCEPT ![tdQueue[i]] = P[i] - t]
      <4>1. ~ (i > Len(tdQueue)) /\ Delay(i) = P[i]
        BY <1>5, <1>8, <2>2
      <4>2. s = [t_delta EXCEPT ![tdQueue[i]] = Delay(i) - t]
        BY <1>11, <4>1 DEF Shortened
      <4> QED BY <4>1, <4>2
    <3>2. i \in 1 .. n /\ P[i] - t \in Nat
      BY <1>1, <1>8, <1>9, <2>2
    <3>3. t_delta \in [TdCells -> Nat]
      BY <1>4 DEF TdTyped
    <3> QED BY <1>6, <3>1, <3>2, <3>3
  <2> QED BY <1>8, <2>1, <2>2
<1>13. /\ t_delta' \in [TdCells -> Nat] /\ t_delta'[c] = t - P[i - 1]
       /\ i <= n => t_delta'[tdQueue[i]] = P[i] - t
       /\ \A j \in 1 .. n : j # i => t_delta'[tdQueue[j]] = t_delta[tdQueue[j]]
  <2>1. t_delta' = [s EXCEPT ![c] = t - P[i - 1]]
    BY <1>3, <1>8, <1>11
  <2>2. t - P[i - 1] \in Nat
    <3>1. i - 1 \in 0 .. n
      BY <1>8
    <3> QED BY <1>1, <1>8, <1>9, <3>1
  <2>3. t_delta' \in [TdCells -> Nat] /\ t_delta'[c] = t - P[i - 1]
    BY <1>12, <2>1, <2>2
  <2>4. \A j \in 1 .. n : t_delta'[tdQueue[j]] = s[tdQueue[j]]
    BY <1>6, <1>12, <2>1
  <2>5. i <= n => i \in 1 .. n
    BY <1>8
  <2> QED BY <1>12, <2>3, <2>4, <2>5
<1>14. /\ tdDue' \in [TdCells -> Nat] /\ tdDue'[c] = tdNow + t
       /\ \A j \in 1 .. n : tdDue'[tdQueue[j]] = tdDue[tdQueue[j]]
  <2>1. tdDue \in [TdCells -> Nat] /\ tdNow + t \in Nat
    BY <1>1, <1>4 DEF TdTyped
  <2> QED BY <1>3, <1>6, <2>1
<1>15. TdTyped'
  BY <1>3, <1>4, <1>13, <1>14 DEF TdTyped
<1>16. TdTimely'
  <2>1. PICK r, d2, due2 : r = tdQueue' /\ d2 = t_delta' /\ due2 = tdDue'
    OBVIOUS
  <2>2. \E R : Timed(R, r, tdExpired, d2, t_ticket, due2, tdNow)
    <3>1. PICK q, e, d : q = tdQueue /\ e = tdExpired /\ d = t_delta
      OBVIOUS
    <3>2. /\ CellQueue(q, e) /\ Put(q, r, c, i) /\ Timed(P, q, e, d, t_ticket, tdDue, tdNow)
          /\ n = Len(q)
      BY <1>4, <1>5, <1>7, <1>10, <2>1, <3>1
    <3>3. Fits(P, q, e, i, t)
      BY <1>5, <1>8, <3>1 DEF Fits
    <3>4. Spliced(P, q, i, t, c, d, d2)
      BY <1>5, <1>13, <2>1, <3>1 DEF Spliced
    <3>5. DueAt(q, c, tdNow + t, tdDue, due2)
      BY <1>5, <1>6, <1>14, <2>1, <3>1 DEF DueAt
    <3>6. \E R : Timed(R, r, e, d2, t_ticket, due2, tdNow)
      BY <1>1, <3>2, <3>3, <3>4, <3>5, TimedPut
    <3> QED BY <3>1, <3>6
  <2> QED BY <1>3, <2>1, <2>2 DEF TdTimely
<1>17. /\ \A j \in 1 .. tdExpired : tdQueue'[j] = tdQueue[j]
       /\ \A x : In(tdQueue, Len(tdQueue), x) => In(tdQueue', Len(tdQueue'), x)
  <2>1. \A j \in 1 .. tdExpired : j \in 1 .. i - 1
    BY <1>6, <1>8
  <2>2. ASSUME NEW j \in 1 .. n PROVE \E k \in 1 .. n + 1 : tdQueue'[k] = tdQueue[j]
    <3>1. CASE j < i
      <4>1. tdQueue'[j] = tdQueue[j] /\ j \in 1 .. n + 1
        BY <1>8, <1>10, <3>1 DEF Put
      <4> QED BY <4>1
    <3>2. CASE ~ (j < i)
      <4>1. j + 1 \in i + 1 .. n + 1 /\ j + 1 - 1 = j /\ j + 1 \in 1 .. n + 1
        BY <1>8, <3>2
      <4>2. tdQueue'[j + 1] = tdQueue[j]
        BY <1>5, <1>10, <4>1 DEF Put
      <4> QED BY <4>1, <4>2
    <3> QED BY <3>1, <3>2
  <2>3. Len(tdQueue') = n + 1
    BY <1>5, <1>10 DEF Put
  <2>4. \A j \in 1 .. tdExpired : tdQueue'[j] = tdQueue[j]
    BY <1>10, <2>1 DEF Put
  <2> QED BY <1>5, <2>2, <2>3, <2>4 DEF In
<1>18. TdTickets'
  <2>1. Holders(t_holder, t_ticket, tdCancelled)' /\ TdTickets
    BY <1>3 DEF TdInv, TdTickets, Holders
  <2>2. Runners(tdQueue, tdExpired, t_holder, t_ticket, tdRun)'
    BY <1>3, <1>17, <2>1 DEF TdTickets, Runners, In
  <2>3. Waiters(tdQueue, t_holder, t_ticket, tdWait)'
    BY <1>3, <1>17, <2>1 DEF TdTickets, Waiters
  <2> QED BY <2>1, <2>2, <2>3 DEF TdTickets
<1>19. TdAsking' /\ TdBehind'
  <2>1. TdAsking'
    BY <1>3, <1>17 DEF TdInv, TdAsking, Pends
  <2>2. \A x \in 1 .. tdExpired : \A j \in 1 .. x - 1 : j \in 1 .. tdExpired
    BY <1>6
  <2>3. TdBehind'
    BY <1>3, <1>17, <2>2 DEF TdInv, TdBehind, Behind, Pends
  <2> QED BY <2>1, <2>3
<1> QED BY <1>10, <1>15, <1>16, <1>18, <1>19 DEF TdInv

LEMMA InPlace ==
  ASSUME NEW q, NEW e, CellQueue(q, e), NEW x \in TdCells, In(q, e, x), NEW i \in 1 .. Len(q), q[i] = x
  PROVE  i \in 1 .. e
<1>1. PICK n \in Nat : n = Len(q)
  BY DEF CellQueue
<1>2. PICK j \in 1 .. e : q[j] = x
  BY DEF In
<1>3. j \in 1 .. n /\ \A a, b \in 1 .. n : q[a] = q[b] => a = b
  BY <1>1 DEF CellQueue
<1> QED BY <1>1, <1>2, <1>3

LEMMA Ticked == ASSUME NEW k \in TdCpus PROVE TdInv /\ CHECK_TIMEOUT(k) => TdInv'
<1> SUFFICES ASSUME TdInv, CHECK_TIMEOUT(k) PROVE TdInv'
  OBVIOUS
<1>1. /\ TdTyped /\ CellQueue(tdQueue, tdExpired) /\ tdNow \in Nat /\ tdNow' = tdNow + 1
      /\ UNCHANGED <<tdQueue, t_ticket, t_holder, tdRun, tdFailed, dcDefproc, tdWait,
                     tdDue, tdStarted, tdCancelled>>
      /\ \A c \in TdCells : tdDue[c] \in Nat
  BY DEF TdInv, TdTyped, CHECK_TIMEOUT
<1>2. PICK n \in Nat : n = Len(tdQueue) /\ tdExpired \in 0 .. n
  BY <1>1 DEF CellQueue
<1>3. PICK P : Timed(P, tdQueue, tdExpired, t_delta, t_ticket, tdDue, tdNow)
  BY DEF TdInv, TdTimely
<1>4. TdTickets /\ TdAsking /\ TdBehind
  BY DEF TdInv
<1>5. CASE tdExpired + 1 > Len(tdQueue)
  <2>1. UNCHANGED <<t_delta, tdExpired, t_cpu, dcRun, dcDefint>>
    BY <1>5 DEF CHECK_TIMEOUT
  <2>2. TdTyped' /\ CellQueue(tdQueue, tdExpired)'
    BY <1>1, <2>1 DEF TdTyped, CellQueue
  <2>3. TdTimely'
    <3>1. ~ (tdExpired < Len(tdQueue))
      BY <1>2, <1>5
    <3>2. Timed(P, tdQueue, tdExpired, t_delta, t_ticket, tdDue, tdNow + 1)
      BY <1>1, <1>3, <3>1, TimedIdle
    <3> QED BY <1>1, <2>1, <3>2 DEF TdTimely
  <2>4. TdTickets'
    BY <1>1, <1>4, <2>1 DEF TdTickets, Holders, Runners, Waiters
  <2>5. TdAsking' /\ TdBehind'
    BY <1>1, <1>4, <2>1 DEF TdAsking, TdBehind, Behind, Pends
  <2> QED BY <2>2, <2>3, <2>4, <2>5 DEF TdInv
<1>6. CASE ~ (tdExpired + 1 > Len(tdQueue))
  <2> DEFINE hit == {j \in tdExpired + 1 .. Len(tdQueue) :
                       \A i \in tdExpired + 1 .. j : t_delta'[tdQueue[i]] = 0}
             S == {tdQueue[j] : j \in hit}
             bound == [c \in TdCells |->
                         IF c \in S /\ t_cpu[c] = TdNone THEN k ELSE t_cpu[c]]
             cpus == {bound[c] : c \in S}
  <2>1. /\ t_delta' = [t_delta EXCEPT ![tdQueue[tdExpired + 1]] = @ - 1]
        /\ tdExpired' = tdExpired + Cardinality(hit)
        /\ SCHEDULE_TIMEOUT(S, k)
    BY <1>6 DEF CHECK_TIMEOUT
  <2>2. /\ t_cpu' = bound
        /\ dcRun' = [d \in TdCpus |-> dcRun[d] \/ d \in cpus]
        /\ dcDefint' = dcDefint \cup {d \in cpus : ~ dcRun[d]}
    BY <2>1 DEF SCHEDULE_TIMEOUT
  <2>3. PICK f \in 0 .. n :
           /\ f = tdExpired' /\ tdExpired <= f /\ hit = tdExpired + 1 .. f
           /\ t_delta' \in [TdCells -> Nat]
           /\ \E R : Timed(R, tdQueue, f, t_delta', t_ticket, tdDue, tdNow + 1)
    <3>1. PICK d2, h : d2 = t_delta' /\ h = hit
      OBVIOUS
    <3>2. tdExpired < Len(tdQueue) /\ t_delta \in [TdCells -> Nat]
      BY <1>1, <1>2, <1>6 DEF TdTyped
    <3>3. /\ d2 = [t_delta EXCEPT ![tdQueue[tdExpired + 1]] = @ - 1]
          /\ h = Hits(tdQueue, tdExpired, d2)
      BY <2>1, <3>1 DEF Hits
    <3>4. PICK f : Expired(tdQueue, tdExpired, f, h, d2, t_ticket, tdDue, tdNow + 1)
      BY <1>1, <1>3, <3>2, <3>3, TimedCounted
    <3>5. /\ f \in 0 .. n /\ f = tdExpired' /\ tdExpired <= f /\ hit = tdExpired + 1 .. f
          /\ t_delta' \in [TdCells -> Nat]
          /\ \E R : Timed(R, tdQueue, f, t_delta', t_ticket, tdDue, tdNow + 1)
      <4> HIDE DEF hit
      <4> QED BY <1>2, <2>1, <3>1, <3>4 DEF Expired
    <3> HIDE DEF hit
    <3> QED BY <3>5
  <2>4. /\ \A j \in 1 .. n : tdQueue[j] \in TdCells
        /\ \A j, i \in 1 .. n : tdQueue[j] = tdQueue[i] => j = i
    BY SMTT(30), <1>1, <1>2 DEF CellQueue
  <2>5. /\ \A j \in 1 .. tdExpired : tdQueue[j] \notin S /\ j \in 1 .. n
        /\ \A j \in 1 .. f : j > tdExpired => tdQueue[j] \in S
    <3>1. \A j \in hit : j \in 1 .. n /\ j > tdExpired
      BY <1>2, <2>3
    <3>2. \A j \in 1 .. f : j > tdExpired => j \in hit
      BY <1>2, <2>3
    <3>3. \A j \in 1 .. tdExpired : j \in 1 .. n /\ ~ (j > tdExpired)
      BY <1>2
    <3> HIDE DEF hit
    <3> QED BY <2>4, <3>1, <3>2, <3>3
  <2>6. S \subseteq TdCells
    <3>1. \A j \in hit : j \in 1 .. n
      BY <1>2, <2>3
    <3> HIDE DEF hit
    <3> QED BY <2>4, <3>1
  <2> HIDE DEF hit, S
  <2>7. /\ bound \in [TdCells -> TdCpus \cup {TdNone}]
        /\ \A c \in TdCells : c \notin S => bound[c] = t_cpu[c]
        /\ \A c \in S : bound[c] \in cpus
    BY <1>1, <2>6 DEF TdTyped
  <2> HIDE DEF bound, cpus
  <2>8. TdTyped'
    <3>1. dcRun' \in [TdCpus -> BOOLEAN]
      BY <2>2
    <3>2. t_cpu' \in [TdCells -> TdCpus \cup {TdNone}]
      BY <2>2, <2>7
    <3>3. tdNow' \in Nat
      BY <1>1
    <3> QED BY <1>1, <2>3, <3>1, <3>2, <3>3 DEF TdTyped
  <2>9. CellQueue(tdQueue, tdExpired)' /\ TdTimely'
    <3>1. CellQueue(tdQueue, tdExpired)'
      BY <1>1, <1>2, <2>3 DEF CellQueue
    <3>2. TdTimely'
      BY <1>1, <2>3 DEF TdTimely
    <3> QED BY <3>1, <3>2
  <2>10. TdTickets'
    <3>1. Holders(t_holder, t_ticket, tdCancelled)' /\ Waiters(tdQueue, t_holder, t_ticket, tdWait)'
      BY <1>1, <1>4 DEF TdTickets, Holders, Waiters
    <3>2. \A x : In(tdQueue, tdExpired, x) => In(tdQueue, tdExpired, x)'
      <4>1. \A j \in 1 .. tdExpired : j \in 1 .. f
        BY <1>2, <2>3
      <4> QED BY <1>1, <2>3, <4>1 DEF In
    <3>3. Runners(tdQueue, tdExpired, t_holder, t_ticket, tdRun)'
      BY <1>1, <1>4, <3>2 DEF TdTickets, Runners
    <3> QED BY <3>1, <3>3 DEF TdTickets
  <2>11. TdAsking'
    <3>1. ASSUME NEW l \in TdCpus, NEW i \in 1 .. f, Pends(tdQueue, t_cpu', t_ticket, i, l)
          PROVE  dcRun'[l]
      <4>1. i \in 1 .. n
        BY <2>3
      <4>2. CASE i <= tdExpired
        <5>1. i \in 1 .. tdExpired /\ tdQueue[i] \in TdCells /\ tdQueue[i] \notin S
          BY <1>2, <2>4, <2>5, <4>1, <4>2
        <5>2. Pends(tdQueue, t_cpu, t_ticket, i, l)
          BY <2>2, <2>7, <3>1, <5>1 DEF Pends
        <5> QED BY <1>4, <2>2, <5>1, <5>2 DEF TdAsking
      <4>3. CASE i > tdExpired
        <5>1. tdQueue[i] \in S
          BY <2>5, <4>3
        <5>2. l \in cpus
          BY <2>2, <2>7, <3>1, <5>1 DEF Pends
        <5> QED BY <2>2, <5>2
      <4> QED BY <1>2, <4>1, <4>2, <4>3
    <3>2. \A l \in TdCpus : dcRun'[l] => tdRun[l] # TdNone \/ l \in dcDefint' \cup dcDefproc
      BY <1>4, <2>2 DEF TdAsking
    <3> QED BY <1>1, <2>3, <3>1, <3>2 DEF TdAsking, Pends
  <2>12. TdBehind'
    <3>1. ASSUME NEW l \in TdCpus, tdRun[l] # TdNone, NEW i \in 1 .. f, tdQueue[i] = tdRun[l],
                 NEW j \in 1 .. i - 1, Pends(tdQueue, t_cpu', t_ticket, j, l)
          PROVE  tdFailed[l]
      <4>1. In(tdQueue, tdExpired, tdRun[l]) /\ tdRun[l] \in TdCells
        BY <1>1, <1>4, <3>1 DEF TdTickets, Runners, TdTyped
      <4>2. i \in 1 .. tdExpired
        <5>1. i \in 1 .. Len(tdQueue)
          BY <1>2, <2>3
        <5> QED BY <1>1, <3>1, <4>1, <5>1, InPlace
      <4>3. j \in 1 .. tdExpired
        BY <1>2, <4>2
      <4>4. tdQueue[j] \in TdCells /\ tdQueue[j] \notin S
        BY <2>4, <2>5, <4>3
      <4>5. Pends(tdQueue, t_cpu, t_ticket, j, l)
        BY <2>2, <2>7, <3>1, <4>4 DEF Pends
      <4> QED BY <1>4, <3>1, <4>2, <4>5 DEF TdBehind, Behind
    <3> QED BY <1>1, <2>3, <3>1 DEF TdBehind, Behind, Pends
  <2> QED BY <2>8, <2>9, <2>10, <2>11, <2>12 DEF TdInv
<1> QED BY <1>5, <1>6

(***************************************************************************)
(* RUN_TIMEOUTS on k with the queue locked, `from' the cell to look at.    *)
(***************************************************************************)
Stopped(k) == [tdRun EXCEPT ![k] = TdNone]

Scanning(k, from, failed, holder) ==
  /\ from \in 1 .. tdExpired + 1 /\ failed \in BOOLEAN /\ holder \in [TdCells -> Nat]
  /\ TdTyped /\ CellQueue(tdQueue, tdExpired) /\ TdTimely
  /\ Holders(holder, t_ticket, tdCancelled)
  /\ Runners(tdQueue, tdExpired, holder, t_ticket, Stopped(k))
  /\ Waiters(tdQueue, holder, t_ticket, tdWait)
  /\ \A j \in 1 .. from - 1 : Pends(tdQueue, t_cpu, t_ticket, j, k) => failed
  /\ \A l \in TdCpus, i \in 1 .. tdExpired : Pends(tdQueue, t_cpu, t_ticket, i, l) => dcRun[l]
  /\ \A l \in TdCpus : l # k /\ dcRun[l] => tdRun[l] # TdNone \/ l \in dcDefint \cup dcDefproc
  /\ Behind(tdQueue, tdExpired, t_cpu, t_ticket, Stopped(k), tdFailed)

LEMMA StoppedIs ==
  ASSUME TdTyped, NEW k \in TdCpus
  PROVE  /\ Stopped(k) \in [TdCpus -> TdCells \cup {TdNone}] /\ Stopped(k)[k] = TdNone
         /\ \A l \in TdCpus : l # k => Stopped(k)[l] = tdRun[l]
BY DEF TdTyped, Stopped

LEMMA FunctionCalled ==
  ASSUME NEW k \in TdCpus, NEW from, NEW failed, NEW holder
  PROVE  Scanning(k, from, failed, holder) /\ RunCall(k, from, failed, holder)
         /\ (\A l \in TdCpus : l # k /\ l \in dcDefint => l \in dcDefint') => TdInv'
<1> SUFFICES ASSUME Scanning(k, from, failed, holder), RunCall(k, from, failed, holder),
                    \A l \in TdCpus : l # k /\ l \in dcDefint => l \in dcDefint'
             PROVE  TdInv'
  OBVIOUS
<1>1. /\ from \in 1 .. tdExpired + 1 /\ failed \in BOOLEAN /\ holder \in [TdCells -> Nat]
      /\ TdTyped /\ CellQueue(tdQueue, tdExpired) /\ TdTimely
  BY DEF Scanning
<1>2. PICK i \in from .. tdExpired :
    /\ Runnable(i, k)
    /\ tdRun' = [tdRun EXCEPT ![k] = tdQueue[i]]
    /\ t_ticket' = [t_ticket EXCEPT ![tdQueue[i]] = 1]
    /\ t_holder' = holder
    /\ tdFailed' = [tdFailed EXCEPT ![k] =
                      failed \/ \E j \in from .. i - 1 : Runnable(j, k)]
    /\ UNCHANGED <<tdQueue, tdExpired, t_delta, t_cpu, dcRun, dcDefproc, tdWait,
                   tdNow, tdDue, tdCancelled>>
  BY DEF RunCall
<1>3. PICK n \in Nat : n = Len(tdQueue) /\ tdExpired \in 0 .. n
  BY <1>1 DEF CellQueue
<1>4. /\ \A j \in 1 .. n : tdQueue[j] \in TdCells
      /\ \A j, m \in 1 .. n : tdQueue[j] = tdQueue[m] => j = m
  BY <1>1, <1>3 DEF CellQueue
<1>5. i \in 1 .. tdExpired /\ i \in 1 .. n
  BY <1>1, <1>3
<1>6. PICK c \in TdCells : c = tdQueue[i]
  BY <1>4, <1>5
<1>7. t_ticket[c] = 0 /\ t_cpu[c] = k /\ holder[c] = 0
  <2>1. t_ticket[c] = 0 /\ t_cpu[c] = k
    BY <1>2, <1>6 DEF Runnable
  <2>2. holder[c] \in Nat /\ holder[c] <= t_ticket[c]
    BY <1>1 DEF Scanning, Holders
  <2> QED BY <2>1, <2>2
<1>8. /\ t_ticket' \in [TdCells -> Nat] /\ t_ticket'[c] = 1
      /\ \A x \in TdCells : x # c => t_ticket'[x] = t_ticket[x]
  BY <1>1, <1>2, <1>6 DEF TdTyped
<1>9. \A x \in TdCells : t_ticket'[x] = 0 => t_ticket[x] = 0
  BY <1>8
<1>10. /\ tdRun' \in [TdCpus -> TdCells \cup {TdNone}] /\ tdRun'[k] = c
       /\ \A l \in TdCpus : l # k => tdRun'[l] = Stopped(k)[l] /\ tdRun'[l] = tdRun[l]
  BY <1>1, <1>2, <1>6, StoppedIs DEF TdTyped
<1>11. /\ tdFailed' \in [TdCpus -> BOOLEAN]
       /\ tdFailed'[k] = (failed \/ \E j \in from .. i - 1 : Runnable(j, k))
       /\ \A l \in TdCpus : l # k => tdFailed'[l] = tdFailed[l]
  BY <1>1, <1>2 DEF TdTyped
<1>12. TdTyped'
  BY <1>1, <1>2, <1>8, <1>10, <1>11 DEF TdTyped
<1>13. CellQueue(tdQueue, tdExpired)' /\ TdTimely'
  <2>1. PICK P : Timed(P, tdQueue, tdExpired, t_delta, t_ticket, tdDue, tdNow)
    BY <1>1 DEF TdTimely
  <2>2. PICK t2 : t2 = t_ticket'
    OBVIOUS
  <2>3. \A j \in 1 .. Len(tdQueue) : t2[tdQueue[j]] = 0 => t_ticket[tdQueue[j]] = 0
    BY <1>3, <1>4, <1>9, <2>2
  <2>4. Timed(P, tdQueue, tdExpired, t_delta, t2, tdDue, tdNow)
    BY <2>1, <2>3, TimedSame
  <2> QED BY <1>1, <1>2, <2>2, <2>4 DEF TdTimely, CellQueue
<1>14. Holders(t_holder, t_ticket, tdCancelled)'
  <2>1. \A x \in TdCells : holder[x] \in Nat /\ holder[x] <= t_ticket[x]
    BY <1>1 DEF Scanning, Holders
  <2>2. \A x \in TdCells : holder[x] <= t_ticket'[x]
    BY <1>7, <1>8, <2>1
  <2> QED BY <1>2, <2>2 DEF Scanning, Holders
<1>15. Runners(tdQueue, tdExpired, t_holder, t_ticket, tdRun)'
  <2>1. PICK s : s = Stopped(k)
    OBVIOUS
  <2>2. \A l \in TdCpus : s[l] # TdNone =>
    /\ In(tdQueue, tdExpired, s[l]) /\ t_ticket[s[l]] > 0 /\ holder[s[l]] = 0
    /\ \A m \in TdCpus : s[m] = s[l] => m = l
    BY <2>1 DEF Scanning, Runners
  <2>3. s \in [TdCpus -> TdCells \cup {TdNone}] /\ \A l \in TdCpus : l # k => tdRun'[l] = s[l]
    BY <1>1, <1>10, <2>1, StoppedIs
  <2>4. \A l \in TdCpus : l # k /\ s[l] # TdNone => s[l] # c /\ s[l] \in TdCells
    BY <1>7, <2>2, <2>3
  <2>5. In(tdQueue, tdExpired, c)
    BY <1>5, <1>6 DEF In
  <2>6. ASSUME NEW l \in TdCpus, tdRun'[l] # TdNone
        PROVE  /\ In(tdQueue, tdExpired, tdRun'[l]) /\ t_ticket'[tdRun'[l]] > 0
               /\ holder[tdRun'[l]] = 0
               /\ \A m \in TdCpus : tdRun'[m] = tdRun'[l] => m = l
    <3>1. CASE l = k
      <4>1. \A m \in TdCpus : m # k => tdRun'[m] # c
        BY <2>3, <2>4, TdAssumption
      <4> QED BY <1>7, <1>8, <1>10, <2>5, <3>1, <4>1
    <3>2. CASE l # k
      <4>1. tdRun'[l] = s[l] /\ s[l] # c /\ s[l] \in TdCells
        BY <2>3, <2>4, <2>6, <3>2
      <4>2. t_ticket'[s[l]] = t_ticket[s[l]]
        BY <1>8, <4>1
      <4>3. \A m \in TdCpus : tdRun'[m] = s[l] => m = l
        BY <1>10, <2>2, <2>3, <2>6, <4>1
      <4> QED BY <2>2, <2>6, <4>1, <4>2, <4>3
    <3> QED BY <3>1, <3>2
  <2> QED BY <1>2, <2>6 DEF Runners
<1>16. Waiters(tdQueue, t_holder, t_ticket, tdWait)'
  <2>1. ASSUME NEW u \in TdCallers, tdWait[u] # << >>
        PROVE  tdWait[u][2] < t_ticket'[tdWait[u][1]]
    <3>1. /\ tdWait[u][1] \in TdCells /\ tdWait[u][2] \in Nat
          /\ tdWait[u][2] < t_ticket[tdWait[u][1]]
      BY <1>1, <2>1 DEF Scanning, Waiters, TdTyped
    <3>2. tdWait[u][1] # c
      BY <1>7, <3>1
    <3> QED BY <1>8, <3>1, <3>2
  <2> QED BY <1>2, <2>1 DEF Scanning, Waiters
<1>17. TdAsking'
  <2>1. ASSUME NEW l \in TdCpus, NEW j \in 1 .. tdExpired, Pends(tdQueue, t_cpu, t_ticket', j, l)
        PROVE  dcRun[l]
    <3>1. tdQueue[j] \in TdCells
      BY <1>3, <1>4
    <3>2. Pends(tdQueue, t_cpu, t_ticket, j, l)
      BY <1>9, <2>1, <3>1 DEF Pends
    <3> QED BY <3>2 DEF Scanning
  <2>2. ASSUME NEW l \in TdCpus, dcRun[l]
        PROVE  tdRun'[l] # TdNone \/ l \in dcDefint' \cup dcDefproc
    <3>1. l = k => tdRun'[l] # TdNone
      BY <1>10, TdAssumption
    <3> QED BY <1>10, <2>2, <3>1 DEF Scanning
  <2> QED BY <1>2, <2>1, <2>2 DEF TdAsking, Pends
<1>18. TdBehind'
  <2>1. ASSUME NEW l \in TdCpus, tdRun'[l] # TdNone, NEW a \in 1 .. tdExpired,
               tdQueue[a] = tdRun'[l], NEW j \in 1 .. a - 1,
               Pends(tdQueue, t_cpu, t_ticket', j, l)
        PROVE  tdFailed'[l]
    <3>1. j \in 1 .. tdExpired /\ tdQueue[j] \in TdCells /\ a \in 1 .. n
      BY <1>3, <1>4
    <3>2. Pends(tdQueue, t_cpu, t_ticket, j, l)
      BY <1>9, <2>1, <3>1 DEF Pends
    <3>3. CASE l = k
      <4>1. a = i
        BY <1>4, <1>5, <1>6, <1>10, <2>1, <3>1, <3>3
      <4>2. CASE j <= from - 1
        <5>1. j \in 1 .. from - 1
          BY <1>1, <1>3, <4>2
        <5>2. failed
          BY <3>2, <3>3, <5>1 DEF Scanning
        <5> QED BY <1>11, <3>3, <5>2
      <4>3. CASE ~ (j <= from - 1)
        <5>1. j \in from .. i - 1
          BY <1>1, <1>3, <4>1, <4>3
        <5>2. Runnable(j, k)
          BY <3>2, <3>3 DEF Runnable, Pends
        <5> QED BY <1>11, <3>3, <5>1, <5>2
      <4> QED BY <4>2, <4>3
    <3>4. CASE l # k
      <4>1. tdRun'[l] = Stopped(k)[l] /\ tdFailed'[l] = tdFailed[l]
        BY <1>10, <1>11, <3>4
      <4> QED BY <2>1, <3>2, <4>1 DEF Scanning, Behind
    <3> QED BY <3>3, <3>4
  <2> QED BY <1>2, <2>1 DEF TdBehind, Behind
<1> QED BY <1>12, <1>13, <1>14, <1>15, <1>16, <1>17, <1>18 DEF TdInv, TdTickets

LEMMA CellsFreed ==
  ASSUME NEW k \in TdCpus, NEW from, NEW failed, NEW holder
  PROVE  Scanning(k, from, failed, holder) /\ RunEnd(k, from, failed, holder)
         /\ (\A l \in TdCpus : l # k /\ l \in dcDefint => l \in dcDefint') => TdInv'
<1> SUFFICES ASSUME Scanning(k, from, failed, holder), RunEnd(k, from, failed, holder),
                    \A l \in TdCpus : l # k /\ l \in dcDefint => l \in dcDefint'
             PROVE  TdInv'
  OBVIOUS
<1>1. /\ from \in 1 .. tdExpired + 1 /\ failed \in BOOLEAN /\ holder \in [TdCells -> Nat]
      /\ TdTyped /\ CellQueue(tdQueue, tdExpired) /\ TdTimely
  BY DEF Scanning
<1>2. PICK L \in Nat : L = Len(tdQueue) /\ tdExpired \in 0 .. L
  BY <1>1 DEF CellQueue
<1>3. /\ \A j \in 1 .. L : tdQueue[j] \in TdCells
      /\ \A j, m \in 1 .. L : tdQueue[j] = tdQueue[m] => j = m
  BY <1>1, <1>2 DEF CellQueue
<1> DEFINE done == {n \in 0 .. tdExpired : \A i \in 1 .. n : Done(i, holder)}
           skipped == \E j \in from .. tdExpired : Runnable(j, k)
<1>4. PICK n : n = Max(done)
  OBVIOUS
<1>5. PICK waiting : waiting =
        (n < tdExpired /\ holder[tdQueue[n + 1]] # t_ticket[tdQueue[n + 1]])
  OBVIOUS
<1>6. PICK again : again = Again(failed \/ skipped, waiting)
  OBVIOUS
<1>7. /\ tdRun' = Stopped(k)
      /\ tdFailed' = [tdFailed EXCEPT ![k] = FALSE]
      /\ t_holder' = holder
      /\ tdQueue' = SubSeq(tdQueue, n + 1, Len(tdQueue))
      /\ tdExpired' = tdExpired - n
      /\ dcRun' = [dcRun EXCEPT ![k] = again]
      /\ dcDefproc' = IF again THEN dcDefproc \cup {k} ELSE dcDefproc
      /\ UNCHANGED <<t_delta, t_ticket, t_cpu, tdWait, tdHist>>
  BY <1>4, <1>5, <1>6 DEF RunEnd, Stopped
<1>8. n \in 0 .. tdExpired /\ \A i \in 1 .. n : Done(i, holder)
  <2>1. 0 \in done
    BY <1>2
  <2>2. IsFiniteSet(0 .. tdExpired) /\ done \subseteq 0 .. tdExpired
    BY <1>2, FS_Interval
  <2>3. IsFiniteSet(done) /\ done \subseteq Nat
    BY <1>2, <2>2, FS_Subset
  <2>4. Max(done) \in done
    <3> HIDE DEF done
    <3> QED BY <2>1, <2>3, GreatestIs
  <2> QED BY <1>4, <2>4
<1>9. again \in BOOLEAN /\ ((failed \/ skipped) => again)
  BY <1>5, <1>6 DEF Again
<1>10. PICK q : q = tdQueue'
  OBVIOUS
<1>11. Dropped(tdQueue, q, n) /\ CellQueue(q, tdExpired - n)
  BY <1>1, <1>7, <1>8, <1>10, DroppedIs
<1>12. /\ Len(q) = L - n /\ n \in Nat /\ n <= L
       /\ \A j \in 1 .. L - n : q[j] = tdQueue[j + n] /\ j + n \in 1 .. L
       /\ \A j \in 1 .. tdExpired - n : j \in 1 .. L - n /\ j + n \in 1 .. tdExpired
  <2>1. n \in Nat /\ tdExpired \in Nat /\ n <= tdExpired /\ L \in Nat /\ tdExpired <= L
    BY <1>2, <1>8
  <2>2. Len(q) = L - n /\ \A j \in 1 .. L - n : q[j] = tdQueue[j + n]
    BY <1>2, <1>11 DEF Dropped
  <2>3. /\ n <= L
        /\ \A j \in 1 .. L - n : j + n \in 1 .. L
        /\ \A j \in 1 .. tdExpired - n : j \in 1 .. L - n /\ j + n \in 1 .. tdExpired
    BY <2>1
  <2> QED BY <2>1, <2>2, <2>3
<1>13. TdTyped'
  <2>1. tdRun' \in [TdCpus -> TdCells \cup {TdNone}]
    BY <1>1, <1>7, StoppedIs
  <2>2. tdFailed' \in [TdCpus -> BOOLEAN] /\ dcRun' \in [TdCpus -> BOOLEAN]
    BY <1>1, <1>7, <1>9 DEF TdTyped
  <2> QED BY <1>1, <1>7, <2>1, <2>2 DEF TdTyped, tdHist
<1>14. CellQueue(tdQueue, tdExpired)' /\ TdTimely'
  <2>1. PICK P : Timed(P, tdQueue, tdExpired, t_delta, t_ticket, tdDue, tdNow)
    BY <1>1 DEF TdTimely
  <2>2. \E R : Timed(R, q, tdExpired - n, t_delta, t_ticket, tdDue, tdNow)
    BY <1>1, <1>8, <1>11, <2>1, TimedDropped
  <2> QED BY <1>7, <1>10, <1>11, <2>2 DEF TdTimely, tdHist
<1>15. \A i \in 1 .. n : holder[tdQueue[i]] = t_ticket[tdQueue[i]] /\ t_ticket[tdQueue[i]] # 0
  BY <1>8 DEF Done
<1>16. ASSUME NEW x, NEW i \in 1 .. L, tdQueue[i] = x, holder[x] # t_ticket[x]
       PROVE  /\ i - n \in 1 .. L - n /\ q[i - n] = x
              /\ i <= tdExpired => i - n \in 1 .. tdExpired - n
  <2>1. i > n
    BY <1>12, <1>15, <1>16
  <2>2. i - n \in 1 .. L - n /\ i - n + n = i
    BY <1>12, <2>1
  <2>3. q[i - n] = x
    BY <1>12, <1>16, <2>2
  <2> QED BY <1>2, <1>12, <2>1, <2>2, <2>3
<1>17. Holders(t_holder, t_ticket, tdCancelled)'
  BY <1>7 DEF Scanning, Holders, tdHist
<1>18. Runners(tdQueue, tdExpired, t_holder, t_ticket, tdRun)'
  <2>1. PICK s : s = Stopped(k)
    OBVIOUS
  <2>2. ASSUME NEW l \in TdCpus, s[l] # TdNone
        PROVE  /\ In(tdQueue, tdExpired, s[l]) /\ t_ticket[s[l]] > 0 /\ holder[s[l]] = 0
               /\ \A m \in TdCpus : s[m] = s[l] => m = l
    BY <2>1, <2>2 DEF Scanning, Runners
  <2>3. ASSUME NEW l \in TdCpus, s[l] # TdNone PROVE In(q, tdExpired - n, s[l])
    <3>1. PICK i \in 1 .. tdExpired : tdQueue[i] = s[l]
      BY <2>2, <2>3 DEF In
    <3>2. i \in 1 .. L /\ i <= tdExpired
      BY <1>2
    <3>3. holder[s[l]] # t_ticket[s[l]]
      BY <2>2, <2>3
    <3>4. i - n \in 1 .. tdExpired - n /\ q[i - n] = s[l]
      BY <1>16, <3>1, <3>2, <3>3
    <3> QED BY <3>4 DEF In
  <2> QED BY <1>7, <1>10, <2>1, <2>2, <2>3 DEF Runners
<1>19. Waiters(tdQueue, t_holder, t_ticket, tdWait)'
  <2>1. ASSUME NEW u \in TdCallers, tdWait[u] # << >>
        PROVE  In(q, Len(q), tdWait[u][1])
    <3>1. /\ In(tdQueue, Len(tdQueue), tdWait[u][1]) /\ tdWait[u][1] \in TdCells
          /\ tdWait[u][2] \in Nat
          /\ holder[tdWait[u][1]] <= tdWait[u][2] /\ tdWait[u][2] < t_ticket[tdWait[u][1]]
      BY <1>1, <2>1 DEF Scanning, Waiters, TdTyped
    <3>2. PICK i \in 1 .. L : tdQueue[i] = tdWait[u][1]
      BY <1>2, <3>1 DEF In
    <3>3. holder[tdWait[u][1]] # t_ticket[tdWait[u][1]]
      <4>1. holder[tdWait[u][1]] \in Nat /\ t_ticket[tdWait[u][1]] \in Nat
        BY <1>1, <3>1 DEF TdTyped
      <4> QED BY <3>1, <4>1
    <3>4. i - n \in 1 .. Len(q) /\ q[i - n] = tdWait[u][1]
      BY <1>12, <1>16, <3>2, <3>3
    <3> QED BY <3>4 DEF In
  <2> QED BY <1>7, <1>10, <2>1 DEF Scanning, Waiters
<1>20. TdAsking'
  <2>1. ASSUME NEW l \in TdCpus, NEW j \in 1 .. tdExpired - n, Pends(q, t_cpu, t_ticket, j, l)
        PROVE  dcRun'[l]
    <3>1. q[j] = tdQueue[j + n] /\ j + n \in 1 .. tdExpired
      BY <1>12
    <3>2. PICK i \in 1 .. tdExpired : i = j + n
      BY <3>1
    <3>3. Pends(tdQueue, t_cpu, t_ticket, i, l)
      BY <2>1, <3>1, <3>2 DEF Pends
    <3>4. CASE l # k
      <4>1. dcRun[l]
        BY <3>3 DEF Scanning
      <4> QED BY <1>1, <1>7, <3>4, <4>1 DEF TdTyped
    <3>5. CASE l = k
      <4>1. failed \/ skipped
        <5>1. CASE i <= from - 1
          <6>1. i \in 1 .. from - 1
            BY <1>1, <1>2, <5>1
          <6> QED BY <3>3, <3>5, <6>1 DEF Scanning
        <5>2. CASE ~ (i <= from - 1)
          <6>1. i \in from .. tdExpired
            BY <1>1, <1>2, <5>2
          <6>2. Runnable(i, k)
            BY <3>3, <3>5 DEF Runnable, Pends
          <6> QED BY <6>1, <6>2
        <5> QED BY <5>1, <5>2
      <4>2. again
        BY <1>9, <4>1
      <4> QED BY <1>1, <1>7, <3>5, <4>2 DEF TdTyped
    <3> QED BY <3>4, <3>5
  <2>2. ASSUME NEW l \in TdCpus, dcRun'[l]
        PROVE  tdRun'[l] # TdNone \/ l \in dcDefint' \cup dcDefproc'
    <3>1. CASE l = k
      <4>1. again
        BY <1>1, <1>7, <2>2, <3>1 DEF TdTyped
      <4> QED BY <1>7, <3>1, <4>1
    <3>2. CASE l # k
      <4>1. dcRun[l] /\ tdRun'[l] = tdRun[l]
        BY <1>1, <1>7, <2>2, <3>2, StoppedIs DEF TdTyped
      <4>2. tdRun[l] # TdNone \/ l \in dcDefint \cup dcDefproc
        BY <3>2, <4>1 DEF Scanning
      <4> QED BY <1>7, <3>2, <4>1, <4>2
    <3> QED BY <3>1, <3>2
  <2> QED BY <1>7, <1>10, <2>1, <2>2 DEF TdAsking, Pends
<1>21. TdBehind'
  <2>1. ASSUME NEW l \in TdCpus, Stopped(k)[l] # TdNone, NEW a \in 1 .. tdExpired - n,
               q[a] = Stopped(k)[l], NEW j \in 1 .. a - 1, Pends(q, t_cpu, t_ticket, j, l)
        PROVE  tdFailed'[l]
    <3>1. l # k
      BY <1>1, <2>1, StoppedIs
    <3>2. tdFailed'[l] = tdFailed[l]
      BY <1>1, <1>7, <3>1 DEF TdTyped
    <3>3. j \in 1 .. tdExpired - n
      BY <1>2, <1>12
    <3>4. PICK b \in 1 .. tdExpired : b = a + n /\ tdQueue[b] = Stopped(k)[l]
      BY <1>12, <2>1
    <3>5. j + n \in 1 .. b - 1 /\ Pends(tdQueue, t_cpu, t_ticket, j + n, l)
      BY <1>12, <2>1, <3>3, <3>4 DEF Pends
    <3>6. tdFailed[l]
      <4>1. PICK x \in 1 .. b - 1 : x = j + n
        BY <3>5
      <4> QED BY <2>1, <3>4, <3>5, <4>1 DEF Scanning, Behind
    <3> QED BY <3>2, <3>6
  <2> QED BY <1>7, <1>10, <2>1 DEF TdBehind, Behind, Pends
<1> QED BY <1>13, <1>14, <1>17, <1>18, <1>19, <1>20, <1>21 DEF TdInv, TdTickets

LEMMA TimeoutsRun == ASSUME NEW k \in TdCpus PROVE TdInv /\ RUN_TIMEOUTS(k) => TdInv'
<1> SUFFICES ASSUME TdInv, RUN_TIMEOUTS(k) PROVE TdInv'
  OBVIOUS
<1>1. /\ tdRun[k] = TdNone /\ dcDefint' = dcDefint \ {k}
      /\ RunCall(k, 1, FALSE, t_holder) \/ RunEnd(k, 1, FALSE, t_holder)
  BY DEF RUN_TIMEOUTS
<1>2. TdTyped /\ TdTickets /\ CellQueue(tdQueue, tdExpired)
  BY DEF TdInv
<1>3. Stopped(k) = tdRun
  BY <1>1, <1>2 DEF Stopped, TdTyped
<1>4. Scanning(k, 1, FALSE, t_holder)
  <2>1. 1 \in 1 .. tdExpired + 1 /\ t_holder \in [TdCells -> Nat]
    BY <1>2 DEF CellQueue, TdTyped
  <2> QED BY <1>2, <1>3, <2>1 DEF Scanning, TdInv, TdTickets, TdAsking, TdBehind
<1> QED BY <1>1, <1>4, FunctionCalled, CellsFreed

LEMMA FunctionReturned == ASSUME NEW k \in TdCpus PROVE TdInv /\ RunReturn(k) => TdInv'
<1> SUFFICES ASSUME TdInv, RunReturn(k) PROVE TdInv'
  OBVIOUS
<1>1. PICK c : c = tdRun[k]
  OBVIOUS
<1>2. PICK i : i = CHOOSE j \in DOMAIN tdQueue : tdQueue[j] = c
  OBVIOUS
<1>3. PICK holder : holder = [t_holder EXCEPT ![c] = 1]
  OBVIOUS
<1>4. PICK from : from = 1 + i
  OBVIOUS
<1>5. /\ c # TdNone /\ dcDefint' = dcDefint
      /\ RunCall(k, from, tdFailed[k], holder) \/ RunEnd(k, from, tdFailed[k], holder)
  BY <1>1, <1>2, <1>3, <1>4 DEF RunReturn
<1>6. TdTyped /\ TdTickets /\ CellQueue(tdQueue, tdExpired) /\ TdTimely /\ TdAsking /\ TdBehind
  BY DEF TdInv
<1>7. /\ c \in TdCells /\ In(tdQueue, tdExpired, c) /\ t_ticket[c] > 0 /\ t_holder[c] = 0
      /\ \A l \in TdCpus : tdRun[l] = c => l = k
  BY <1>1, <1>5, <1>6 DEF TdTyped, TdTickets, Runners
<1>8. PICK n \in Nat : n = Len(tdQueue) /\ DOMAIN tdQueue = 1 .. n /\ tdExpired \in 0 .. n
  BY <1>6 DEF CellQueue
<1>9. i \in 1 .. tdExpired /\ tdQueue[i] = c
  <2>1. PICK j \in 1 .. tdExpired : tdQueue[j] = c
    BY <1>7 DEF In
  <2>2. j \in 1 .. n
    BY <1>8
  <2>3. i \in 1 .. n /\ tdQueue[i] = c
    BY <1>2, <1>8, <2>1, <2>2
  <2> QED BY <1>6, <1>7, <1>8, <2>3, InPlace
<1>10. /\ holder \in [TdCells -> Nat] /\ holder[c] = 1
       /\ \A x \in TdCells : x # c => holder[x] = t_holder[x]
  BY <1>3, <1>6, <1>7 DEF TdTyped
<1>11. t_ticket \in [TdCells -> Nat] /\ t_holder \in [TdCells -> Nat]
  BY <1>6 DEF TdTyped
<1>12. Holders(holder, t_ticket, tdCancelled)
  <2>1. \A x \in TdCells : holder[x] <= t_ticket[x]
    BY <1>6, <1>7, <1>10, <1>11 DEF TdTickets, Holders
  <2>2. \A x \in tdCancelled : holder[x] > 0
    <3> TAKE x \in tdCancelled
    <3>1. x \in TdCells /\ t_holder[x] > 0
      BY <1>6 DEF TdTickets, Holders, TdTyped
    <3>2. x = c \/ holder[x] = t_holder[x]
      BY <1>10, <3>1
    <3> QED BY <1>10, <3>1, <3>2
  <2> QED BY <2>1, <2>2 DEF Holders
<1>13. Runners(tdQueue, tdExpired, holder, t_ticket, Stopped(k))
  <2>1. PICK s : s = Stopped(k)
    OBVIOUS
  <2>2. s[k] = TdNone /\ \A l \in TdCpus : l # k => s[l] = tdRun[l]
    BY <1>6, <2>1, StoppedIs
  <2>3. ASSUME NEW l \in TdCpus, s[l] # TdNone
        PROVE  /\ In(tdQueue, tdExpired, s[l]) /\ t_ticket[s[l]] > 0 /\ holder[s[l]] = 0
               /\ \A m \in TdCpus : s[m] = s[l] => m = l
    <3>1. l # k /\ s[l] = tdRun[l] /\ tdRun[l] # c /\ tdRun[l] \in TdCells
      BY <1>6, <1>7, <2>2, <2>3 DEF TdTyped
    <3>2. /\ In(tdQueue, tdExpired, tdRun[l]) /\ t_ticket[tdRun[l]] > 0 /\ t_holder[tdRun[l]] = 0
          /\ \A m \in TdCpus : tdRun[m] = tdRun[l] => m = l
      BY <1>6, <2>3, <3>1 DEF TdTickets, Runners
    <3>3. \A m \in TdCpus : s[m] = s[l] => m = l
      BY <2>2, <2>3, <3>1, <3>2
    <3> QED BY <1>10, <3>1, <3>2, <3>3
  <2> QED BY <2>1, <2>3 DEF Runners
<1>14. Waiters(tdQueue, holder, t_ticket, tdWait)
  <2>1. ASSUME NEW u \in TdCallers, tdWait[u] # << >>
        PROVE  holder[tdWait[u][1]] <= tdWait[u][2]
    <3>1. /\ tdWait[u][1] \in TdCells /\ tdWait[u][2] \in Nat /\ tdWait[u][2] > 0
          /\ t_holder[tdWait[u][1]] <= tdWait[u][2]
      BY <1>6, <2>1 DEF TdTickets, Waiters, TdTyped
    <3>2. CASE tdWait[u][1] = c
      BY <1>10, <3>1, <3>2
    <3>3. CASE tdWait[u][1] # c
      BY <1>10, <3>1, <3>3
    <3> QED BY <3>2, <3>3
  <2> QED BY <1>6, <2>1 DEF TdTickets, Waiters
<1>15. \A j \in 1 .. from - 1 : Pends(tdQueue, t_cpu, t_ticket, j, k) => tdFailed[k]
  <2> TAKE j \in 1 .. from - 1
  <2>1. j \in 1 .. i - 1 \/ j = i
    BY <1>4, <1>8, <1>9
  <2>2. j = i => ~ Pends(tdQueue, t_cpu, t_ticket, j, k)
    BY <1>7, <1>9, <1>11 DEF Pends
  <2>3. j \in 1 .. i - 1 /\ Pends(tdQueue, t_cpu, t_ticket, j, k) => tdFailed[k]
    BY <1>1, <1>5, <1>6, <1>9 DEF TdBehind, Behind
  <2> QED BY <2>1, <2>2, <2>3
<1>16. Behind(tdQueue, tdExpired, t_cpu, t_ticket, Stopped(k), tdFailed)
  <2>1. Stopped(k)[k] = TdNone /\ \A l \in TdCpus : l # k => Stopped(k)[l] = tdRun[l]
    BY <1>6, StoppedIs
  <2> QED BY <1>6, <2>1 DEF TdBehind, Behind
<1>17. from \in 1 .. tdExpired + 1 /\ tdFailed[k] \in BOOLEAN
  BY <1>4, <1>6, <1>8, <1>9 DEF TdTyped
<1>18. Scanning(k, from, tdFailed[k], holder)
  BY <1>6, <1>10, <1>12, <1>13, <1>14, <1>15, <1>16, <1>17 DEF Scanning, TdAsking
<1>19. PICK failed : failed = tdFailed[k]
  OBVIOUS
<1> QED BY <1>5, <1>18, <1>19, FunctionCalled, CellsFreed

LEMMA PosOfIs ==
  ASSUME CellQueue(tdQueue, tdExpired), NEW c \in Queued
  PROVE  PosOf(c) \in 1 .. Len(tdQueue) /\ tdQueue[PosOf(c)] = c /\ c \in TdCells
<1>1. DOMAIN tdQueue = 1 .. Len(tdQueue) /\ \A i \in 1 .. Len(tdQueue) : tdQueue[i] \in TdCells
  BY DEF CellQueue
<1>2. \E i \in DOMAIN tdQueue : tdQueue[i] = c
  BY DEF Queued
<1>3. PosOf(c) \in DOMAIN tdQueue /\ tdQueue[PosOf(c)] = c
  BY <1>2 DEF PosOf
<1> QED BY <1>1, <1>3

LEMMA CancelledAtOnce ==
  ASSUME NEW u \in TdCallers, NEW c \in TdCells, NEW k \in TdCpus
  PROVE  TdInv /\ untimeout(u, c, k) => TdInv'
<1> SUFFICES ASSUME TdInv, untimeout(u, c, k) PROVE TdInv'
  OBVIOUS
<1>1. PICK i : i = PosOf(c)
  OBVIOUS
<1>2. PICK t : t = t_ticket[c]
  OBVIOUS
<1>3. /\ c \in Queued /\ t = t_holder[c]
      /\ t_ticket' = [t_ticket EXCEPT ![c] = t + 1]
      /\ t_holder' = [t_holder EXCEPT ![c] = t + 1]
      /\ t_cpu' = [t_cpu EXCEPT ![c] = k]
      /\ IF t = 0 /\ i # 1
         THEN /\ tdQueue' = <<c>> \o RemoveAt(tdQueue, i)
              /\ tdExpired' = IF i > tdExpired THEN tdExpired + 1 ELSE tdExpired
              /\ t_delta' = Lengthened(i)
         ELSE UNCHANGED <<tdQueue, tdExpired, t_delta>>
      /\ tdCancelled' = tdCancelled \cup {c}
      /\ UNCHANGED <<tdRun, tdFailed, dcRun, dcDefint, dcDefproc, tdWait, tdNow,
                     tdDue, tdStarted>>
  BY <1>1, <1>2 DEF untimeout
<1>4. TdTyped /\ TdTickets /\ CellQueue(tdQueue, tdExpired) /\ TdTimely /\ TdAsking /\ TdBehind
  BY DEF TdInv
<1>5. PICK n \in Nat : n = Len(tdQueue) /\ tdExpired \in 0 .. n
  BY <1>4 DEF CellQueue
<1>6. /\ \A j \in 1 .. n : tdQueue[j] \in TdCells
      /\ \A j, m \in 1 .. n : tdQueue[j] = tdQueue[m] => j = m
  BY <1>4, <1>5 DEF CellQueue
<1>7. i \in 1 .. n /\ tdQueue[i] = c
  BY <1>1, <1>3, <1>4, <1>5, PosOfIs
<1>8. /\ t \in Nat
      /\ t_ticket' \in [TdCells -> Nat] /\ t_ticket'[c] = t + 1
      /\ \A x \in TdCells : x # c => t_ticket'[x] = t_ticket[x]
  BY <1>2, <1>3, <1>4 DEF TdTyped
<1>9. /\ t_holder' \in [TdCells -> Nat] /\ t_holder'[c] = t + 1
      /\ \A x \in TdCells : x # c => t_holder'[x] = t_holder[x]
  BY <1>3, <1>4, <1>8 DEF TdTyped
<1>10. /\ t_cpu' \in [TdCells -> TdCpus \cup {TdNone}]
       /\ \A x \in TdCells : x # c => t_cpu'[x] = t_cpu[x]
  BY <1>3, <1>4 DEF TdTyped
<1>11. \A l \in TdCpus : tdRun[l] # TdNone => tdRun[l] # c /\ tdRun[l] \in TdCells
  <2> TAKE l \in TdCpus
  <2>1. tdRun[l] # TdNone => t_ticket[tdRun[l]] > 0 /\ t_holder[tdRun[l]] = 0
    BY <1>4 DEF TdTickets, Runners
  <2>2. tdRun[l] # TdNone => tdRun[l] \in TdCells
    BY <1>4 DEF TdTyped
  <2>3. t_ticket[c] = t_holder[c]
    BY <1>2, <1>3
  <2>4. ASSUME tdRun[l] # TdNone, tdRun[l] = c PROVE FALSE
    BY <2>1, <2>3, <2>4
  <2> QED BY <2>2, <2>4
<1>12. ASSUME NEW x \in TdCells, t_ticket'[x] = 0 PROVE t_ticket[x] = 0 /\ x # c
  BY <1>8, <1>12
<1>13. Holders(t_holder, t_ticket, tdCancelled)'
  <2>1. \A x \in TdCells : t_holder'[x] <= t_ticket'[x]
    <3> TAKE x \in TdCells
    <3>1. t_holder[x] <= t_ticket[x]
      BY <1>4 DEF TdTickets, Holders
    <3>2. t_holder'[c] <= t_ticket'[c]
      BY <1>8, <1>9
    <3> QED BY <1>8, <1>9, <3>1, <3>2
  <2>2. ASSUME NEW x \in tdCancelled' PROVE t_holder'[x] > 0
    <3>1. CASE x = c
      BY <1>8, <1>9, <3>1
    <3>2. CASE x # c
      <4>1. x \in TdCells /\ t_holder[x] > 0
        BY <1>3, <1>4, <2>2, <3>2 DEF TdTickets, Holders, TdTyped
      <4> QED BY <1>9, <3>2, <4>1
    <3> QED BY <3>1, <3>2
  <2> QED BY <2>1, <2>2 DEF Holders
<1>14. ASSUME NEW w \in TdCallers, tdWait[w] # << >>
       PROVE  tdWait[w][1] # c /\ tdWait[w][1] \in TdCells
  <2>1. /\ tdWait[w][1] \in TdCells /\ tdWait[w][2] \in Nat
        /\ t_holder[tdWait[w][1]] <= tdWait[w][2] /\ tdWait[w][2] < t_ticket[tdWait[w][1]]
    BY <1>4, <1>14 DEF TdTickets, Waiters, TdTyped
  <2>2. ASSUME tdWait[w][1] = c PROVE FALSE
    <3>1. t <= tdWait[w][2] /\ tdWait[w][2] < t /\ tdWait[w][2] \in Nat
      BY <1>2, <1>3, <2>1, <2>2
    <3> QED BY <1>8, <3>1
  <2> QED BY <2>1, <2>2
<1>15. CASE ~ (t = 0 /\ i # 1)
  <2>1. UNCHANGED <<tdQueue, tdExpired, t_delta>>
    BY <1>3, <1>15
  <2>2. TdTyped'
    BY <1>3, <1>4, <1>8, <1>9, <1>10, <2>1 DEF TdTyped
  <2>3. CellQueue(tdQueue, tdExpired)' /\ TdTimely'
    <3>1. PICK P : Timed(P, tdQueue, tdExpired, t_delta, t_ticket, tdDue, tdNow)
      BY <1>4 DEF TdTimely
    <3>2. PICK t2 : t2 = t_ticket'
      OBVIOUS
    <3>3. \A j \in 1 .. Len(tdQueue) : t2[tdQueue[j]] = 0 => t_ticket[tdQueue[j]] = 0
      BY <1>5, <1>6, <1>12, <3>2
    <3>4. Timed(P, tdQueue, tdExpired, t_delta, t2, tdDue, tdNow)
      BY <3>1, <3>3, TimedSame
    <3> QED BY <1>3, <1>4, <2>1, <3>2, <3>4 DEF TdTimely, CellQueue
  <2>4. Runners(tdQueue, tdExpired, t_holder, t_ticket, tdRun)'
    <3>1. \A l \in TdCpus : tdRun[l] # TdNone =>
            t_ticket'[tdRun[l]] = t_ticket[tdRun[l]] /\ t_holder'[tdRun[l]] = t_holder[tdRun[l]]
      BY <1>8, <1>9, <1>11
    <3> QED BY <1>3, <1>4, <2>1, <3>1 DEF TdTickets, Runners
  <2>5. Waiters(tdQueue, t_holder, t_ticket, tdWait)'
    <3>1. \A w \in TdCallers : tdWait[w] # << >> =>
            t_ticket'[tdWait[w][1]] = t_ticket[tdWait[w][1]]
            /\ t_holder'[tdWait[w][1]] = t_holder[tdWait[w][1]]
      BY <1>8, <1>9, <1>14
    <3> QED BY <1>3, <1>4, <2>1, <3>1 DEF TdTickets, Waiters
  <2>6. ASSUME NEW l, NEW j \in 1 .. tdExpired, Pends(tdQueue, t_cpu', t_ticket', j, l)
        PROVE  Pends(tdQueue, t_cpu, t_ticket, j, l)
    <3>1. tdQueue[j] \in TdCells
      BY <1>5, <1>6
    <3> QED BY <1>10, <1>12, <2>6, <3>1 DEF Pends
  <2>7. TdAsking'
    <3>1. \A l \in TdCpus, j \in 1 .. tdExpired : Pends(tdQueue, t_cpu', t_ticket', j, l) => dcRun[l]
      BY <1>4, <2>6 DEF TdAsking
    <3> QED BY <1>3, <1>4, <2>1, <3>1 DEF TdAsking, Pends
  <2>8. TdBehind'
    <3>1. \A a \in 1 .. tdExpired : \A j \in 1 .. a - 1 : j \in 1 .. tdExpired
      BY <1>5
    <3>2. Behind(tdQueue, tdExpired, t_cpu', t_ticket', tdRun, tdFailed)
      BY <1>4, <2>6, <3>1 DEF TdBehind, Behind
    <3> QED BY <1>3, <2>1, <3>2 DEF TdBehind, Behind, Pends
  <2> QED BY <1>13, <2>2, <2>3, <2>4, <2>5, <2>7, <2>8 DEF TdInv, TdTickets
<1>16. CASE t = 0 /\ i # 1
  <2>1. PICK q, f : q = tdQueue' /\ f = tdExpired'
    OBVIOUS
  <2>2. /\ q = <<c>> \o RemoveAt(tdQueue, i) /\ t_delta' = Lengthened(i)
        /\ f = IF i > tdExpired THEN tdExpired + 1 ELSE tdExpired
    BY <1>3, <1>16, <2>1
  <2>3. i \in 2 .. n /\ f \in 0 .. n
    BY <1>5, <1>7, <1>16, <2>2
  <2>4. Fronted(tdQueue, q, i) /\ CellQueue(q, f)
    BY <1>4, <1>5, <1>7, <2>2, <2>3, FrontedIs
  <2>5. /\ Len(q) = n /\ q[1] = c
        /\ \A j \in 2 .. i : q[j] = tdQueue[j - 1] /\ j - 1 \in 1 .. n
        /\ \A j \in i + 1 .. n : q[j] = tdQueue[j]
    <3>1. \A j \in 2 .. i : j - 1 \in 1 .. n
      BY <2>3
    <3> QED BY <1>5, <1>7, <2>4, <3>1 DEF Fronted
  <2>6. /\ t_delta' \in [TdCells -> Nat] /\ t_delta'[c] = 0
        /\ i < n => t_delta'[tdQueue[i + 1]] = t_delta[tdQueue[i + 1]] + t_delta[c]
        /\ \A j \in 1 .. n : j # i /\ j # i + 1 => t_delta'[tdQueue[j]] = t_delta[tdQueue[j]]
    <3>1. t_delta' = [x \in TdCells |->
             IF x = c THEN 0
             ELSE IF i < n /\ x = tdQueue[i + 1] THEN t_delta[x] + t_delta[c] ELSE t_delta[x]]
      BY <1>5, <1>7, <2>2 DEF Lengthened
    <3>2. t_delta \in [TdCells -> Nat]
      BY <1>4 DEF TdTyped
    <3>3. t_delta' \in [TdCells -> Nat] /\ t_delta'[c] = 0
      BY <3>1, <3>2
    <3>4. ASSUME i < n PROVE t_delta'[tdQueue[i + 1]] = t_delta[tdQueue[i + 1]] + t_delta[c]
      <4>1. i + 1 \in 1 .. n /\ i + 1 # i
        BY <1>7, <3>4
      <4>2. tdQueue[i + 1] \in TdCells /\ tdQueue[i + 1] # c
        BY <1>6, <1>7, <4>1
      <4> QED BY <3>1, <3>4, <4>2
    <3>5. ASSUME NEW j \in 1 .. n, j # i, j # i + 1
          PROVE  t_delta'[tdQueue[j]] = t_delta[tdQueue[j]]
      <4>1. tdQueue[j] \in TdCells /\ tdQueue[j] # c
        BY <1>6, <1>7, <3>5
      <4>2. i < n => tdQueue[j] # tdQueue[i + 1]
        <5>1. i < n => i + 1 \in 1 .. n
          BY <1>7
        <5> QED BY <1>6, <3>5, <5>1
      <4> QED BY <3>1, <4>1, <4>2
    <3> QED BY <3>3, <3>4, <3>5
  <2>7. TdTyped'
    BY SMTT(30), <1>3, <1>4, <1>8, <1>9, <1>10, <2>6 DEF TdTyped
  <2>8. CellQueue(tdQueue, tdExpired)' /\ TdTimely'
    <3>1. PICK P : Timed(P, tdQueue, tdExpired, t_delta, t_ticket, tdDue, tdNow)
      BY <1>4 DEF TdTimely
    <3>2. PICK t2, d2 : t2 = t_ticket' /\ d2 = t_delta'
      OBVIOUS
    <3>3. Passed(tdQueue, i, t_delta, d2)
      BY <1>4, <1>5, <1>6, <1>7, <2>6, <3>2 DEF Passed, TdTyped
    <3>4. Given(tdQueue, i, t_ticket, t2)
      <4>1. \A j \in 1 .. n : j # i => tdQueue[j] # c
        BY <1>6, <1>7
      <4> QED BY <1>5, <1>6, <1>7, <1>8, <3>2, <4>1 DEF Given
    <3>5. i \in 2 .. Len(tdQueue)
      BY <1>5, <2>3
    <3>6. \E R : Timed(R, q, f, d2, t2, tdDue, tdNow)
      BY <1>4, <2>2, <2>4, <3>1, <3>3, <3>4, <3>5, TimedFronted
    <3> QED BY <1>3, <2>1, <2>4, <3>2, <3>6 DEF TdTimely
  <2>9. \A j \in 1 .. n :
          \/ j = 1 /\ q[j] = c
          \/ j > 1 /\ j <= i /\ j - 1 \in 1 .. n /\ q[j] = tdQueue[j - 1]
          \/ j > i /\ q[j] = tdQueue[j]
    BY <1>7, <2>5
  <2>10. \A j \in 1 .. f : j \in 1 .. n
    BY <1>5, <2>3
  <2>11. ASSUME NEW j \in 1 .. n
         PROVE  \E m \in 1 .. n : q[m] = tdQueue[j] /\ (j <= tdExpired => m \in 1 .. f)
    <3>1. CASE j < i
      <4>1. j + 1 \in 2 .. i /\ j + 1 - 1 = j /\ j + 1 \in 1 .. n
        BY <1>7, <3>1
      <4>2. q[j + 1] = tdQueue[j]
        BY <2>5, <4>1
      <4>3. j <= tdExpired => j + 1 \in 1 .. f
        BY <1>5, <1>7, <2>2, <3>1
      <4> QED BY <4>1, <4>2, <4>3
    <3>2. CASE j = i
      <4>1. q[1] = tdQueue[j] /\ 1 \in 1 .. n
        BY <1>7, <2>5, <3>2
      <4>2. j <= tdExpired => 1 \in 1 .. f
        BY <1>5, <1>7, <2>2, <3>2
      <4> QED BY <4>1, <4>2
    <3>3. CASE j > i
      <4>1. q[j] = tdQueue[j]
        BY <1>7, <2>5, <3>3
      <4>2. j <= tdExpired => j \in 1 .. f
        BY <1>5, <1>7, <2>2, <3>3
      <4> QED BY <4>1, <4>2
    <3> QED BY <1>7, <3>1, <3>2, <3>3
  <2>12. Runners(tdQueue, tdExpired, t_holder, t_ticket, tdRun)'
    <3>1. ASSUME NEW l \in TdCpus, tdRun[l] # TdNone
          PROVE  /\ t_ticket'[tdRun[l]] = t_ticket[tdRun[l]]
                 /\ t_holder'[tdRun[l]] = t_holder[tdRun[l]] /\ In(q, f, tdRun[l])
      <4>1. PICK j \in 1 .. tdExpired : tdQueue[j] = tdRun[l]
        BY <1>4, <3>1 DEF TdTickets, Runners, In
      <4>2. j \in 1 .. n /\ j <= tdExpired
        BY <1>5
      <4>3. PICK m \in 1 .. f : q[m] = tdQueue[j]
        BY <2>11, <4>2
      <4> QED BY <1>8, <1>9, <1>11, <3>1, <4>1, <4>3 DEF In
    <3> QED BY <1>3, <1>4, <2>1, <3>1 DEF TdTickets, Runners
  <2>13. Waiters(tdQueue, t_holder, t_ticket, tdWait)'
    <3>1. ASSUME NEW w \in TdCallers, tdWait[w] # << >>
          PROVE  /\ t_ticket'[tdWait[w][1]] = t_ticket[tdWait[w][1]]
                 /\ t_holder'[tdWait[w][1]] = t_holder[tdWait[w][1]]
                 /\ In(q, Len(q), tdWait[w][1])
      <4>1. PICK j \in 1 .. n : tdQueue[j] = tdWait[w][1]
        BY <1>4, <1>5, <3>1 DEF TdTickets, Waiters, In
      <4>2. PICK m \in 1 .. n : q[m] = tdQueue[j]
        BY <2>11
      <4> QED BY <1>8, <1>9, <1>14, <2>5, <3>1, <4>1, <4>2 DEF In
    <3> QED BY <1>3, <1>4, <2>1, <3>1 DEF TdTickets, Waiters
  <2>14. ASSUME NEW l, NEW j \in 1 .. f, Pends(q, t_cpu', t_ticket', j, l)
         PROVE  \E m \in 1 .. tdExpired :
                  /\ q[j] = tdQueue[m] /\ Pends(tdQueue, t_cpu, t_ticket, m, l)
                  /\ m = IF j <= i THEN j - 1 ELSE j
    <3>1. j \in 1 .. n
      BY <2>10
    <3>2. PICK x : x = q[j] /\ t_cpu'[x] = l /\ t_ticket'[x] = 0
      BY <2>14 DEF Pends
    <3>3. t_ticket'[c] # 0
      BY <1>8
    <3>4. j # 1
      BY <2>5, <3>2, <3>3
    <3>5. PICK m : m = IF j <= i THEN j - 1 ELSE j
      OBVIOUS
    <3>6. m \in 1 .. n /\ q[j] = tdQueue[m]
      BY <1>7, <2>9, <3>1, <3>4, <3>5
    <3>7. m \in 1 .. tdExpired
      BY <1>5, <1>7, <2>2, <3>1, <3>4, <3>5, <3>6
    <3>8. x \in TdCells /\ x = tdQueue[m]
      BY <1>6, <3>2, <3>6
    <3>9. Pends(tdQueue, t_cpu, t_ticket, m, l)
      BY <1>10, <1>12, <3>2, <3>8 DEF Pends
    <3> QED BY <3>5, <3>6, <3>7, <3>9
  <2>15. TdAsking'
    <3>1. \A l \in TdCpus, j \in 1 .. f : Pends(q, t_cpu', t_ticket', j, l) => dcRun[l]
      BY <1>4, <2>14 DEF TdAsking
    <3> QED BY <1>3, <1>4, <2>1, <3>1 DEF TdAsking, Pends
  <2>16. TdBehind'
    <3>1. ASSUME NEW l \in TdCpus, tdRun[l] # TdNone, NEW a \in 1 .. f, q[a] = tdRun[l],
                 NEW j \in 1 .. a - 1, Pends(q, t_cpu', t_ticket', j, l)
          PROVE  tdFailed[l]
      <4>1. j \in 1 .. f /\ a \in 1 .. n
        BY <2>3, <2>10
      <4>2. PICK m \in 1 .. tdExpired :
                  /\ q[j] = tdQueue[m] /\ Pends(tdQueue, t_cpu, t_ticket, m, l)
                  /\ m = IF j <= i THEN j - 1 ELSE j
        BY <2>14, <3>1, <4>1
      <4>3. a # 1
        BY <1>11, <2>5, <3>1
      <4>4. PICK b : b = IF a <= i THEN a - 1 ELSE a
        OBVIOUS
      <4>5. b \in 1 .. n /\ tdQueue[b] = tdRun[l]
        BY <1>7, <2>9, <3>1, <4>1, <4>3, <4>4
      <4>6. b \in 1 .. tdExpired
        BY <1>5, <1>7, <2>2, <4>1, <4>3, <4>4, <4>5
      <4>7. m \in 1 .. b - 1
        BY <1>7, <4>1, <4>2, <4>4
      <4> QED BY <1>4, <3>1, <4>2, <4>5, <4>6, <4>7 DEF TdBehind, Behind
    <3> QED BY <1>3, <2>1, <3>1 DEF TdBehind, Behind
  <2> QED BY <1>13, <2>7, <2>8, <2>12, <2>13, <2>15, <2>16 DEF TdInv, TdTickets
<1> QED BY <1>15, <1>16

LEMMA TicketTaken ==
  ASSUME NEW u \in TdCallers, NEW c \in TdCells, NEW k \in TdCpus
  PROVE  TdInv /\ untimeoutWait(u, c, k) => TdInv'
<1> SUFFICES ASSUME TdInv, untimeoutWait(u, c, k) PROVE TdInv'
  OBVIOUS
<1>1. PICK t : t = t_ticket[c]
  OBVIOUS
<1>2. /\ tdWait[u] = << >> /\ c \in Queued /\ t # t_holder[c]
      /\ tdWait' = [tdWait EXCEPT ![u] = <<c, t>>]
      /\ t_ticket' = [t_ticket EXCEPT ![c] = t + 1]
      /\ t_cpu' = [t_cpu EXCEPT ![c] = k]
      /\ UNCHANGED <<tdQueue, tdExpired, t_delta, t_holder, tdRun, tdFailed, dcRun,
                     dcDefint, dcDefproc, tdHist>>
  BY <1>1 DEF untimeoutWait
<1>3. TdTyped /\ TdTickets /\ CellQueue(tdQueue, tdExpired) /\ TdTimely /\ TdAsking /\ TdBehind
  BY DEF TdInv
<1>4. PICK n \in Nat : n = Len(tdQueue) /\ tdExpired \in 0 .. n
  BY <1>3 DEF CellQueue
<1>5. \A j \in 1 .. n : tdQueue[j] \in TdCells
  BY <1>3, <1>4 DEF CellQueue
<1>6. t \in Nat /\ t_holder[c] \in Nat /\ t_holder[c] < t /\ t > 0
  BY <1>1, <1>2, <1>3 DEF TdTyped, TdTickets, Holders
<1>7. /\ t_ticket' \in [TdCells -> Nat] /\ t_ticket'[c] = t + 1
      /\ \A x \in TdCells : x # c => t_ticket'[x] = t_ticket[x]
  BY <1>2, <1>3, <1>6 DEF TdTyped
<1>8. /\ t_cpu' \in [TdCells -> TdCpus \cup {TdNone}]
      /\ \A x \in TdCells : x # c => t_cpu'[x] = t_cpu[x]
  BY <1>2, <1>3 DEF TdTyped
<1>9. /\ tdWait' \in [TdCallers -> {<< >>} \cup TdCells \X Nat] /\ tdWait'[u] = <<c, t>>
      /\ \A w \in TdCallers : w # u => tdWait'[w] = tdWait[w]
  BY <1>2, <1>3, <1>6 DEF TdTyped
<1>10. ASSUME NEW x \in TdCells
       PROVE  /\ t_ticket'[x] = 0 => t_ticket[x] = 0 /\ x # c
              /\ t_ticket[x] <= t_ticket'[x] /\ t_ticket[x] \in Nat
  BY <1>1, <1>3, <1>7 DEF TdTyped
<1>11. TdTyped'
  BY <1>2, <1>3, <1>7, <1>8, <1>9 DEF TdTyped, tdHist
<1>12. CellQueue(tdQueue, tdExpired)' /\ TdTimely'
  <2>1. PICK P : Timed(P, tdQueue, tdExpired, t_delta, t_ticket, tdDue, tdNow)
    BY <1>3 DEF TdTimely
  <2>2. PICK t2 : t2 = t_ticket'
    OBVIOUS
  <2>3. \A j \in 1 .. Len(tdQueue) : t2[tdQueue[j]] = 0 => t_ticket[tdQueue[j]] = 0
    BY <1>4, <1>5, <1>10, <2>2
  <2>4. Timed(P, tdQueue, tdExpired, t_delta, t2, tdDue, tdNow)
    BY <2>1, <2>3, TimedSame
  <2> QED BY <1>2, <1>3, <2>2, <2>4 DEF TdTimely, CellQueue, tdHist
<1>13. Holders(t_holder, t_ticket, tdCancelled)'
  <2>1. ASSUME NEW x \in TdCells PROVE t_holder[x] <= t_ticket'[x]
    <3>1. t_holder[x] <= t_ticket[x] /\ t_holder[x] \in Nat
      BY <1>3 DEF TdTickets, Holders, TdTyped
    <3> QED BY <1>7, <1>10, <3>1
  <2> QED BY <1>2, <1>3, <2>1 DEF Holders, TdTickets, tdHist
<1>14. Runners(tdQueue, tdExpired, t_holder, t_ticket, tdRun)'
  <2>1. ASSUME NEW l \in TdCpus, tdRun[l] # TdNone PROVE t_ticket'[tdRun[l]] > 0
    <3>1. tdRun[l] \in TdCells /\ t_ticket[tdRun[l]] > 0
      BY <1>3, <2>1 DEF TdTyped, TdTickets, Runners
    <3> QED BY <1>7, <1>10, <3>1
  <2> QED BY <1>2, <1>3, <2>1 DEF TdTickets, Runners
<1>15. Waiters(tdQueue, t_holder, t_ticket, tdWait)'
  <2>1. In(tdQueue, Len(tdQueue), c)
    <3>1. DOMAIN tdQueue = 1 .. Len(tdQueue)
      BY <1>3 DEF CellQueue
    <3> QED BY <1>2, <3>1 DEF In, Queued
  <2>2. ASSUME NEW w \in TdCallers, w # u, tdWait[w] # << >>
        PROVE  /\ tdWait[w][1] \in TdCells /\ tdWait[w][2] \in Nat
               /\ In(tdQueue, Len(tdQueue), tdWait[w][1]) /\ tdWait[w][2] > 0
               /\ t_holder[tdWait[w][1]] <= tdWait[w][2]
               /\ tdWait[w][2] < t_ticket[tdWait[w][1]]
    BY <1>3, <2>2 DEF TdTickets, Waiters, TdTyped
  <2>3. ASSUME NEW w \in TdCallers, tdWait'[w] # << >>
        PROVE  /\ In(tdQueue, Len(tdQueue), tdWait'[w][1]) /\ tdWait'[w][2] > 0
               /\ t_holder[tdWait'[w][1]] <= tdWait'[w][2]
               /\ tdWait'[w][2] < t_ticket'[tdWait'[w][1]]
    <3>1. CASE w = u
      BY <1>6, <1>7, <1>9, <2>1, <3>1
    <3>2. CASE w # u
      <4>1. tdWait'[w] = tdWait[w]
        BY <1>9, <3>2
      <4>2. PICK x \in TdCells, y \in Nat : x = tdWait[w][1] /\ y = tdWait[w][2]
        BY <2>2, <2>3, <3>2, <4>1
      <4>3. y < t_ticket[x] /\ t_ticket[x] <= t_ticket'[x] /\ t_ticket[x] \in Nat
            /\ t_ticket'[x] \in Nat
        BY <1>7, <1>10, <2>2, <2>3, <3>2, <4>1, <4>2
      <4>4. y < t_ticket'[x]
        BY <4>3
      <4> QED BY <2>2, <2>3, <3>2, <4>1, <4>2, <4>4
    <3> QED BY <3>1, <3>2
  <2>4. ASSUME NEW w \in TdCallers, w # u, tdWait[w] # << >> PROVE tdWait[w] # <<c, t>>
    BY <1>1, <1>6, <2>2, <2>4
  <2>5. ASSUME NEW v \in TdCallers, NEW w \in TdCallers, tdWait'[v] # << >>,
               tdWait'[v] = tdWait'[w]
        PROVE  v = w
    <3>1. CASE v # u /\ w # u
      <4>1. tdWait[v] # << >> /\ tdWait[v] = tdWait[w]
        BY <1>9, <2>5, <3>1
      <4> QED BY <1>3, <4>1 DEF TdTickets, Waiters
    <3>2. CASE v = u /\ w # u
      BY <1>9, <2>4, <2>5, <3>2
    <3>3. CASE v # u /\ w = u
      BY <1>9, <2>4, <2>5, <3>3
    <3> QED BY <3>1, <3>2, <3>3
  <2> QED BY <1>2, <2>3, <2>5 DEF Waiters
<1>16. ASSUME NEW l, NEW j \in 1 .. tdExpired, Pends(tdQueue, t_cpu', t_ticket', j, l)
       PROVE  Pends(tdQueue, t_cpu, t_ticket, j, l)
  <2>1. tdQueue[j] \in TdCells
    BY <1>4, <1>5
  <2> QED BY <1>8, <1>10, <1>16, <2>1 DEF Pends
<1>17. TdAsking'
  <2>1. \A l \in TdCpus, j \in 1 .. tdExpired : Pends(tdQueue, t_cpu', t_ticket', j, l) => dcRun[l]
    BY <1>3, <1>16 DEF TdAsking
  <2> QED BY <1>2, <1>3, <2>1 DEF TdAsking, Pends
<1>18. TdBehind'
  <2>1. \A a \in 1 .. tdExpired : \A j \in 1 .. a - 1 : j \in 1 .. tdExpired
    BY <1>4
  <2>2. Behind(tdQueue, tdExpired, t_cpu', t_ticket', tdRun, tdFailed)
    BY <1>3, <1>16, <2>1 DEF TdBehind, Behind
  <2> QED BY <1>2, <2>2 DEF TdBehind, Behind, Pends
<1> QED BY <1>11, <1>12, <1>13, <1>14, <1>15, <1>17, <1>18 DEF TdInv, TdTickets

LEMMA TicketReturned ==
  ASSUME NEW u \in TdCallers
  PROVE  TdInv /\ untimeoutDone(u) => TdInv'
<1> SUFFICES ASSUME TdInv, untimeoutDone(u) PROVE TdInv'
  OBVIOUS
<1>1. TdTyped /\ TdTickets /\ CellQueue(tdQueue, tdExpired) /\ TdTimely /\ TdAsking /\ TdBehind
  BY DEF TdInv
<1>2. tdWait[u] # << >>
  BY DEF untimeoutDone
<1>3. PICK c \in TdCells, w \in Nat : tdWait[u][1] = c /\ tdWait[u][2] = w /\ tdWait[u] = <<c, w>>
  <2>1. tdWait[u] \in TdCells \X Nat
    BY <1>1, <1>2 DEF TdTyped
  <2>2. PICK c \in TdCells, w \in Nat : tdWait[u] = <<c, w>>
    BY <2>1
  <2>3. tdWait[u][1] = c /\ tdWait[u][2] = w
    BY <2>2
  <2> QED BY <2>2, <2>3
<1>4. /\ t_holder[c] = w
      /\ t_holder' = [t_holder EXCEPT ![c] = w + 1]
      /\ tdCancelled' = tdCancelled \cup {c}
      /\ tdWait' = [tdWait EXCEPT ![u] = << >>]
      /\ UNCHANGED <<tdQueue, tdExpired, t_delta, t_ticket, t_cpu, tdRun, tdFailed,
                     dcRun, dcDefint, dcDefproc, tdNow, tdDue, tdStarted>>
  BY <1>3 DEF untimeoutDone
<1>5. w > 0 /\ w < t_ticket[c] /\ t_ticket[c] \in Nat
  BY <1>1, <1>2, <1>3 DEF TdTickets, Waiters, TdTyped
<1>6. /\ t_holder' \in [TdCells -> Nat] /\ t_holder'[c] = w + 1
      /\ \A x \in TdCells : x # c => t_holder'[x] = t_holder[x]
  BY <1>1, <1>4 DEF TdTyped
<1>7. /\ tdWait' \in [TdCallers -> {<< >>} \cup TdCells \X Nat] /\ tdWait'[u] = << >>
      /\ \A v \in TdCallers : v # u => tdWait'[v] = tdWait[v]
  BY <1>1, <1>4 DEF TdTyped
<1>8. TdTyped'
  BY <1>1, <1>4, <1>6, <1>7 DEF TdTyped
<1>9. CellQueue(tdQueue, tdExpired)' /\ TdTimely'
  BY <1>1, <1>4 DEF CellQueue, TdTimely
<1>10. TdAsking' /\ TdBehind'
  BY <1>1, <1>4 DEF TdAsking, TdBehind, Behind, Pends
<1>11. Holders(t_holder, t_ticket, tdCancelled)'
  <2>1. ASSUME NEW x \in TdCells PROVE t_holder'[x] <= t_ticket[x]
    <3>1. CASE x = c
      BY <1>5, <1>6, <3>1
    <3>2. CASE x # c
      BY <1>1, <1>6, <3>2 DEF TdTickets, Holders
    <3> QED BY <3>1, <3>2
  <2>2. ASSUME NEW x \in tdCancelled' PROVE t_holder'[x] > 0
    <3>1. CASE x = c
      BY <1>6, <3>1
    <3>2. CASE x # c
      <4>1. x \in TdCells /\ t_holder[x] > 0
        BY <1>1, <1>4, <2>2, <3>2 DEF TdTickets, Holders, TdTyped
      <4> QED BY <1>6, <3>2, <4>1
    <3> QED BY <3>1, <3>2
  <2> QED BY <1>4, <2>1, <2>2 DEF Holders
<1>12. Runners(tdQueue, tdExpired, t_holder, t_ticket, tdRun)'
  <2>1. ASSUME NEW l \in TdCpus, tdRun[l] # TdNone PROVE t_holder'[tdRun[l]] = 0
    <3>1. tdRun[l] \in TdCells /\ t_holder[tdRun[l]] = 0
      BY <1>1, <2>1 DEF TdTyped, TdTickets, Runners
    <3>2. tdRun[l] # c
      BY <1>4, <1>5, <3>1
    <3> QED BY <1>6, <3>1, <3>2
  <2> QED BY <1>1, <1>4, <2>1 DEF TdTickets, Runners
<1>13. Waiters(tdQueue, t_holder, t_ticket, tdWait)'
  <2>1. ASSUME NEW v \in TdCallers, tdWait'[v] # << >>
        PROVE  v # u /\ tdWait'[v] = tdWait[v] /\ t_holder'[tdWait[v][1]] <= tdWait[v][2]
    <3>1. v # u /\ tdWait'[v] = tdWait[v]
      BY <1>7, <2>1
    <3>2. /\ tdWait[v] # << >> /\ tdWait[v] # tdWait[u]
      BY <1>1, <1>2, <2>1, <3>1 DEF TdTickets, Waiters
    <3>3. PICK x \in TdCells, y \in Nat : tdWait[v] = <<x, y>>
      <4>1. tdWait[v] \in TdCells \X Nat
        BY <1>1, <3>2 DEF TdTyped
      <4> QED BY <4>1
    <3>4. tdWait[v][1] = x /\ tdWait[v][2] = y
      BY <3>3
    <3>5. t_holder[x] <= y
      BY <1>1, <3>2, <3>4 DEF TdTickets, Waiters
    <3>6. CASE x = c
      <4>1. y # w
        BY <1>3, <3>2, <3>3, <3>6
      <4> QED BY <1>4, <1>6, <3>1, <3>4, <3>5, <3>6, <4>1
    <3>7. CASE x # c
      BY <1>6, <3>1, <3>4, <3>5, <3>7
    <3> QED BY <3>6, <3>7
  <2>2. \A v \in TdCallers : tdWait'[v] # << >> =>
       /\ In(tdQueue, Len(tdQueue), tdWait'[v][1]) /\ tdWait'[v][2] > 0
       /\ t_holder'[tdWait'[v][1]] <= tdWait'[v][2] /\ tdWait'[v][2] < t_ticket[tdWait'[v][1]]
    BY <1>1, <2>1 DEF TdTickets, Waiters
  <2>3. \A v, z \in TdCallers : tdWait'[v] # << >> /\ tdWait'[v] = tdWait'[z] => v = z
    BY <1>1, <2>1 DEF TdTickets, Waiters
  <2> QED BY <1>4, <2>2, <2>3 DEF Waiters
<1> QED BY <1>8, <1>9, <1>10, <1>11, <1>12, <1>13 DEF TdInv, TdTickets

LEMMA TdStep == TdInv /\ [TdNext]_tdVars => TdInv'
<1> SUFFICES ASSUME TdInv, [TdNext]_tdVars PROVE TdInv'
  OBVIOUS
<1>1. CASE UNCHANGED tdVars
  BY <1>1 DEF tdVars, TdInv, TdTyped, CellQueue, TdTimely, TdTickets, Holders, Runners, Waiters,
              TdAsking, TdBehind, Behind, Pends
<1>2. CASE TdNext
  <2>1. CASE \E c \in TdCells, m \in TdTicks : QUEUE_TIMEOUT(c, m)
    BY <2>1, TimeoutQueued
  <2>2. CASE \E k \in TdCpus : CHECK_TIMEOUT(k) \/ RUN_TIMEOUTS(k) \/ RunReturn(k)
    BY <2>2, Ticked, TimeoutsRun, FunctionReturned
  <2>3. CASE \E u \in TdCallers, c \in TdCells, k \in TdCpus :
               untimeout(u, c, k) \/ untimeoutWait(u, c, k)
    BY <2>3, CancelledAtOnce, TicketTaken
  <2>4. CASE \E u \in TdCallers : untimeoutDone(u)
    BY <2>4, TicketReturned
  <2> QED BY <1>2, <2>1, <2>2, <2>3, <2>4 DEF TdNext
<1> QED BY <1>1, <1>2

LEMMA TdAlways == TdSpec => []TdInv
BY TdInitInv, TdStep, PTL DEF TdSpec

LEMMA TdInvExact == TdInv => TdExact
<1> SUFFICES ASSUME TdInv PROVE TdExact
  OBVIOUS
<1>1. PICK P : Timed(P, tdQueue, tdExpired, t_delta, t_ticket, tdDue, tdNow)
  BY DEF TdInv, TdTimely
<1>2. /\ DOMAIN tdQueue = 1 .. Len(tdQueue) /\ Len(tdQueue) \in Nat
      /\ tdQueue \in Seq(TdCells) /\ t_delta \in [TdCells -> Nat]
  BY DEF TdInv, CellQueue, TdTyped
<1>3. \A i \in 1 .. Len(tdQueue) : Delay(i) = P[i]
  <2>1. \A i \in 1 .. Len(tdQueue) : i \in 0 .. Len(tdQueue)
    BY <1>2
  <2> QED BY <1>1, <1>2, <2>1, DelayIs DEF Timed
<1> QED BY <1>1, <1>2, <1>3 DEF TdExact, Timed

LEMMA TdInvAsked == TdInv => TdAsked
<1> SUFFICES ASSUME TdInv PROVE TdAsked
  OBVIOUS
<1>1. CellQueue(tdQueue, tdExpired) /\ TdAsking
  BY DEF TdInv
<1>2. ASSUME NEW k \in TdCpus, Overdue(k) # {} PROVE dcRun[k]
  <2>1. PICK c \in Queued : t_cpu[c] = k /\ t_ticket[c] = 0 /\ PosOf(c) <= tdExpired
    BY <1>2 DEF Overdue
  <2>2. PosOf(c) \in 1 .. Len(tdQueue) /\ tdQueue[PosOf(c)] = c
    BY <1>1, PosOfIs
  <2>3. PosOf(c) \in 1 .. tdExpired
    BY <1>1, <2>1, <2>2 DEF CellQueue
  <2>4. Pends(tdQueue, t_cpu, t_ticket, PosOf(c), k)
    BY <2>1, <2>2 DEF Pends
  <2> QED BY <1>1, <2>3, <2>4 DEF TdAsking
<1> QED BY <1>1, <1>2 DEF TdAsked, TdAsking

LEMMA TdInvSafe == TdInv => TdSafe
<1> SUFFICES ASSUME TdInv PROVE TdSafe
  OBVIOUS
<1>1. TdTickets /\ CellQueue(tdQueue, tdExpired) /\ TdTyped
  BY DEF TdInv
<1>2. DOMAIN tdQueue = 1 .. Len(tdQueue) /\ \A i \in 1 .. tdExpired : i \in 1 .. Len(tdQueue)
  BY <1>1 DEF CellQueue
<1>3. \A x : In(tdQueue, tdExpired, x) \/ In(tdQueue, Len(tdQueue), x) => x \in Queued
  BY <1>2 DEF In, Queued
<1>4. TdCancelFinal
  BY <1>1 DEF TdCancelFinal, TdTickets, Holders, Runners
<1>5. TdNoUseAfterFree
  BY <1>1, <1>3 DEF TdNoUseAfterFree, TdTickets, Runners, Waiters
<1> QED BY <1>4, <1>5 DEF TdSafe

(***************************************************************************)
(* A DDI/DKI timeout is called when its ticks are over and asks for        *)
(* RUN_TIMEOUTS when it is due, whatever QUEUE_TIMEOUT puts in front of it *)
(* and untimeout takes away; untimeout returns only after the function,    *)
(* and no cell is freed that a CPU runs or a ticket waits for.  For any    *)
(* number of processors, cells, callers and delays.                        *)
(***************************************************************************)
THEOREM TimeoutsSound == TdSpec => []TdSound
<1>1. TdInv => TdSound
  BY TdInvExact, TdInvAsked, TdInvSafe DEF TdSound, TdKeepsTime
<1> QED BY <1>1, TdAlways, PTL

----------------------------------------------------------------------------
(***************************************************************************)
(* The pseudo terminal, for any processes, modes, sizes and limits of the  *)
(* queues: who sleeps is told of what he waits for.                        *)
(***************************************************************************)

\* No mode that TCSETA sets leaves canonical mode (and wakes nobody).
TtStaysCanonical == \A m \in TtModesNow : m.canon

TtFlags == {"T_INPUT", "T_DRAIN", "T_HILIM", "T_STOP", "T_ISTOP", "T_CARR"}
TtWakes == {"t_iq", "t_oq", "t_open", "p_mopen", "group"}

TtStates == [flags : SUBSET TtFlags, iq : Seq(TtChars), oq : Int, ib : Seq(TtChars),
             open : Int, group : BOOLEAN, mopen : 0 .. 3, asleep : BOOLEAN,
             ttwr : BOOLEAN, wake : SUBSET TtWakes]

\* What those that sleep go by: what they wait for is not there and the flag
\* that has them woken is set, or they are woken.
ForReader(t) ==
  \/ "t_iq" \in t.wake
  \/ /\ {"T_CARR", "T_INPUT"} \subseteq t.flags
     /\ TtStaysCanonical => t.iq = << >>
ForWriter(t) == "t_oq" \in t.wake \/ "T_HILIM" \in t.flags
ForDrain(t) == "t_oq" \in t.wake \/ "T_DRAIN" \in t.flags
ForInput(t) == "p_mopen" \in t.wake \/ "T_ISTOP" \in t.flags
ForOutput(t) == "p_mopen" \in t.wake \/ t.mopen # 3
ForCycle(t) == "p_mopen" \in t.wake \/ t.asleep

\* What a call makes of t serves all that t serves.
Serves(t, u) ==
  /\ u \in TtStates
  /\ ForReader(t) => ForReader(u)
  /\ ForWriter(t) => ForWriter(u)
  /\ ForDrain(t) => ForDrain(u)
  /\ ForInput(t) => ForInput(u)
  /\ ForOutput(t) => ForOutput(u)
  /\ ForCycle(t) => ForCycle(u)
  /\ t.mopen # 0 /\ u.mopen = 0 => \A m \in TtMasters : AtUser(m)

LEMMA ServesOn == ASSUME NEW t, NEW u, NEW w, Serves(t, u), Serves(u, w) PROVE Serves(t, w)
BY DEF Serves

LEMMA ServesSame == ASSUME NEW t \in TtStates PROVE Serves(t, t)
BY DEF Serves

LEMMA WakingServes ==
  ASSUME NEW t \in TtStates, NEW w \in SUBSET TtWakes
  PROVE  /\ Serves(t, Waking(t, w)) /\ w \subseteq Waking(t, w).wake
         /\ Waking(t, w) = [t EXCEPT !.wake = @ \cup w]
<1>1. PICK u : u = Waking(t, w)
  OBVIOUS
<1>2. u \in TtStates
  BY <1>1 DEF Waking, TtStates
<1>3. u = [t EXCEPT !.wake = t.wake \cup w] /\ t.wake \subseteq u.wake /\ w \subseteq u.wake
  BY <1>1 DEF Waking, TtStates
<1>4. u.flags = t.flags /\ u.iq = t.iq /\ u.mopen = t.mopen /\ u.asleep = t.asleep
  BY <1>3 DEF TtStates
<1>5. Serves(t, u)
  BY <1>2, <1>3, <1>4 DEF Serves, ForReader, ForWriter, ForDrain, ForInput, ForOutput, ForCycle
<1> QED BY <1>1, <1>3, <1>5

\* Flags that are set, and those that nobody goes by cleared.
LEMMA FlagsServes ==
  ASSUME NEW t \in TtStates, NEW on \in SUBSET TtFlags, NEW off \in SUBSET {"T_STOP"}
  PROVE  Serves(t, Flags(t, on, off))
<1>1. PICK u : u = Flags(t, on, off)
  OBVIOUS
<1>2. u \in TtStates /\ u.flags = (t.flags \cup on) \ off /\ u.iq = t.iq /\ u.mopen = t.mopen
      /\ u.asleep = t.asleep /\ u.wake = t.wake
  BY <1>1 DEF Flags, TtStates
<1>3. \A f \in {"T_CARR", "T_INPUT", "T_HILIM", "T_DRAIN", "T_ISTOP"} : f \in t.flags => f \in u.flags
  BY <1>2
<1> QED BY <1>1, <1>2, <1>3
        DEF Serves, ForReader, ForWriter, ForDrain, ForInput, ForOutput, ForCycle

\* One flag cleared when those that go by it are woken.
LEMMA ClearServes ==
  ASSUME NEW t \in TtStates, NEW f \in TtFlags, NEW w \in TtWakes,
         f = "T_INPUT" => w = "t_iq", f \in {"T_HILIM", "T_DRAIN"} => w = "t_oq",
         f = "T_ISTOP" => w = "p_mopen", f # "T_CARR"
  PROVE  Serves(t, Waking(Flags(t, {}, {f}), {w}))
<1>1. PICK u : u = Waking(Flags(t, {}, {f}), {w})
  OBVIOUS
<1>2. PICK v : v = Flags(t, {}, {f})
  OBVIOUS
<1>3. v \in TtStates /\ v = [t EXCEPT !.flags = t.flags \ {f}]
  BY <1>2 DEF Flags, TtStates
<1>4. u \in TtStates /\ u.flags = t.flags \ {f} /\ u.iq = t.iq /\ u.mopen = t.mopen
      /\ u.asleep = t.asleep /\ u.wake = t.wake \cup {w}
  BY <1>1, <1>2, <1>3 DEF Waking, TtStates
<1> QED BY <1>1, <1>4
        DEF Serves, ForReader, ForWriter, ForDrain, ForInput, ForOutput, ForCycle

\* What a call changes besides.
LEMMA BesidesServes ==
  ASSUME NEW t \in TtStates, NEW u \in TtStates,
         u.flags = t.flags, u.iq = t.iq, u.mopen = t.mopen, u.asleep = t.asleep, u.wake = t.wake
  PROVE  Serves(t, u)
BY DEF Serves, ForReader, ForWriter, ForDrain, ForInput, ForOutput, ForCycle

LEMMA ttinflushServes ==
  ASSUME NEW t \in TtStates
  PROVE  /\ Serves(t, ttinflush(t))
         /\ ForReader(t) \/ "T_INPUT" \in t.flags => "t_iq" \in ttinflush(t).wake
         /\ ttinflush(t).flags = t.flags /\ t.wake \subseteq ttinflush(t).wake
<1>1. PICK v : v = [t EXCEPT !.iq = << >>, !.ib = << >>]
  OBVIOUS
<1>2. << >> \in Seq(TtChars)
  OBVIOUS
<1>3. /\ v \in TtStates /\ v.flags = t.flags /\ v.mopen = t.mopen /\ v.asleep = t.asleep
      /\ v.wake = t.wake /\ v.iq = << >>
  BY <1>1, <1>2 DEF TtStates
<1>4. PICK w : w = IF "T_INPUT" \in t.flags THEN {"t_iq"} ELSE {}
  OBVIOUS
<1>5. w \in SUBSET TtWakes /\ ("T_INPUT" \in t.flags => "t_iq" \in w)
  BY <1>4 DEF TtWakes
<1>6. PICK u : u = Waking(v, w)
  OBVIOUS
<1>7. u = ttinflush(t)
  BY <1>1, <1>4, <1>6 DEF ttinflush
<1>8. /\ u \in TtStates /\ u.flags = t.flags /\ u.mopen = t.mopen /\ u.asleep = t.asleep
      /\ u.wake = t.wake \cup w /\ u.iq = << >>
  BY <1>3, <1>5, <1>6 DEF Waking, TtStates
<1>9. ForReader(t) \/ "T_INPUT" \in t.flags => "t_iq" \in u.wake
  BY <1>5, <1>8 DEF ForReader
<1>10. Serves(t, u)
  BY <1>8, <1>9 DEF Serves, ForReader, ForWriter, ForDrain, ForInput, ForOutput, ForCycle
<1> QED BY <1>7, <1>8, <1>9, <1>10

LEMMA ttoutflushServes ==
  ASSUME NEW t \in TtStates
  PROVE  /\ Serves(t, ttoutflush(t))
         /\ ForWriter(t) \/ ForDrain(t) => "t_oq" \in ttoutflush(t).wake
         /\ ttoutflush(t).flags = t.flags /\ t.wake \subseteq ttoutflush(t).wake
<1>1. PICK v : v = [t EXCEPT !.oq = 0]
  OBVIOUS
<1>2. /\ v \in TtStates /\ v.flags = t.flags /\ v.mopen = t.mopen /\ v.asleep = t.asleep
      /\ v.wake = t.wake /\ v.iq = t.iq
  BY SMTT(30), <1>1 DEF TtStates
<1>3. PICK w : w = IF t.flags \cap {"T_DRAIN", "T_HILIM"} # {} THEN {"t_oq"} ELSE {}
  OBVIOUS
<1>4. w \in SUBSET TtWakes /\ ("T_DRAIN" \in t.flags \/ "T_HILIM" \in t.flags => "t_oq" \in w)
  <2>1. w = {"t_oq"} \/ w = {}
    BY <1>3
  <2>2. ASSUME "T_DRAIN" \in t.flags \/ "T_HILIM" \in t.flags PROVE w = {"t_oq"}
    <3>1. t.flags \cap {"T_DRAIN", "T_HILIM"} # {}
      BY <2>2
    <3> QED BY <1>3, <3>1
  <2> QED BY <2>1, <2>2 DEF TtWakes
<1>5. PICK u : u = Waking(v, w)
  OBVIOUS
<1>6. u = ttoutflush(t)
  BY <1>1, <1>3, <1>5 DEF ttoutflush
<1>7. /\ u \in TtStates /\ u.flags = t.flags /\ u.mopen = t.mopen /\ u.asleep = t.asleep
      /\ u.wake = t.wake \cup w /\ u.iq = t.iq
  BY <1>2, <1>4, <1>5 DEF Waking, TtStates
<1>8. ForWriter(t) \/ ForDrain(t) => "t_oq" \in u.wake
  BY <1>4, <1>7 DEF ForWriter, ForDrain
<1>9. Serves(t, u)
  BY <1>7, <1>8 DEF Serves, ForReader, ForWriter, ForDrain, ForInput, ForOutput, ForCycle
<1> QED BY <1>6, <1>7, <1>8, <1>9

LEMMA ttflushServes ==
  ASSUME NEW t \in TtStates
  PROVE  /\ Serves(t, ttflush(t))
         /\ ForReader(t) \/ "T_INPUT" \in t.flags => "t_iq" \in ttflush(t).wake
         /\ ForWriter(t) \/ ForDrain(t) => "t_oq" \in ttflush(t).wake
         /\ ttflush(t).flags = t.flags /\ t.wake \subseteq ttflush(t).wake
<1>1. PICK i : i = ttinflush(t)
  OBVIOUS
<1>2. /\ Serves(t, i) /\ i \in TtStates /\ i.flags = t.flags /\ t.wake \subseteq i.wake
      /\ ForReader(t) \/ "T_INPUT" \in t.flags => "t_iq" \in i.wake
  BY <1>1, ttinflushServes DEF Serves
<1>3. PICK u : u = ttoutflush(i)
  OBVIOUS
<1>4. /\ Serves(i, u) /\ u.flags = i.flags /\ i.wake \subseteq u.wake
      /\ ForWriter(i) \/ ForDrain(i) => "t_oq" \in u.wake
  BY <1>2, <1>3, ttoutflushServes
<1>5. ForWriter(t) \/ ForDrain(t) => ForWriter(i) \/ ForDrain(i)
  BY <1>2 DEF Serves
<1>6. Serves(t, u)
  BY <1>2, <1>4, ServesOn
<1>7. u = ttflush(t)
  BY <1>1, <1>3 DEF ttflush
<1>8. ForReader(t) \/ "T_INPUT" \in t.flags => "t_iq" \in u.wake
  BY <1>2, <1>4
<1>9. ForWriter(t) \/ ForDrain(t) => "t_oq" \in u.wake
  BY <1>4, <1>5
<1>10. u.flags = t.flags /\ t.wake \subseteq u.wake
  BY <1>2, <1>4
<1> QED BY <1>6, <1>7, <1>8, <1>9, <1>10

LEMMA ttsignalServes ==
  ASSUME NEW t \in TtStates
  PROVE  Serves(t, ttsignal(t)) /\ t.wake \subseteq ttsignal(t).wake
<1>1. CASE t.group
  <2>1. PICK u : u = ttflush(t)
    OBVIOUS
  <2>2. Serves(t, u) /\ u \in TtStates /\ t.wake \subseteq u.wake
    BY <2>1, ttflushServes DEF Serves
  <2>3. PICK w : w = {"group"}
    OBVIOUS
  <2>4. w \in SUBSET TtWakes
    BY <2>3 DEF TtWakes
  <2>5. Serves(u, Waking(u, w)) /\ Waking(u, w) = [u EXCEPT !.wake = @ \cup w]
    BY <2>2, <2>4, WakingServes
  <2>6. Serves(t, Waking(u, w))
    BY <2>2, <2>5, ServesOn
  <2>7. u.wake \subseteq Waking(u, w).wake
    BY <2>2, <2>5 DEF TtStates
  <2> QED BY <1>1, <2>1, <2>2, <2>3, <2>6, <2>7 DEF ttsignal
<1>2. CASE ~ t.group
  BY <1>2, ServesSame DEF ttsignal
<1> QED BY <1>1, <1>2

LEMMA ptystartServes ==
  ASSUME NEW t \in TtStates
  PROVE  Serves(t, ptystart(t)) /\ ptystart(t).flags = t.flags
<1>1. CASE t.ttwr
  <2>1. PICK w : w = {"p_mopen"}
    OBVIOUS
  <2>2. w \in SUBSET TtWakes
    BY <2>1 DEF TtWakes
  <2>3. Serves(t, Waking(t, w)) /\ Waking(t, w) = [t EXCEPT !.wake = @ \cup w]
    BY <2>2, WakingServes
  <2>4. Waking(t, w).flags = t.flags
    BY <2>3 DEF TtStates
  <2> QED BY <1>1, <2>1, <2>3, <2>4 DEF ptystart
<1>2. CASE ~ t.ttwr
  BY <1>2, ServesSame DEF ptystart
<1> QED BY <1>1, <1>2

LEMMA ttstartServes ==
  ASSUME NEW t \in TtStates
  PROVE  Serves(t, ttstart(t)) /\ ttstart(t) \in TtStates
<1>1. PICK s : s = ptystart(t)
  OBVIOUS
<1>2. Serves(t, s) /\ s \in TtStates
  BY <1>1, ptystartServes DEF Serves
<1>3. PICK d : d = Waking(Flags(t, {}, {"T_DRAIN"}), {"t_oq"})
  OBVIOUS
<1>4. Serves(t, d)
  <2>1. PICK f \in TtFlags : f = "T_DRAIN"
    BY DEF TtFlags
  <2>2. PICK w \in TtWakes : w = "t_oq"
    BY DEF TtWakes
  <2> QED BY <1>3, <2>1, <2>2, ClearServes
<1>5. PICK h : h = Waking(Flags(s, {}, {"T_HILIM"}), {"t_oq"})
  OBVIOUS
<1>6. Serves(s, h)
  <2>1. PICK f \in TtFlags : f = "T_HILIM"
    BY DEF TtFlags
  <2>2. PICK w \in TtWakes : w = "t_oq"
    BY DEF TtWakes
  <2> QED BY <1>2, <1>5, <2>1, <2>2, ClearServes
<1>7. Serves(t, h)
  BY <1>2, <1>6, ServesOn
<1>8. ttstart(t) \in {t, d, h, s}
  BY <1>1, <1>3, <1>5 DEF ttstart
<1>9. Serves(t, t)
  BY ServesSame
<1>10. \A u \in {t, d, h, s} : Serves(t, u)
  BY <1>2, <1>4, <1>7, <1>9
<1>11. \A u : Serves(t, u) => u \in TtStates
  BY DEF Serves
<1> QED BY <1>8, <1>10, <1>11

\* Whatever arrives in t_iq, those who wait for it are woken.
LEMMA InputReadyServes ==
  ASSUME NEW t \in TtStates, NEW iq \in Seq(TtChars), NEW ib \in Seq(TtChars)
  PROVE  Serves(t, InputReady([t EXCEPT !.iq = iq, !.ib = ib]))
<1>1. PICK v : v = [t EXCEPT !.iq = iq, !.ib = ib]
  OBVIOUS
<1>2. /\ v \in TtStates /\ v.flags = t.flags /\ v.mopen = t.mopen /\ v.asleep = t.asleep
      /\ v.wake = t.wake /\ v.iq = iq
  BY <1>1 DEF TtStates
<1>3. PICK u : u = InputReady(v)
  OBVIOUS
<1>4. CASE "T_INPUT" \in t.flags
  <2>1. u = Waking(Flags(v, {}, {"T_INPUT"}), {"t_iq"})
    BY <1>2, <1>3, <1>4 DEF InputReady
  <2>2. PICK w : w = Flags(v, {}, {"T_INPUT"})
    OBVIOUS
  <2>3. /\ w \in TtStates /\ w.flags = t.flags \ {"T_INPUT"} /\ w.mopen = t.mopen
        /\ w.asleep = t.asleep /\ w.wake = t.wake
    BY <1>2, <2>2 DEF Flags, TtStates
  <2>4. {"t_iq"} \in SUBSET TtWakes
    BY DEF TtWakes
  <2>5. /\ u \in TtStates /\ u.flags = t.flags \ {"T_INPUT"} /\ u.mopen = t.mopen
        /\ u.asleep = t.asleep /\ u.wake = t.wake \cup {"t_iq"}
    BY <2>1, <2>2, <2>3, <2>4 DEF Waking, TtStates
  <2> QED BY <1>1, <1>3, <2>5
          DEF Serves, ForReader, ForWriter, ForDrain, ForInput, ForOutput, ForCycle
<1>5. CASE "T_INPUT" \notin t.flags
  <2>1. u = v
    BY <1>2, <1>3, <1>5 DEF InputReady
  <2> QED BY <1>1, <1>2, <1>3, <1>5, <2>1
          DEF Serves, ForReader, ForWriter, ForDrain, ForInput, ForOutput, ForCycle
<1> QED BY <1>4, <1>5

LEMMA ttstashServes ==
  ASSUME NEW t \in TtStates, NEW c \in TtChars
  PROVE  Serves(t, ttstash(t, c))
<1>1. t.iq \in Seq(TtChars) /\ t.ib \in Seq(TtChars)
  BY DEF TtStates
<1>2. CASE c = "nl"
  <2>1. PICK q : q = t.iq \o t.ib \o <<c>>
    OBVIOUS
  <2>2. PICK b : b = << >>
    OBVIOUS
  <2>3. q \in Seq(TtChars) /\ b \in Seq(TtChars)
    BY <1>1, <2>1, <2>2
  <2>4. [t EXCEPT !.iq = @ \o t.ib \o <<c>>, !.ib = << >>] = [t EXCEPT !.iq = q, !.ib = b]
    BY <2>1, <2>2 DEF TtStates
  <2>5. ttstash(t, c) = InputReady([t EXCEPT !.iq = q, !.ib = b])
    BY <1>2, <2>4 DEF ttstash
  <2> QED BY <2>3, <2>5, InputReadyServes
<1>3. CASE c # "nl" /\ Len(t.ib) < NCIB - 1
  <2>1. PICK b : b = Append(t.ib, c)
    OBVIOUS
  <2>2. b \in Seq(TtChars)
    BY <1>1, <2>1
  <2>3. PICK u : u = ttstash(t, c)
    OBVIOUS
  <2>4. u = [t EXCEPT !.ib = b]
    BY <1>3, <2>1, <2>3 DEF ttstash
  <2>5. /\ u \in TtStates /\ u.flags = t.flags /\ u.iq = t.iq /\ u.mopen = t.mopen
        /\ u.asleep = t.asleep /\ u.wake = t.wake
    BY <2>2, <2>4 DEF TtStates
  <2> QED BY <2>3, <2>5, BesidesServes
<1>4. CASE c # "nl" /\ ~ (Len(t.ib) < NCIB - 1)
  <2>1. ttstash(t, c) = t
    BY <1>4 DEF ttstash
  <2> QED BY <2>1, ServesSame
<1> QED BY <1>2, <1>3, <1>4

LEMMA EchoedServes ==
  ASSUME NEW t \in TtStates
  PROVE  Serves(t, Echoed(t))
<1>1. PICK v : v = [t EXCEPT !.oq = @ + 1]
  OBVIOUS
<1>2. /\ v \in TtStates /\ v.flags = t.flags /\ v.iq = t.iq /\ v.mopen = t.mopen
      /\ v.asleep = t.asleep /\ v.wake = t.wake
  <2>1. t.oq \in Int
    BY DEF TtStates
  <2>2. PICK n \in Int : n = t.oq + 1
    BY <2>1
  <2>3. v = [t EXCEPT !.oq = n]
    BY <1>1, <2>2
  <2> QED BY <2>3 DEF TtStates
<1>3. Serves(t, v)
  BY <1>2, BesidesServes
<1>4. Serves(v, ttstart(v))
  BY <1>2, ttstartServes
<1>5. Serves(t, ttstart(v))
  BY <1>3, <1>4, ServesOn
<1>6. Echoed(t) = ttstart(v) \/ Echoed(t) = t
  BY <1>1 DEF Echoed
<1> QED BY <1>5, <1>6, ServesSame

LEMMA ttinServes ==
  ASSUME NEW t \in TtStates, NEW c \in TtChars
  PROVE  Serves(t, ttin(t, c))
<1>1. PICK s : s = IF ttMode.canon THEN ttstash(t, c)
                   ELSE InputReady([t EXCEPT !.iq = Append(@, c)])
  OBVIOUS
<1>2. Serves(t, s) /\ s \in TtStates
  <2>1. t.iq \in Seq(TtChars) /\ t.ib \in Seq(TtChars)
    BY DEF TtStates
  <2>2. PICK q : q = Append(t.iq, c)
    OBVIOUS
  <2>3. PICK b : b = t.ib
    OBVIOUS
  <2>4. q \in Seq(TtChars) /\ b \in Seq(TtChars)
    BY <2>1, <2>2, <2>3
  <2>5. [t EXCEPT !.iq = Append(@, c)] = [t EXCEPT !.iq = q, !.ib = b]
    BY <2>2, <2>3 DEF TtStates
  <2>6. Serves(t, InputReady([t EXCEPT !.iq = q, !.ib = b]))
    BY <2>4, InputReadyServes
  <2>7. Serves(t, ttstash(t, c))
    BY ttstashServes
  <2>8. Serves(t, s)
    BY <1>1, <2>5, <2>6, <2>7
  <2> QED BY <2>8 DEF Serves
<1>3. PICK u : u = Echoed(s)
  OBVIOUS
<1>4. Serves(t, u) /\ u \in TtStates
  <2>1. Serves(s, u)
    BY <1>2, <1>3, EchoedServes
  <2>2. Serves(t, u)
    BY <1>2, <2>1, ServesOn
  <2> QED BY <2>2 DEF Serves
<1>5. PICK on \in SUBSET TtFlags : on = {"T_ISTOP"}
  BY DEF TtFlags
<1>6. PICK off \in SUBSET {"T_STOP"} : off = {}
  OBVIOUS
<1>7. Serves(t, Flags(u, on, off))
  <2>1. Serves(u, Flags(u, on, off))
    BY <1>4, FlagsServes
  <2> QED BY <1>4, <2>1, ServesOn
<1>8. Serves(t, ttsignal(t)) /\ Serves(t, t)
  BY ttsignalServes, ServesSame
<1>9. ttin(t, c) \in {ttsignal(t), t, Flags(u, on, off), u}
  BY <1>1, <1>3, <1>5, <1>6 DEF ttin
<1> QED BY <1>4, <1>7, <1>8, <1>9

LEMMA ttstartMopen ==
  ASSUME NEW t \in TtStates PROVE ttstart(t).mopen = t.mopen
BY DEF ttstart, ptystart, Waking, Flags, TtStates

LEMMA ttflushMopen ==
  ASSUME NEW t \in TtStates PROVE ttflush(t).mopen = t.mopen
<1>1. PICK i : i = ttinflush(t)
  OBVIOUS
<1>2. i.mopen = t.mopen /\ i \in TtStates
  <2>1. i \in TtStates
    BY <1>1, ttinflushServes DEF Serves
  <2>2. i.mopen = t.mopen
    BY <1>1 DEF ttinflush, Waking, TtStates
  <2> QED BY <2>1, <2>2
<1>3. ttoutflush(i).mopen = i.mopen
  BY <1>2 DEF ttoutflush, Waking, TtStates
<1> QED BY <1>1, <1>2, <1>3 DEF ttflush

LEMMA ttinMopen ==
  ASSUME NEW t \in TtStates, NEW c \in TtChars PROVE ttin(t, c).mopen = t.mopen
<1>1. ttsignal(t).mopen = t.mopen
  <2>1. PICK f : f = ttflush(t)
    OBVIOUS
  <2>2. f \in TtStates /\ f.mopen = t.mopen
    BY <2>1, ttflushServes, ttflushMopen DEF Serves
  <2>3. Waking(f, {"group"}).mopen = f.mopen
    BY <2>2 DEF Waking, TtStates
  <2> QED BY <2>1, <2>2, <2>3 DEF ttsignal
<1>2. ASSUME NEW q \in Seq(TtChars), NEW b \in Seq(TtChars)
      PROVE  InputReady([t EXCEPT !.iq = q, !.ib = b]).mopen = t.mopen
  <2>1. PICK v : v = [t EXCEPT !.iq = q, !.ib = b]
    OBVIOUS
  <2>2. v \in TtStates /\ v.mopen = t.mopen
    BY <2>1 DEF TtStates
  <2>3. PICK f : f = Flags(v, {}, {"T_INPUT"})
    OBVIOUS
  <2>4. f \in TtStates /\ f.mopen = v.mopen
    BY <2>2, <2>3 DEF Flags, TtStates
  <2>5. Waking(f, {"t_iq"}).mopen = f.mopen
    BY <2>4 DEF Waking, TtStates
  <2> QED BY <2>1, <2>2, <2>3, <2>4, <2>5 DEF InputReady
<1>3. PICK s : s = IF ttMode.canon THEN ttstash(t, c)
                   ELSE InputReady([t EXCEPT !.iq = Append(@, c)])
  OBVIOUS
<1>4. t.iq \in Seq(TtChars) /\ t.ib \in Seq(TtChars)
  BY DEF TtStates
<1>5. s.mopen = t.mopen /\ s \in TtStates
  <2>1. PICK q : q = Append(t.iq, c)
    OBVIOUS
  <2>2. PICK b : b = t.ib
    OBVIOUS
  <2>3. PICK x : x = t.iq \o t.ib \o <<c>>
    OBVIOUS
  <2>4. PICK y : y = << >>
    OBVIOUS
  <2>5. PICK z : z = Append(t.ib, c)
    OBVIOUS
  <2>14. q \in Seq(TtChars) /\ b \in Seq(TtChars) /\ z \in Seq(TtChars)
    BY <1>4, <2>1, <2>2, <2>5
  <2>15. x \in Seq(TtChars) /\ y \in Seq(TtChars)
    BY <1>4, <2>3, <2>4
  <2>6. /\ [t EXCEPT !.iq = Append(@, c)] = [t EXCEPT !.iq = q, !.ib = b]
        /\ [t EXCEPT !.iq = @ \o t.ib \o <<c>>, !.ib = << >>] = [t EXCEPT !.iq = x, !.ib = y]
    BY <2>1, <2>2, <2>3, <2>4 DEF TtStates
  <2>7. PICK v : v = [t EXCEPT !.ib = z]
    OBVIOUS
  <2>8. v \in TtStates /\ v.mopen = t.mopen
    BY <2>7, <2>14 DEF TtStates
  <2>9. ttstash(t, c) \in {InputReady([t EXCEPT !.iq = x, !.ib = y]), v, t}
    BY <2>5, <2>6, <2>7 DEF ttstash
  <2>10. PICK i : i = InputReady([t EXCEPT !.iq = x, !.ib = y])
    OBVIOUS
  <2>11. PICK j : j = InputReady([t EXCEPT !.iq = q, !.ib = b])
    OBVIOUS
  <2>12. i.mopen = t.mopen /\ j.mopen = t.mopen /\ i \in TtStates /\ j \in TtStates
    BY <1>2, <2>10, <2>11, <2>14, <2>15, InputReadyServes DEF Serves
  <2>13. s \in {i, j, v, t}
    BY <1>3, <2>6, <2>9, <2>10, <2>11
  <2> QED BY <2>8, <2>12, <2>13
<1>6. PICK u : u = Echoed(s)
  OBVIOUS
<1>7. u.mopen = t.mopen /\ u \in TtStates
  <2>1. PICK i \in Int : i = s.oq + 1
    BY <1>5 DEF TtStates
  <2>2. PICK v : v = [s EXCEPT !.oq = i]
    OBVIOUS
  <2>3. v \in TtStates /\ v.mopen = s.mopen
    BY <1>5, <2>2 DEF TtStates
  <2>4. ttstart(v).mopen = v.mopen /\ ttstart(v) \in TtStates
    BY <2>3, ttstartMopen, ttstartServes
  <2>5. u = ttstart(v) \/ u = s
    BY <1>6, <2>1, <2>2 DEF Echoed
  <2> QED BY <1>5, <2>3, <2>4, <2>5
<1>8. Flags(u, {"T_ISTOP"}, {}).mopen = t.mopen
  BY <1>7 DEF Flags, TtStates
<1>9. ttin(t, c) \in {ttsignal(t), t, Flags(u, {"T_ISTOP"}, {}), u}
  BY <1>3, <1>6 DEF ttin
<1> QED BY <1>1, <1>7, <1>8, <1>9

(***************************************************************************)
(* Fed is a fold: what becomes of the first characters is fed the next.    *)
(***************************************************************************)
FedStates == [t : TtStates, rest : Seq(TtChars)]

FedNext(a, c) ==
  IF a.rest # << >> \/ "T_ISTOP" \in a.t.flags
  THEN [a EXCEPT !.rest = Append(@, c)]
  ELSE [a EXCEPT !.t = ttin(@, c)]

FedWell(t, a) ==
  /\ a \in FedStates /\ Serves(t, a.t) /\ a.t.mopen = t.mopen
  /\ a.rest # << >> => "T_ISTOP" \in a.t.flags

IsFed(g, t, s, S) ==
  g = [T \in SUBSET S |->
         IF T = {} THEN [t |-> t, rest |-> << >>]
         ELSE FedNext(g[T \ {Max(T)}], s[Max(T)])]

LEMMA FedDef ==
  \A t, s : Fed(t, s) = (CHOOSE g : IsFed(g, t, s, DOMAIN s))[DOMAIN s]
BY DEF Fed, FoldLeft, MapThenFoldSet, IsFed, FedNext

LEMMA FedNextWell ==
  ASSUME NEW t, NEW a, FedWell(t, a), NEW c \in TtChars
  PROVE  FedWell(t, FedNext(a, c))
<1>1. /\ a \in FedStates /\ a.t \in TtStates /\ a.rest \in Seq(TtChars)
      /\ Serves(t, a.t) /\ a.t.mopen = t.mopen
  BY DEF FedWell, FedStates
<1>2. PICK b : b = FedNext(a, c)
  OBVIOUS
<1>3. CASE a.rest # << >> \/ "T_ISTOP" \in a.t.flags
  <2>1. PICK r : r = Append(a.rest, c)
    OBVIOUS
  <2>2. r \in Seq(TtChars)
    BY <1>1, <2>1
  <2>3. b = [a EXCEPT !.rest = r]
    BY <1>2, <1>3, <2>1 DEF FedNext
  <2>4. b \in FedStates /\ b.t = a.t
    BY <1>1, <2>2, <2>3 DEF FedStates
  <2>5. "T_ISTOP" \in a.t.flags
    BY <1>3 DEF FedWell
  <2> QED BY <1>1, <1>2, <2>4, <2>5 DEF FedWell
<1>4. CASE ~ (a.rest # << >> \/ "T_ISTOP" \in a.t.flags)
  <2>1. PICK v : v = a.t
    OBVIOUS
  <2>2. PICK u : u = ttin(v, c)
    OBVIOUS
  <2>3. Serves(v, u)
    BY <1>1, <2>1, <2>2, ttinServes
  <2>4. Serves(t, u)
    BY <1>1, <2>1, <2>3, ServesOn
  <2>5. u \in TtStates /\ u.mopen = t.mopen
    BY <1>1, <2>1, <2>2, <2>3, ttinMopen DEF Serves
  <2>6. b = [a EXCEPT !.t = u]
    BY <1>2, <1>4, <2>1, <2>2 DEF FedNext
  <2>7. b \in FedStates /\ b.t = u /\ b.rest = a.rest
    BY <1>1, <2>5, <2>6 DEF FedStates
  <2> QED BY <1>2, <1>4, <2>4, <2>5, <2>7 DEF FedWell
<1> QED BY <1>3, <1>4

LEMMA FedNextTyped ==
  ASSUME NEW a \in FedStates, NEW c \in TtChars
  PROVE  FedNext(a, c) \in FedStates
<1>1. a.t \in TtStates /\ a.rest \in Seq(TtChars)
  BY DEF FedStates
<1>2. PICK r : r = Append(a.rest, c)
  OBVIOUS
<1>3. r \in Seq(TtChars)
  BY <1>1, <1>2
<1>4. PICK v : v = a.t
  OBVIOUS
<1>5. PICK u : u = ttin(v, c)
  OBVIOUS
<1>6. u \in TtStates
  BY <1>1, <1>4, <1>5, ttinServes DEF Serves
<1>7. [a EXCEPT !.rest = r] \in FedStates /\ [a EXCEPT !.t = u] \in FedStates
  BY <1>3, <1>6 DEF FedStates
<1>8. \/ FedNext(a, c) = [a EXCEPT !.rest = r]
      \/ FedNext(a, c) = [a EXCEPT !.t = u]
  BY <1>2, <1>4, <1>5 DEF FedNext
<1> QED BY <1>7, <1>8

LEMMA IsFedExists ==
  ASSUME NEW t \in TtStates, NEW s \in Seq(TtChars)
  PROVE  \E g : IsFed(g, t, s, 1 .. Len(s))
<1> DEFINE S == 1 .. Len(s)
           V == FedStates
           base == [t |-> t, rest |-> << >>]
           pick == [T \in SUBSET S |-> Max(T)]
           F == [x \in S \X V |-> FedNext(x[2], s[x[1]])]
<1>1. /\ Len(s) \in Nat /\ \A i \in S : s[i] \in TtChars
      /\ IsFiniteSet(S) /\ S \subseteq Nat
  <2>1. Len(s) \in Nat /\ \A i \in S : s[i] \in TtChars
    OBVIOUS
  <2>2. IsFiniteSet(S) /\ S \subseteq Nat
    BY <2>1, FS_Interval
  <2> QED BY <2>1, <2>2
<1>2. F \in [S \X V -> V]
  <2>1. ASSUME NEW x \in S \X V PROVE FedNext(x[2], s[x[1]]) \in V
    <3>1. x[1] \in S /\ x[2] \in V
      OBVIOUS
    <3>2. PICK a \in FedStates : a = x[2]
      BY <3>1
    <3>3. PICK c \in TtChars : c = s[x[1]]
      BY <1>1, <3>1
    <3>4. FedNext(a, c) \in FedStates
      BY FedNextTyped
    <3> QED BY <3>2, <3>3, <3>4
  <2> QED BY <2>1
<1>3. \A i \in S, v \in V : F[<<i, v>>] = FedNext(v, s[i])
  OBVIOUS
<1>4. base \in V
  <2>1. << >> \in Seq(TtChars)
    OBVIOUS
  <2> QED BY <2>1 DEF FedStates
<1> HIDE DEF F
<1>5. ASSUME NEW T \in SUBSET S, T # {} PROVE pick[T] \in T /\ pick[T] = Max(T)
  <2> HIDE DEF S
  <2>1. IsFiniteSet(T) /\ T \subseteq Nat
    BY <1>1, FS_Subset
  <2>2. \E n \in T : \A m \in T : n >= m
    BY <2>1, <1>5, GreatestNat
  <2> QED BY <2>2 DEF Max
<1> HIDE DEF pick
<1>6. PICK g \in [SUBSET S -> V] : IsFolded(g, S, base, pick, F)
  <2> HIDE DEF S, V, base
  <2>1. \A T \in SUBSET S : T # {} => pick[T] \in T
    BY <1>5
  <2>3. PICK p : p = pick
    OBVIOUS
  <2>4. PICK E : E = F
    OBVIOUS
  <2>5. PICK R : R = S
    OBVIOUS
  <2>6. PICK W : W = V
    OBVIOUS
  <2>7. PICK b \in W : b = base
    BY <1>4, <2>6
  <2>8. IsFiniteSet(R) /\ E \in [R \X W -> W] /\ \A T \in SUBSET R : T # {} => p[T] \in T
    BY <1>1, <1>2, <2>1, <2>3, <2>4, <2>5, <2>6
  <2>9. \E g \in [SUBSET R -> W] : IsFolded(g, R, b, p, E)
    BY <2>8, SubsetsExist
  <2> QED BY <2>3, <2>4, <2>5, <2>6, <2>7, <2>9
<1>7. ASSUME NEW T \in SUBSET S
      PROVE  Folded(g, base, pick, F, T)
               = IF T = {} THEN base ELSE FedNext(g[T \ {Max(T)}], s[Max(T)])
  <2> HIDE DEF base
  <2>1. CASE T = {}
    BY <2>1 DEF Folded
  <2>2. CASE T # {}
    <3>1. pick[T] = Max(T) /\ Max(T) \in S
      BY <1>5, <2>2
    <3>2. T \ {Max(T)} \in SUBSET S
      OBVIOUS
    <3>3. g[T \ {Max(T)}] \in V
      BY <1>6, <3>2
    <3>4. F[<<Max(T), g[T \ {Max(T)}]>>] = FedNext(g[T \ {Max(T)}], s[Max(T)])
      BY <1>3, <3>1, <3>3
    <3> QED BY <2>2, <3>1, <3>4 DEF Folded
  <2> QED BY <2>1, <2>2
<1>8. IsFed(g, t, s, S)
  <2> HIDE DEF S, base
  <2>1. g = [T \in SUBSET S |-> IF T = {} THEN base
                                ELSE FedNext(g[T \ {Max(T)}], s[Max(T)])]
    BY <1>6, <1>7 DEF IsFolded
  <2>2. base = [t |-> t, rest |-> << >>]
    BY DEF base
  <2> QED BY <2>1, <2>2 DEF IsFed
<1> QED BY <1>8

LEMMA FedServes ==
  ASSUME NEW t \in TtStates, NEW s \in Seq(TtChars)
  PROVE  FedWell(t, Fed(t, s))
<1>1. PICK n \in Nat : n = Len(s)
  OBVIOUS
<1>2. DOMAIN s = 1 .. n /\ \A i \in 1 .. n : s[i] \in TtChars
  BY <1>1
<1>3. PICK g : IsFed(g, t, s, 1 .. n) /\ Fed(t, s) = g[1 .. n]
  <2>1. \E g : IsFed(g, t, s, 1 .. n)
    BY <1>1, IsFedExists
  <2>2. Fed(t, s) = (CHOOSE g : IsFed(g, t, s, 1 .. n))[1 .. n]
    BY <1>2, FedDef
  <2> QED BY <2>1, <2>2
<1> DEFINE G == {i \in 0 .. n : FedWell(t, g[1 .. i])}
<1>4. 0 \in G
  <2>1. 1 .. 0 = {} /\ {} \in SUBSET (1 .. n)
    OBVIOUS
  <2>2. PICK a : a = [t |-> t, rest |-> << >>]
    OBVIOUS
  <2>3. g[{}] = a
    BY <1>3, <2>1, <2>2 DEF IsFed
  <2>4. << >> \in Seq(TtChars)
    OBVIOUS
  <2>5. a \in FedStates /\ a.t = t /\ a.rest = << >>
    BY <2>2, <2>4 DEF FedStates
  <2>6. FedWell(t, a)
    BY <2>5, ServesSame DEF FedWell
  <2>7. 0 \in 0 .. n /\ FedWell(t, g[1 .. 0])
    BY <2>1, <2>3, <2>6
  <2> QED BY <2>7
<1>5. ASSUME NEW i \in 1 .. n, i - 1 \in G PROVE i \in G
  <2>0. s[i] \in TtChars
    BY <1>2
  <2>1. /\ i \in Nat \ {0} /\ 1 .. i \in SUBSET (1 .. n) /\ 1 .. i # {} /\ i \in 0 .. n
        /\ s[i] \in TtChars
    <3>1. i \in Nat \ {0} /\ i <= n /\ i \in 0 .. n /\ i \in 1 .. i
      OBVIOUS
    <3>2. \A k \in 1 .. i : k \in 1 .. n
      BY <3>1
    <3> QED BY <2>0, <3>1, <3>2
  <2>2. g[1 .. i] = FedNext(g[1 .. i - 1], s[i])
    <3>1. Max(1 .. i) = i /\ (1 .. i) \ {i} = 1 .. i - 1
      BY <2>1, MaxIs
    <3>2. PICK T : T = 1 .. i
      OBVIOUS
    <3>3. g[T] = FedNext(g[T \ {Max(T)}], s[Max(T)])
      BY <1>3, <2>1, <3>2 DEF IsFed
    <3> QED BY <3>1, <3>2, <3>3
  <2>3. PICK a : a = g[1 .. i - 1]
    OBVIOUS
  <2>4. FedWell(t, a)
    BY <1>5, <2>3
  <2>5. FedWell(t, FedNext(a, s[i]))
    BY <2>1, <2>4, FedNextWell
  <2> QED BY <2>1, <2>2, <2>3, <2>5
<1>6. \A i \in 0 .. n : i \in G
  <2> HIDE DEF G
  <2> QED BY <1>4, <1>5, Upwards
<1>7. n \in 0 .. n
  OBVIOUS
<1> QED BY <1>3, <1>6, <1>7

(***************************************************************************)
(* What each process relies on while it sleeps, and what it has left to do *)
(* when it resumes.                                                        *)
(***************************************************************************)
TtOps == {"closed", "none", "open", "read", "write", "drain", "close"}
TtPcs == {"user", "asleep", "woken", "signal"}
ReadArgs == [ioc : Nat, sioc : Nat, got : BOOLEAN, timing : BOOLEAN, late : BOOLEAN,
             vmin : Nat, vtime : BOOLEAN]

Inside(pc) == pc \in {"asleep", "woken"}

SlaveHolds(p, t, vtime, op, arg, pc) ==
  /\ Inside(pc) /\ op = "write" => arg.ioc \in Int
  /\ Inside(pc) /\ op = "read" =>
       /\ p \in TtReaders /\ arg \in ReadArgs
       /\ arg.timing /\ ~ arg.late => vtime = p \/ TtReaders # {p}
  /\ pc = "asleep" /\ op = "read" => ForReader(t)
  /\ pc = "asleep" /\ op = "write" => ForWriter(t)
  /\ pc = "asleep" /\ op \in {"drain", "close"} => ForDrain(t)

MasterHolds(t, op, arg, pc) ==
  /\ ~ (pc = "user" /\ op = "none") => t.mopen # 0
  /\ Inside(pc) /\ op = "read" => arg.ioc \in Int
  /\ Inside(pc) /\ op = "write" => arg.s \in Seq(TtChars) /\ arg.s # << >>
  /\ pc = "asleep" => ForCycle(t)
  /\ pc = "asleep" /\ op = "read" => ForOutput(t)
  /\ pc = "asleep" /\ op = "write" => ForInput(t)

TtTyped ==
  /\ tt \in TtStates /\ tt.wake = {}
  /\ ttMode \in TtModeSet
  /\ ttOp \in [TtProcs -> TtOps]
  /\ DOMAIN ttArg = TtProcs /\ ttArg = [p \in TtProcs |-> ttArg[p]]
  /\ ttPc \in [TtProcs -> TtPcs]

TtInv ==
  /\ TtTyped
  /\ \A p \in TtSlaves : SlaveHolds(p, tt, ttVtime, ttOp[p], ttArg[p], ttPc[p])
  /\ \A m \in TtMasters : MasterHolds(tt, ttOp[m], ttArg[m], ttPc[m])
  /\ tt.mopen # 0 => ttCycle

LEMMA RousedIs ==
  \A q, wake : \/ Roused(q, wake) = "asleep" /\ ttPc[q] = "asleep" /\ SleepsOn(q) \notin wake
               \/ Roused(q, wake) = "woken" /\ Inside(ttPc[q])
               \/ Roused(q, wake) = "signal"
               \/ Roused(q, wake) = ttPc[q] /\ ~ Inside(ttPc[q])
BY Zenon DEF Roused, Inside

LEMMA SlaveStays ==
  ASSUME NEW t, t.wake = {}, NEW u, Serves(t, u), NEW w, w = [u EXCEPT !.wake = {}],
         NEW q \in TtSlaves, NEW v, SlaveHolds(q, t, v, ttOp[q], ttArg[q], ttPc[q]),
         NEW x, x = v \/ q \notin TtReaders \/ TtReaders # {q}
  PROVE  SlaveHolds(q, w, x, ttOp[q], ttArg[q], Roused(q, u.wake))
<1>1. PICK pc : pc = Roused(q, u.wake)
  OBVIOUS
<1>2. Inside(pc) => Inside(ttPc[q])
  BY <1>1, RousedIs DEF Inside
<1>3. pc = "asleep" => ttPc[q] = "asleep" /\ SleepsOn(q) \notin u.wake
  BY <1>1, RousedIs DEF Inside
<1>4. q \notin TtMasters
  BY TtAssumption
<1>5. w.flags = u.flags /\ w.iq = u.iq
  BY DEF Serves, TtStates
<1>6. pc = "asleep" /\ ttOp[q] = "read" => ForReader(w)
  <2> SUFFICES ASSUME pc = "asleep", ttOp[q] = "read" PROVE ForReader(w)
    OBVIOUS
  <2>1. "t_iq" \notin u.wake
    BY <1>3, <1>4 DEF SleepsOn
  <2>2. ForReader(u)
    BY <1>3 DEF SlaveHolds, Serves
  <2> QED BY <1>5, <2>1, <2>2 DEF ForReader
<1>7. pc = "asleep" /\ ttOp[q] = "write" => ForWriter(w)
  <2> SUFFICES ASSUME pc = "asleep", ttOp[q] = "write" PROVE ForWriter(w)
    OBVIOUS
  <2>1. "t_oq" \notin u.wake
    BY <1>3, <1>4 DEF SleepsOn
  <2>2. ForWriter(u)
    BY <1>3 DEF SlaveHolds, Serves
  <2> QED BY <1>5, <2>1, <2>2 DEF ForWriter
<1>8. pc = "asleep" /\ ttOp[q] \in {"drain", "close"} => ForDrain(w)
  <2> SUFFICES ASSUME pc = "asleep", ttOp[q] \in {"drain", "close"} PROVE ForDrain(w)
    OBVIOUS
  <2>1. "t_oq" \notin u.wake
    BY <1>3, <1>4 DEF SleepsOn
  <2>2. ForDrain(u)
    BY <1>3 DEF SlaveHolds, Serves
  <2> QED BY <1>5, <2>1, <2>2 DEF ForDrain
<1>9. Inside(pc) /\ ttOp[q] = "write" => ttArg[q].ioc \in Int
  BY <1>2 DEF SlaveHolds
<1>10. Inside(pc) /\ ttOp[q] = "read" =>
         /\ q \in TtReaders /\ ttArg[q] \in ReadArgs
         /\ ttArg[q].timing /\ ~ ttArg[q].late => x = q \/ TtReaders # {q}
  BY <1>2 DEF SlaveHolds
<1> QED BY <1>1, <1>6, <1>7, <1>8, <1>9, <1>10 DEF SlaveHolds

LEMMA MasterStays ==
  ASSUME NEW t, t.wake = {}, NEW u, Serves(t, u), NEW w, w = [u EXCEPT !.wake = {}],
         NEW m \in TtMasters, MasterHolds(t, ttOp[m], ttArg[m], ttPc[m])
  PROVE  MasterHolds(w, ttOp[m], ttArg[m], Roused(m, u.wake))
<1>1. PICK pc : pc = Roused(m, u.wake)
  OBVIOUS
<1>2. Inside(pc) => Inside(ttPc[m])
  BY <1>1, RousedIs DEF Inside
<1>3. pc = "asleep" => ttPc[m] = "asleep" /\ "p_mopen" \notin u.wake
  <2>1. SleepsOn(m) = "p_mopen"
    BY DEF SleepsOn
  <2> QED BY <1>1, <2>1, RousedIs DEF Inside
<1>4. w.flags = u.flags /\ w.mopen = u.mopen /\ w.asleep = u.asleep
  BY DEF Serves, TtStates
<1>5. pc = "asleep" => ForCycle(w)
  BY <1>3, <1>4 DEF MasterHolds, Serves, ForCycle
<1>6. pc = "asleep" /\ ttOp[m] = "read" => ForOutput(w)
  BY <1>3, <1>4 DEF MasterHolds, Serves, ForOutput
<1>7. pc = "asleep" /\ ttOp[m] = "write" => ForInput(w)
  BY <1>3, <1>4 DEF MasterHolds, Serves, ForInput
<1>8. ~ (pc = "user" /\ ttOp[m] = "none") => w.mopen # 0
  <2> SUFFICES ASSUME ~ (pc = "user" /\ ttOp[m] = "none") PROVE w.mopen # 0
    OBVIOUS
  <2>1. ~ AtUser(m)
    BY <1>1 DEF Roused, AtUser
  <2>2. t.mopen # 0
    BY <2>1 DEF AtUser, MasterHolds
  <2> QED BY <1>4, <2>1, <2>2 DEF Serves
<1>9. /\ Inside(pc) /\ ttOp[m] = "read" => ttArg[m].ioc \in Int
      /\ Inside(pc) /\ ttOp[m] = "write" => ttArg[m].s \in Seq(TtChars) /\ ttArg[m].s # << >>
  BY <1>2 DEF MasterHolds
<1> QED BY <1>1, <1>5, <1>6, <1>7, <1>8, <1>9 DEF MasterHolds

\* p's call has run to t.
Ran(p, op, args, pc, t) ==
  /\ tt' = [t EXCEPT !.wake = {}]
  /\ ttOp' = [ttOp EXCEPT ![p] = op]
  /\ ttArg' = [ttArg EXCEPT ![p] = args]
  /\ ttPc' = [q \in TtProcs |-> IF q = p THEN pc ELSE Roused(q, t.wake)]

Around(p, t) ==
  /\ Serves(tt, t)
  /\ ttVtime' = ttVtime \/ p \in TtReaders
  /\ ttMode' \in TtModeSet
  /\ t.mopen # 0 => ttCycle'

LEMMA TtRuns ==
  ASSUME TtInv, NEW p \in TtProcs, NEW op \in TtOps, NEW args, NEW pc \in TtPcs, NEW t,
         Ran(p, op, args, pc, t), Around(p, t),
         p \in TtSlaves => SlaveHolds(p, tt', ttVtime', op, args, pc),
         p \in TtMasters => MasterHolds(tt', op, args, pc)
  PROVE  TtInv'
<1>1. TtTyped /\ (tt.mopen # 0 => ttCycle)
  BY DEF TtInv
<1>2. PICK w : w = [t EXCEPT !.wake = {}]
  OBVIOUS
<1>3. tt' = w /\ t \in TtStates /\ w \in TtStates /\ w.wake = {} /\ w.mopen = t.mopen
  <2>1. tt' = w /\ t \in TtStates
    BY <1>2 DEF Ran, Around, Serves
  <2> QED BY <1>2, <2>1 DEF TtStates
<1>4. TtTyped'
  <2>1. ttOp' \in [TtProcs -> TtOps]
    BY <1>1 DEF Ran, TtTyped
  <2>2. DOMAIN ttArg' = TtProcs /\ ttArg' = [q \in TtProcs |-> ttArg'[q]]
    BY <1>1 DEF Ran, TtTyped
  <2>3. \A q \in TtProcs : Roused(q, t.wake) \in TtPcs
    BY <1>1 DEF Roused, TtTyped, TtPcs
  <2>4. ttPc' \in [TtProcs -> TtPcs]
    BY <2>3 DEF Ran
  <2> QED BY <1>3, <2>1, <2>2, <2>4 DEF TtTyped, Around
<1>5. ttOp'[p] = op /\ ttArg'[p] = args /\ ttPc'[p] = pc
  BY <1>1 DEF Ran, TtTyped
<1>6. ASSUME NEW q \in TtProcs, q # p
      PROVE  ttOp'[q] = ttOp[q] /\ ttArg'[q] = ttArg[q] /\ ttPc'[q] = Roused(q, t.wake)
  BY <1>1, <1>6 DEF Ran, TtTyped
<1>7. ASSUME NEW q \in TtSlaves
      PROVE  SlaveHolds(q, tt', ttVtime', ttOp'[q], ttArg'[q], ttPc'[q])
  <2>1. CASE q = p
    BY <1>5, <2>1
  <2>2. CASE q # p
    <3>1. SlaveHolds(q, tt, ttVtime, ttOp[q], ttArg[q], ttPc[q]) /\ tt.wake = {}
      BY <1>1 DEF TtInv, TtTyped
    <3>2. ttVtime' = ttVtime \/ q \notin TtReaders \/ TtReaders # {q}
      BY <2>2 DEF Around
    <3>3. PICK v : v = ttVtime
      OBVIOUS
    <3>4. PICK x : x = ttVtime'
      OBVIOUS
    <3>5. SlaveHolds(q, w, x, ttOp[q], ttArg[q], Roused(q, t.wake))
      <4>1. Serves(tt, t)
        BY DEF Around
      <4>2. PICK s : s = tt
        OBVIOUS
      <4> QED BY <1>2, <3>1, <3>2, <3>3, <3>4, <4>1, <4>2, SlaveStays
    <3>6. q \in TtProcs
      BY DEF TtProcs
    <3> QED BY <1>3, <1>6, <2>2, <3>4, <3>5, <3>6
  <2> QED BY <2>1, <2>2
<1>8. ASSUME NEW m \in TtMasters
      PROVE  MasterHolds(tt', ttOp'[m], ttArg'[m], ttPc'[m])
  <2>1. CASE m = p
    BY <1>5, <2>1
  <2>2. CASE m # p
    <3>1. MasterHolds(tt, ttOp[m], ttArg[m], ttPc[m]) /\ tt.wake = {}
      BY <1>1 DEF TtInv, TtTyped
    <3>2. MasterHolds(w, ttOp[m], ttArg[m], Roused(m, t.wake))
      <4>1. Serves(tt, t)
        BY DEF Around
      <4>2. PICK s : s = tt
        OBVIOUS
      <4> QED BY <1>2, <3>1, <4>1, <4>2, MasterStays
    <3>3. m \in TtProcs
      BY DEF TtProcs
    <3> QED BY <1>3, <1>6, <2>2, <3>2, <3>3
  <2> QED BY <2>1, <2>2
<1>9. tt'.mopen # 0 => ttCycle'
  BY <1>3 DEF Around
<1> QED BY <1>4, <1>7, <1>8, <1>9 DEF TtInv

LEMMA Returned ==
  ASSUME TtInv, NEW p \in TtProcs, NEW t, TtReturns(p, t), Around(p, t)
  PROVE  TtInv'
<1>1. PICK op \in TtOps : op = "none"
  BY DEF TtOps
<1>2. PICK pc \in TtPcs : pc = "user"
  BY DEF TtPcs
<1>3. Ran(p, op, NoArg, pc, t)
  BY <1>1, <1>2 DEF TtReturns, TtEnds, Ran
<1>4. SlaveHolds(p, tt', ttVtime', op, NoArg, pc) /\ MasterHolds(tt', op, NoArg, pc)
  BY <1>1, <1>2 DEF SlaveHolds, MasterHolds, Inside
<1> QED BY <1>3, <1>4, TtRuns

LEMMA Ended ==
  ASSUME TtInv, NEW p \in TtSlaves, NEW t, TtEnds(p, "closed", t), Around(p, t)
  PROVE  TtInv'
<1>1. PICK op \in TtOps : op = "closed"
  BY DEF TtOps
<1>2. PICK pc \in TtPcs : pc = "user"
  BY DEF TtPcs
<1>3. Ran(p, op, NoArg, pc, t)
  BY <1>1, <1>2 DEF TtEnds, Ran
<1>4. SlaveHolds(p, tt', ttVtime', op, NoArg, pc)
  BY <1>1, <1>2 DEF SlaveHolds, Inside
<1>5. p \in TtProcs /\ p \notin TtMasters
  BY TtAssumption DEF TtProcs
<1> QED BY <1>3, <1>4, <1>5, TtRuns

LEMMA Slept ==
  ASSUME TtInv, NEW p \in TtProcs, NEW op \in TtOps, NEW args, NEW t,
         TtSleep(p, op, args, t), Around(p, t),
         p \in TtSlaves => SlaveHolds(p, tt', ttVtime', op, args, "asleep"),
         p \in TtMasters => MasterHolds(tt', op, args, "asleep")
  PROVE  TtInv'
<1>1. PICK pc \in TtPcs : pc = "asleep"
  BY DEF TtPcs
<1>2. Ran(p, op, args, pc, t)
  BY <1>1 DEF TtSleep, Ran
<1> QED BY <1>1, <1>2, TtRuns

----------------------------------------------------------------------------
(* The reads and writes of slaves.                                         *)

\* A reader that goes to sleep has taken all there is.
LEMMA AllTaken ==
  ASSUME TtTyped, NEW a \in ReadArgs, NEW n, n = Taken(a), n # a.ioc,
         ~ (ttMode.canon /\ n > 0 /\ tt.iq[n] = "nl")
  PROVE  n = Len(tt.iq)
<1>1. tt.iq \in Seq(TtChars) /\ Len(tt.iq) \in Nat /\ a.ioc \in Nat
  BY DEF TtTyped, TtStates, ReadArgs
<1>2. CASE ~ ttMode.canon
  BY <1>1, <1>2 DEF Taken, Min2
<1>3. CASE ttMode.canon
  <2>1. n = Line(tt.iq)
    BY <1>3 DEF Taken, Min2
  <2>2. CASE "nl" \notin ToSet(tt.iq)
    BY <2>1, <2>2 DEF Line
  <2>3. CASE "nl" \in ToSet(tt.iq)
    <3> DEFINE I == {i \in 1 .. Len(tt.iq) : tt.iq[i] = "nl"}
    <3>1. I # {}
      BY <1>1, <2>3 DEF ToSet
    <3>2. n = Min(I)
      BY <2>1, <2>3, <3>1 DEF Line, SelectInSeq
    <3>3. \E x \in I : \A y \in I : x <= y
      <4>1. I \subseteq Nat
        OBVIOUS
      <4> HIDE DEF I
      <4> QED BY <3>1, <4>1, LeastNat
    <3>4. Min(I) \in I
      <4> HIDE DEF I
      <4> QED BY <3>3 DEF Min
    <3>5. n \in 1 .. Len(tt.iq) /\ tt.iq[n] = "nl"
      BY <3>2, <3>4
    <3> QED BY <1>1, <1>3, <3>5
  <2> QED BY <2>2, <2>3
<1> QED BY <1>2, <1>3

LEMMA TakenIs ==
  ASSUME TtTyped, NEW a \in ReadArgs
  PROVE  Taken(a) \in Nat /\ Taken(a) <= a.ioc /\ Taken(a) <= Len(tt.iq)
<1>1. tt.iq \in Seq(TtChars) /\ Len(tt.iq) \in Nat /\ a.ioc \in Nat
  BY DEF TtTyped, TtStates, ReadArgs
<1>2. PICK l : l = IF ttMode.canon THEN Line(tt.iq) ELSE Len(tt.iq)
  OBVIOUS
<1>3. Line(tt.iq) \in 0 .. Len(tt.iq)
  <2>1. CASE "nl" \notin ToSet(tt.iq)
    BY <1>1, <2>1 DEF Line
  <2>2. CASE "nl" \in ToSet(tt.iq)
    <3> DEFINE I == {i \in 1 .. Len(tt.iq) : tt.iq[i] = "nl"}
    <3>1. I # {}
      BY <1>1, <2>2 DEF ToSet
    <3>2. Line(tt.iq) = Min(I)
      BY <2>2, <3>1 DEF Line, SelectInSeq
    <3>3. \E x \in I : \A y \in I : x <= y
      <4>1. I \subseteq Nat
        OBVIOUS
      <4> HIDE DEF I
      <4> QED BY <3>1, <4>1, LeastNat
    <3>4. Min(I) \in I
      <4> HIDE DEF I
      <4> QED BY <3>3 DEF Min
    <3>5. Line(tt.iq) \in 1 .. Len(tt.iq)
      BY <3>2, <3>4
    <3> QED BY <1>1, <3>5
  <2> QED BY <2>1, <2>2
<1>4. l \in 0 .. Len(tt.iq)
  BY <1>1, <1>2, <1>3
<1>5. Taken(a) = IF a.ioc <= l THEN a.ioc ELSE l
  BY <1>2 DEF Taken, Min2
<1> QED BY <1>1, <1>4, <1>5

LEMMA AfterTakingIs ==
  ASSUME TtTyped, NEW n \in Nat, n <= Len(tt.iq)
  PROVE  /\ AfterTaking(n).iq \in Seq(TtChars)
         /\ tt.iq = << >> \/ n = Len(tt.iq) => AfterTaking(n).iq = << >>
         /\ AfterTaking(n).flags \in {tt.flags, tt.flags \ {"T_ISTOP"}}
<1>1. tt.iq \in Seq(TtChars) /\ Len(tt.iq) \in Nat /\ tt \in TtStates
  BY DEF TtTyped, TtStates
<1>2. PICK q : q = SubSeq(tt.iq, n + 1, Len(tt.iq))
  OBVIOUS
<1>3. q \in Seq(TtChars) /\ (n = Len(tt.iq) => q = << >>)
  BY <1>1, <1>2
<1>4. tt.iq = << >> => n = Len(tt.iq)
  BY <1>1
<1>5. PICK t : t = [tt EXCEPT !.iq = q]
  OBVIOUS
<1>6. t.flags = tt.flags /\ t.iq = q /\ t \in TtStates
  BY <1>1, <1>3, <1>5 DEF TtStates
<1>7. PICK u : u = Flags(t, {}, {"T_ISTOP"})
  OBVIOUS
<1>8. u.flags = tt.flags \ {"T_ISTOP"} /\ u.iq = q
  BY <1>6, <1>7 DEF Flags, TtStates
<1>9. AfterTaking(n) \in {t, u}
  BY <1>1, <1>2, <1>5, <1>7 DEF AfterTaking
<1> QED BY <1>3, <1>4, <1>6, <1>8, <1>9

\* t0 once characters are taken, and the master told.
Took(t0, t) ==
  /\ t = [t0 EXCEPT !.iq = t.iq, !.flags = t.flags]
  /\ t.iq \in Seq(TtChars) /\ (tt.iq = << >> => t.iq = << >>)
  /\ t.flags \in {tt.flags, tt.flags \ {"T_ISTOP"}}

LEMMA TookServes ==
  ASSUME TtTyped, NEW t0 \in {tt, [tt EXCEPT !.asleep = FALSE]}, NEW t, Took(t0, t)
  PROVE  /\ Serves(tt, TellMaster(t))
         /\ Serves(tt, TellMaster(Flags(t, {"T_INPUT"}, {})))
         /\ TellMaster(t).mopen = tt.mopen
         /\ TellMaster(Flags(t, {"T_INPUT"}, {})).mopen = tt.mopen
         /\ TellMaster(Flags(t, {"T_INPUT"}, {})).flags = t.flags \cup {"T_INPUT"}
         /\ TellMaster(Flags(t, {"T_INPUT"}, {})).iq = t.iq
         /\ TellMaster(Flags(t, {"T_INPUT"}, {})) \in TtStates
<1>1. tt \in TtStates /\ t0 \in TtStates /\ t0.mopen = tt.mopen /\ t0.wake = tt.wake
  BY DEF TtTyped, TtStates
<1>2. PICK q \in Seq(TtChars) : q = t.iq
  BY DEF Took
<1>3. PICK f \in SUBSET TtFlags : f = t.flags
  BY <1>1 DEF Took, TtStates
<1>4. t \in TtStates /\ t.mopen = tt.mopen /\ t.wake = tt.wake
  <2>1. t = [t0 EXCEPT !.iq = q, !.flags = f]
    BY <1>2, <1>3 DEF Took
  <2> QED BY <1>1, <2>1 DEF TtStates
<1>5. PICK v : v = Flags(t, {"T_INPUT"}, {})
  OBVIOUS
<1>6. v \in TtStates /\ v.flags = t.flags \cup {"T_INPUT"} /\ v.iq = t.iq /\ v.mopen = tt.mopen
      /\ v.wake = tt.wake
  BY <1>4, <1>5 DEF Flags, TtStates, TtFlags
<1>7. ASSUME NEW x \in TtStates, x.iq = t.iq, t.flags \subseteq x.flags, x.mopen = tt.mopen,
             x.wake = tt.wake, NEW y, y = TellMaster(x)
      PROVE  Serves(tt, y) /\ y.mopen = tt.mopen /\ y.flags = x.flags /\ y.iq = x.iq
             /\ y \in TtStates
  <2>1. {"p_mopen"} \in SUBSET TtWakes
    BY DEF TtWakes
  <2>2. /\ y \in TtStates /\ y.flags = x.flags /\ y.iq = x.iq /\ y.mopen = x.mopen
        /\ y.wake = x.wake \cup {"p_mopen"}
    BY <1>7, <2>1 DEF TellMaster, Waking, TtStates
  <2>3. \A g \in {"T_CARR", "T_INPUT", "T_HILIM", "T_DRAIN"} : g \in tt.flags => g \in y.flags
    BY <1>7, <2>2 DEF Took
  <2>4. tt.iq = << >> => y.iq = << >>
    BY <1>7, <2>2 DEF Took
  <2>5. ForReader(tt) => ForReader(y)
    BY <1>7, <2>2, <2>3, <2>4 DEF ForReader
  <2>6. (ForWriter(tt) => ForWriter(y)) /\ (ForDrain(tt) => ForDrain(y))
    BY <1>7, <2>2, <2>3 DEF ForWriter, ForDrain
  <2>7. ForInput(y) /\ ForOutput(y) /\ ForCycle(y)
    BY <2>2 DEF ForInput, ForOutput, ForCycle
  <2> QED BY <1>7, <2>2, <2>5, <2>6, <2>7 DEF Serves
<1>8. PICK y1 : y1 = TellMaster(t)
  OBVIOUS
<1>9. PICK y2 : y2 = TellMaster(v)
  OBVIOUS
<1>10. Serves(tt, y1) /\ y1.mopen = tt.mopen
  BY <1>4, <1>7, <1>8
<1>11. Serves(tt, y2) /\ y2.mopen = tt.mopen /\ y2.flags = v.flags /\ y2.iq = v.iq
       /\ y2 \in TtStates
  BY <1>6, <1>7, <1>9
<1> QED BY <1>5, <1>6, <1>8, <1>9, <1>10, <1>11

LEMMA ttread0Keeps ==
  ASSUME TtInv, NEW p \in TtReaders, NEW a \in ReadArgs, NEW first \in BOOLEAN,
         NEW t0 \in {tt, [tt EXCEPT !.asleep = FALSE]}, ttread0(p, a, first, t0),
         UNCHANGED <<ttCycle, ttMode>>,
         a.timing /\ ~ a.late => ttVtime = p \/ TtReaders # {p}
  PROVE  TtInv'
<1>1. TtTyped /\ (tt.mopen # 0 => ttCycle) /\ ttMode \in TtModeSet
  BY DEF TtInv, TtTyped
<1> DEFINE N == Taken(a)
           T == [t0 EXCEPT !.iq = AfterTaking(N).iq, !.flags = AfterTaking(N).flags]
           B == [a EXCEPT !.ioc = @ - N, !.got = @ \/ N > 0]
           Full == B.ioc = 0 \/ (ttMode.canon /\ N > 0 /\ tt.iq[N] = "nl")
           Sets == ~ttMode.canon /\ a.vtime /\ (N > 0 \/ (first /\ a.vmin = 0))
           Timing == B.timing \/ Sets
           Late == B.late /\ ~Sets
<1>0. \/ TtReturns(p, TellMaster(T))
      \/ /\ ~ Full /\ ~ Enough(B, T, Timing, Late)
         /\ TtSleep(p, "read", [B EXCEPT !.timing = Timing, !.late = Late],
                    TellMaster(Flags(T, {"T_INPUT"}, {})))
         /\ ttVtime' = IF Sets THEN p ELSE ttVtime
  BY Zenon DEF ttread0
<1>2. PICK n : n = Taken(a)
  OBVIOUS
<1>3. n \in Nat /\ n <= a.ioc /\ n <= Len(tt.iq)
  BY <1>1, <1>2, TakenIs
<1>4. PICK t : t = [t0 EXCEPT !.iq = AfterTaking(n).iq, !.flags = AfterTaking(n).flags]
  OBVIOUS
<1>5. Took(t0, t) /\ (n = Len(tt.iq) => t.iq = << >>)
  <2>1. t0 \in TtStates
    BY <1>1 DEF TtTyped, TtStates
  <2>2. t.iq = AfterTaking(n).iq /\ t.flags = AfterTaking(n).flags
    BY <1>4, <2>1 DEF TtStates
  <2>3. t = [t0 EXCEPT !.iq = t.iq, !.flags = t.flags]
    BY <1>4, <2>2
  <2> QED BY <1>1, <1>3, <2>2, <2>3, AfterTakingIs DEF Took
<1>6. PICK b : b = [a EXCEPT !.ioc = @ - n, !.got = @ \/ n > 0]
  OBVIOUS
<1>7. b \in ReadArgs /\ b.ioc = a.ioc - n /\ b.timing = a.timing /\ b.late = a.late
  <2>1. a.ioc \in Nat /\ a.got \in BOOLEAN
    BY DEF ReadArgs
  <2>2. PICK i \in Nat : i = a.ioc - n
    BY <1>3, <2>1
  <2>3. PICK g \in BOOLEAN : g = (a.got \/ n > 0)
    OBVIOUS
  <2>4. b = [a EXCEPT !.ioc = i, !.got = g]
    BY <1>6, <2>2, <2>3
  <2> QED BY <2>2, <2>4 DEF ReadArgs
<1>8. PICK full \in BOOLEAN : full = (b.ioc = 0 \/ (ttMode.canon /\ n > 0 /\ tt.iq[n] = "nl"))
  OBVIOUS
<1>9. PICK sets \in BOOLEAN :
        sets = (~ttMode.canon /\ a.vtime /\ (n > 0 \/ (first /\ a.vmin = 0)))
  OBVIOUS
<1>10. PICK timing \in BOOLEAN : timing = (b.timing \/ sets)
  OBVIOUS
<1>11. PICK late \in BOOLEAN : late = (b.late /\ ~sets)
  OBVIOUS
<1>12. PICK y1 : y1 = TellMaster(t)
  OBVIOUS
<1>13. PICK y2 : y2 = TellMaster(Flags(t, {"T_INPUT"}, {}))
  OBVIOUS
<1>14. PICK args : args = [b EXCEPT !.timing = timing, !.late = late]
  OBVIOUS
<1>15. \/ /\ TtReturns(p, y1)
       \/ /\ ~ full /\ ~ Enough(b, t, timing, late)
          /\ TtSleep(p, "read", args, y2)
          /\ ttVtime' = IF sets THEN p ELSE ttVtime
  <2>1. N = n /\ T = t /\ B = b
    BY <1>2, <1>4, <1>6
  <2>2. (Full <=> full) /\ Sets = sets
    BY <1>8, <1>9, <2>1
  <2>3. Timing = timing /\ Late = late
    BY <1>10, <1>11, <2>1, <2>2
  <2> HIDE DEF N, T, B, Full, Sets, Timing, Late
  <2> QED BY <1>0, <1>12, <1>13, <1>14, <2>1, <2>2, <2>3
<1> HIDE DEF N, T, B, Full, Sets, Timing, Late
<1>16. /\ Serves(tt, y1) /\ Serves(tt, y2) /\ y1.mopen = tt.mopen /\ y2.mopen = tt.mopen
       /\ y2.flags = t.flags \cup {"T_INPUT"} /\ y2.iq = t.iq /\ y2 \in TtStates
  BY <1>1, <1>5, <1>12, <1>13, TookServes
<1>17. Around(p, y1) /\ Around(p, y2)
  BY <1>1, <1>16 DEF Around
<1>18. p \in TtProcs /\ p \in TtSlaves /\ p \notin TtMasters
  BY TtAssumption DEF TtProcs
<1>19. CASE TtReturns(p, y1)
  BY <1>17, <1>18, <1>19, Returned
<1>20. CASE /\ ~ full /\ ~ Enough(b, t, timing, late)
            /\ TtSleep(p, "read", args, y2)
            /\ ttVtime' = IF sets THEN p ELSE ttVtime
  <2>1. n # a.ioc /\ ~ (ttMode.canon /\ n > 0 /\ tt.iq[n] = "nl")
    <3>1. a.ioc \in Nat
      BY DEF ReadArgs
    <3>2. b.ioc # 0 /\ ~ (ttMode.canon /\ n > 0 /\ tt.iq[n] = "nl")
      BY <1>8, <1>20
    <3> QED BY <1>3, <1>7, <3>1, <3>2
  <2>2. y2.iq = << >>
    BY <1>1, <1>2, <1>5, <1>16, <2>1, AllTaken
  <2>3. {"T_CARR", "T_INPUT"} \subseteq y2.flags
    BY <1>16, <1>20 DEF Enough
  <2>4. ForReader(tt')
    <3>1. tt' = [y2 EXCEPT !.wake = {}]
      BY <1>20 DEF TtSleep
    <3>2. tt'.flags = y2.flags /\ tt'.iq = y2.iq
      BY <1>16, <3>1 DEF TtStates
    <3> QED BY <2>2, <2>3, <3>2 DEF ForReader
  <2>5. args \in ReadArgs /\ args.timing = timing /\ args.late = late
    BY <1>7, <1>14 DEF ReadArgs
  <2>6. timing /\ ~ late => ttVtime' = p \/ TtReaders # {p}
    BY <1>7, <1>10, <1>11, <1>20
  <2>7. SlaveHolds(p, tt', ttVtime', "read", args, "asleep")
    BY <2>4, <2>5, <2>6 DEF SlaveHolds
  <2>8. PICK op \in TtOps : op = "read"
    BY DEF TtOps
  <2> QED BY <1>17, <1>18, <1>20, <2>7, <2>8, Slept
<1> QED BY <1>15, <1>19, <1>20

LEMMA TtSlaveIs == ASSUME NEW p \in TtSlaves PROVE p \in TtProcs /\ p \notin TtMasters
BY TtAssumption DEF TtProcs

\* The terminal is left as it is.
LEMMA QuietSame ==
  ASSUME TtInv, NEW p, UNCHANGED <<ttVtime, ttMode, ttCycle>> PROVE Around(p, tt)
<1>1. Serves(tt, tt)
  BY ServesSame DEF TtInv, TtTyped
<1> QED BY <1>1 DEF TtInv, TtTyped, Around

LEMMA ptyreadKeeps ==
  ASSUME TtInv, NEW p \in TtSlaves, ptyread(p) PROVE TtInv'
<1>1. p \in TtReaders /\ UNCHANGED <<ttCycle, ttMode>>
  BY DEF ptyread
<1>2. ttMode \in TtModeSet /\ tt \in TtStates
  BY DEF TtInv, TtTyped
<1>3. CASE AtUser(p) /\ \E n \in TtSizes : ttread0(p, NewRead(n), TRUE, [tt EXCEPT !.asleep = FALSE])
  <2>1. PICK n \in TtSizes : ttread0(p, NewRead(n), TRUE, [tt EXCEPT !.asleep = FALSE])
    BY <1>3
  <2>2. n \in Nat
    BY TtAssumption
  <2>3. PICK a : a = NewRead(n)
    OBVIOUS
  <2>4. a \in ReadArgs /\ a.timing = FALSE
    BY <1>2, <2>2, <2>3 DEF NewRead, ReadArgs, TtModeSet
  <2>5. PICK t0 \in {tt, [tt EXCEPT !.asleep = FALSE]} : t0 = [tt EXCEPT !.asleep = FALSE]
    OBVIOUS
  <2>6. PICK first \in BOOLEAN : first = TRUE
    OBVIOUS
  <2>7. ttread0(p, a, first, t0)
    BY <2>1, <2>3, <2>5, <2>6
  <2> QED BY <1>1, <2>4, <2>7, ttread0Keeps
<1>4. CASE Resumes(p, "read") /\ ttread0(p, ttArg[p], FALSE, tt)
  <2>1. SlaveHolds(p, tt, ttVtime, ttOp[p], ttArg[p], ttPc[p])
    BY DEF TtInv
  <2>2. PICK a : a = ttArg[p]
    OBVIOUS
  <2>3. a \in ReadArgs /\ (a.timing /\ ~ a.late => ttVtime = p \/ TtReaders # {p})
    BY <1>4, <2>1, <2>2 DEF SlaveHolds, Resumes, Inside
  <2>4. PICK t0 \in {tt, [tt EXCEPT !.asleep = FALSE]} : t0 = tt
    OBVIOUS
  <2>5. PICK first \in BOOLEAN : first = FALSE
    OBVIOUS
  <2>6. ttread0(p, a, first, t0)
    BY <1>4, <2>2, <2>4, <2>5
  <2> QED BY <1>1, <2>3, <2>6, ttread0Keeps
<1>5. CASE TtReturns(p, tt) /\ ttVtime' = ttVtime
  <2>1. Around(p, tt)
    BY <1>1, <1>5, QuietSame
  <2> QED BY <1>5, <2>1, TtSlaveIs, Returned
<1> QED BY <1>3, <1>4, <1>5 DEF ptyread

\* A step of the clock: what is woken, with the terminal as it is.
Clocked(wake) ==
  /\ ttPc' = [q \in TtProcs |-> Roused(q, wake)]
  /\ UNCHANGED <<tt, ttMode, ttOp>>
  /\ tt.mopen # 0 => ttCycle'

LEMMA ClockedKeeps ==
  ASSUME TtInv, NEW wake \in SUBSET TtWakes, Clocked(wake), UNCHANGED <<ttVtime, ttArg>>
  PROVE  TtInv'
<1>1. PICK t : t = Waking(tt, wake)
  OBVIOUS
<1>2. tt \in TtStates /\ tt.wake = {} /\ TtTyped
  BY DEF TtInv, TtTyped
<1>3. Serves(tt, t) /\ t = [tt EXCEPT !.wake = @ \cup wake]
  BY <1>1, <1>2, WakingServes
<1>4. t.wake = wake /\ tt = [t EXCEPT !.wake = {}]
  BY <1>2, <1>3 DEF TtStates
<1>5. PICK s : s = tt
  OBVIOUS
<1>6. s.wake = {} /\ Serves(s, t) /\ s = [t EXCEPT !.wake = {}]
  BY <1>2, <1>3, <1>4, <1>5
<1>7. ASSUME NEW q \in TtSlaves
      PROVE  SlaveHolds(q, s, ttVtime, ttOp[q], ttArg[q], Roused(q, wake))
  <2>1. SlaveHolds(q, s, ttVtime, ttOp[q], ttArg[q], ttPc[q])
    BY <1>5 DEF TtInv
  <2>2. PICK v : v = ttVtime
    OBVIOUS
  <2> QED BY <1>4, <1>6, <2>1, <2>2, SlaveStays
<1>8. ASSUME NEW m \in TtMasters
      PROVE  MasterHolds(s, ttOp[m], ttArg[m], Roused(m, wake))
  <2>1. MasterHolds(s, ttOp[m], ttArg[m], ttPc[m])
    BY <1>5 DEF TtInv
  <2> QED BY <1>4, <1>6, <2>1, MasterStays
<1>9. \A q \in TtProcs : ttPc'[q] = Roused(q, wake)
  BY DEF Clocked
<1>10. TtTyped'
  <2>1. \A q \in TtProcs : Roused(q, wake) \in TtPcs
    BY <1>2 DEF Roused, TtTyped, TtPcs
  <2>2. ttPc' \in [TtProcs -> TtPcs]
    BY <2>1 DEF Clocked
  <2> QED BY <1>2, <2>2 DEF TtTyped, Clocked
<1>11. \A q : q \in TtSlaves \/ q \in TtMasters => q \in TtProcs
  BY DEF TtProcs
<1> QED BY <1>5, <1>7, <1>8, <1>9, <1>10, <1>11 DEF TtInv, Clocked

LEMMA CycleKeeps == ASSUME TtInv, Cycle PROVE TtInv'
<1>1. tt \in TtStates /\ tt.wake = {}
  BY DEF TtInv, TtTyped
<1>2. PICK wake : wake = ptycycle(tt).wake
  OBVIOUS
<1>3. wake \in SUBSET TtWakes
  <2>1. PICK u : u = ptycycle(tt)
    OBVIOUS
  <2>2. PICK w : w = {"p_mopen"}
    OBVIOUS
  <2>3. w \in SUBSET TtWakes
    BY <2>2 DEF TtWakes
  <2>4. Serves(tt, Waking(tt, w)) /\ Serves(tt, tt)
    BY <1>1, <2>3, WakingServes, ServesSame
  <2>5. u \in {tt, Waking(tt, w)}
    BY <2>1, <2>2 DEF ptycycle
  <2>6. u \in TtStates
    BY <2>4, <2>5 DEF Serves
  <2> QED BY <1>2, <2>1, <2>6 DEF TtStates
<1>4. Clocked(wake)
  BY <1>2 DEF Cycle, Clocked
<1> QED BY <1>3, <1>4, ClockedKeeps DEF Cycle

LEMMA VtimeOverKeeps ==
  ASSUME TtInv, NEW p \in TtSlaves, VtimeOver(p) PROVE TtInv'
<1>1. TtTyped /\ tt \in TtStates /\ tt.wake = {} /\ p \in TtProcs /\ p \notin TtMasters
  BY TtSlaveIs DEF TtInv, TtTyped
<1>2. Inside(ttPc[p]) /\ ttOp[p] = "read"
  BY DEF VtimeOver, Inside
<1>3. SlaveHolds(p, tt, ttVtime, ttOp[p], ttArg[p], ttPc[p])
  BY DEF TtInv
<1>4. p \in TtReaders /\ ttArg[p] \in ReadArgs
  BY <1>2, <1>3 DEF SlaveHolds
<1>5. PICK b : b = [ttArg[p] EXCEPT !.late = TRUE]
  OBVIOUS
<1>6. b \in ReadArgs /\ b.late = TRUE
  <2>1. PICK a \in ReadArgs : a = ttArg[p]
    BY <1>4
  <2>2. b = [a EXCEPT !.late = TRUE]
    BY <1>5, <2>1
  <2> QED BY <2>2 DEF ReadArgs
<1>7. ttArg' = [ttArg EXCEPT ![p] = b]
  BY <1>5 DEF VtimeOver
<1>8. DOMAIN ttArg' = TtProcs /\ ttArg' = [q \in TtProcs |-> ttArg'[q]]
      /\ ttArg'[p] = b /\ \A q \in TtProcs : q # p => ttArg'[q] = ttArg[q]
  BY <1>1, <1>7 DEF TtTyped
<1>9. UNCHANGED <<tt, ttCycle, ttMode, ttOp>>
  BY DEF VtimeOver
<1>10. PICK wake \in SUBSET TtWakes : wake = {"t_iq"}
  BY DEF TtWakes
<1>11. \/ ttVtime = p /\ ttPc' = [q \in TtProcs |-> Roused(q, wake)]
       \/ UNCHANGED <<ttVtime, ttPc>>
  BY <1>10 DEF VtimeOver
<1>12. \A q : q \in TtSlaves \/ q \in TtMasters => q \in TtProcs
  BY DEF TtProcs
<1>13. PICK t : t = Waking(tt, wake)
  OBVIOUS
<1>14. Serves(tt, t) /\ t = [tt EXCEPT !.wake = @ \cup wake]
  BY <1>1, <1>13, WakingServes
<1>15. PICK s : s = tt
  OBVIOUS
<1>16. t.wake = wake /\ s.wake = {} /\ Serves(s, t) /\ s = [t EXCEPT !.wake = {}]
  BY <1>1, <1>14, <1>15 DEF TtStates
<1>17. ttPc' \in [TtProcs -> TtPcs]
  <2>1. \A q \in TtProcs : Roused(q, wake) \in TtPcs
    BY <1>1 DEF Roused, TtTyped, TtPcs
  <2> QED BY <1>1, <1>11, <2>1 DEF TtTyped
<1>18. TtTyped'
  BY <1>1, <1>8, <1>9, <1>17 DEF TtTyped
<1>19. ASSUME NEW q \in TtSlaves
       PROVE  SlaveHolds(q, tt', ttVtime', ttOp'[q], ttArg'[q], ttPc'[q])
  <2>1. PICK v : v = ttVtime
    OBVIOUS
  <2>2. PICK x : x = ttVtime'
    OBVIOUS
  <2>3. SlaveHolds(q, s, v, ttOp[q], ttArg[q], ttPc[q])
    BY <1>15, <2>1 DEF TtInv
  <2>4. CASE q # p
    <3>1. x = v \/ q \notin TtReaders \/ TtReaders # {q}
      BY <1>4, <2>4
    <3>2. SlaveHolds(q, s, x, ttOp[q], ttArg[q], Roused(q, wake))
      BY <1>16, <2>3, <3>1, SlaveStays
    <3>3. ttArg'[q] = ttArg[q] /\ ttOp'[q] = ttOp[q] /\ tt' = s
      BY <1>8, <1>9, <1>12, <1>15, <2>4
    <3>4. CASE ttPc' = [r \in TtProcs |-> Roused(r, wake)]
      BY <1>12, <2>2, <3>2, <3>3, <3>4
    <3>5. CASE UNCHANGED <<ttVtime, ttPc>>
      BY <2>1, <2>3, <3>3, <3>5
    <3> QED BY <1>11, <3>4, <3>5
  <2>5. CASE q = p
    <3>1. ttPc'[p] = "asleep" => ForReader(tt')
      <4>1. CASE ttPc' = [r \in TtProcs |-> Roused(r, wake)]
        <5>1. SleepsOn(p) = "t_iq"
          BY <1>1, <1>2 DEF SleepsOn
        <5>2. Roused(p, wake) # "asleep"
          BY <1>10, <5>1, RousedIs DEF Inside
        <5> QED BY <1>1, <4>1, <5>2
      <4>2. CASE UNCHANGED <<ttVtime, ttPc>>
        BY <1>2, <1>3, <1>9, <4>2 DEF SlaveHolds
      <4> QED BY <1>11, <4>1, <4>2
    <3>2. ttArg'[p] = b /\ ttOp'[p] = "read"
      BY <1>2, <1>8, <1>9
    <3> QED BY <1>4, <1>6, <2>5, <3>1, <3>2 DEF SlaveHolds
  <2> QED BY <2>4, <2>5
<1>20. ASSUME NEW m \in TtMasters
       PROVE  MasterHolds(tt', ttOp'[m], ttArg'[m], ttPc'[m])
  <2>1. MasterHolds(s, ttOp[m], ttArg[m], ttPc[m])
    BY <1>15 DEF TtInv
  <2>2. MasterHolds(s, ttOp[m], ttArg[m], Roused(m, wake))
    BY <1>16, <2>1, MasterStays
  <2>3. ttArg'[m] = ttArg[m] /\ ttOp'[m] = ttOp[m] /\ tt' = s
    BY <1>1, <1>8, <1>9, <1>12, <1>15
  <2>4. CASE ttPc' = [r \in TtProcs |-> Roused(r, wake)]
    BY <1>12, <2>2, <2>3, <2>4
  <2>5. CASE UNCHANGED <<ttVtime, ttPc>>
    BY <2>1, <2>3, <2>5
  <2> QED BY <1>11, <2>4, <2>5
<1>21. tt'.mopen # 0 => ttCycle'
  BY <1>9 DEF TtInv
<1> QED BY <1>18, <1>19, <1>20, <1>21 DEF TtInv

LEMMA TellMasterServes ==
  ASSUME NEW t \in TtStates
  PROVE  Serves(t, TellMaster(t)) /\ TellMaster(t) \in TtStates
         /\ TellMaster(t).flags = t.flags /\ TellMaster(t).mopen = t.mopen
<1>1. PICK w \in SUBSET TtWakes : w = {"p_mopen"}
  BY DEF TtWakes
<1>2. Serves(t, Waking(t, w)) /\ Waking(t, w) = [t EXCEPT !.wake = @ \cup w]
  BY WakingServes
<1> QED BY <1>1, <1>2 DEF TellMaster, Serves, TtStates

LEMMA ttwrite0Keeps ==
  ASSUME TtInv, NEW p \in TtSlaves, NEW k \in Int, NEW held \in BOOLEAN,
         NEW t0 \in {tt, [tt EXCEPT !.ttwr = TRUE]}, ttwrite0(p, k, held, t0),
         UNCHANGED <<ttTimers, ttMode>>
  PROVE  TtInv'
<1>1. tt \in TtStates /\ TtTyped /\ UNCHANGED <<ttCycle, ttVtime>>
  BY DEF TtInv, TtTyped, ttTimers
<1>2. /\ t0 \in TtStates /\ t0.flags = tt.flags /\ t0.iq = tt.iq /\ t0.mopen = tt.mopen
      /\ t0.asleep = tt.asleep /\ t0.wake = tt.wake /\ t0.oq \in Int
  BY <1>1 DEF TtStates
<1> DEFINE room == IF t0.oq < OHILIM THEN OHILIM - t0.oq ELSE 0
           carrier == "T_CARR" \in t0.flags
           n == IF carrier THEN Min2(k, room) ELSE IF held THEN Min2(1, room) ELSE 0
           t == [t0 EXCEPT !.oq = @ + n]
           returned(u) == [u EXCEPT !.ttwr = FALSE]
<1>3. \/ TtReturns(p, returned(TellMaster(ttstart(t))))
      \/ TtReturns(p, returned(t))
      \/ TtSleep(p, "write", [ioc |-> k - n], TellMaster(Flags(ttstart(t), {"T_HILIM"}, {})))
  BY DEF ttwrite0
<1>4. n \in Int
  <2>1. room \in Int
    BY <1>2, TtAssumption
  <2> HIDE DEF room
  <2> QED BY <2>1 DEF Min2
<1> HIDE DEF n
<1>5. t \in TtStates /\ t.flags = tt.flags /\ t.iq = tt.iq /\ t.mopen = tt.mopen
      /\ t.asleep = tt.asleep /\ t.wake = tt.wake
  <2>1. PICK i \in Int : i = t0.oq + n
    BY <1>2, <1>4
  <2>2. t = [t0 EXCEPT !.oq = i]
    BY <2>1
  <2> HIDE DEF t
  <2> QED BY <1>2, <2>2 DEF TtStates
<1> HIDE DEF t
<1>6. Serves(tt, t)
  BY <1>1, <1>5, BesidesServes
<1>7. PICK s : s = ttstart(t)
  OBVIOUS
<1>8. Serves(tt, s) /\ s \in TtStates /\ s.mopen = tt.mopen
  <2>1. Serves(t, s) /\ s \in TtStates /\ s.mopen = t.mopen
    BY <1>5, <1>7, ttstartServes, ttstartMopen
  <2> QED BY <1>5, <1>6, <2>1, ServesOn
<1>9. ASSUME NEW u \in TtStates, Serves(tt, u), u.mopen = tt.mopen, NEW r, r = returned(u)
      PROVE  Around(p, r)
  <2>1. /\ r \in TtStates /\ r.flags = u.flags /\ r.iq = u.iq /\ r.mopen = u.mopen
        /\ r.asleep = u.asleep /\ r.wake = u.wake
    BY <1>9 DEF TtStates
  <2>2. Serves(u, r)
    BY <2>1, BesidesServes
  <2>3. Serves(tt, r)
    BY <1>9, <2>2, ServesOn
  <2> QED BY <1>1, <1>9, <2>1, <2>3 DEF Around, TtInv, TtTyped
<1>10. PICK y : y = TellMaster(s)
  OBVIOUS
<1>11. Serves(tt, y) /\ y \in TtStates /\ y.mopen = tt.mopen
  <2>1. Serves(s, y) /\ y \in TtStates /\ y.mopen = s.mopen
    BY <1>8, <1>10, TellMasterServes
  <2> QED BY <1>8, <2>1, ServesOn
<1>12. CASE TtReturns(p, returned(TellMaster(ttstart(t))))
  <2>1. PICK r : r = returned(y)
    OBVIOUS
  <2>2. TtReturns(p, r) /\ Around(p, r)
    BY <1>7, <1>9, <1>10, <1>11, <1>12, <2>1
  <2> QED BY <2>2, TtSlaveIs, Returned
<1>13. CASE TtReturns(p, returned(t))
  <2>1. PICK r : r = returned(t)
    OBVIOUS
  <2>2. TtReturns(p, r) /\ Around(p, r)
    BY <1>5, <1>6, <1>9, <1>13, <2>1
  <2> QED BY <2>2, TtSlaveIs, Returned
<1>14. CASE TtSleep(p, "write", [ioc |-> k - n], TellMaster(Flags(ttstart(t), {"T_HILIM"}, {})))
  <2>1. PICK on \in SUBSET TtFlags : on = {"T_HILIM"}
    BY DEF TtFlags
  <2>2. PICK off \in SUBSET {"T_STOP"} : off = {}
    OBVIOUS
  <2>3. PICK f : f = Flags(s, on, off)
    OBVIOUS
  <2>4. Serves(s, f)
    BY <1>8, <2>3, FlagsServes
  <2>5. f \in TtStates /\ f.mopen = s.mopen /\ "T_HILIM" \in f.flags
    BY <1>8, <2>1, <2>2, <2>3 DEF Flags, TtStates
  <2>6. PICK z : z = TellMaster(f)
    OBVIOUS
  <2>7. Serves(f, z) /\ z \in TtStates /\ z.flags = f.flags /\ z.mopen = f.mopen
    BY <2>5, <2>6, TellMasterServes
  <2>8. Serves(tt, z)
    BY <1>8, <2>4, <2>7, ServesOn
  <2>9. Around(p, z)
    BY <1>1, <1>8, <2>5, <2>7, <2>8 DEF Around, TtInv, TtTyped
  <2>10. PICK args : args = [ioc |-> k - n]
    OBVIOUS
  <2>11. args.ioc \in Int
    BY <1>4, <2>10
  <2>12. ForWriter(tt')
    <3>1. tt' = [z EXCEPT !.wake = {}]
      BY <1>7, <1>14, <2>1, <2>2, <2>3, <2>6 DEF TtSleep
    <3>2. tt'.flags = z.flags
      BY <2>7, <3>1 DEF TtStates
    <3> QED BY <2>5, <2>7, <3>2 DEF ForWriter
  <2>13. PICK op \in TtOps : op = "write"
    BY DEF TtOps
  <2>14. SlaveHolds(p, tt', ttVtime', op, args, "asleep")
    BY <2>11, <2>12, <2>13 DEF SlaveHolds
  <2>15. TtSleep(p, op, args, z)
    BY <1>7, <1>14, <2>1, <2>2, <2>3, <2>6, <2>10, <2>13
  <2> QED BY <2>9, <2>14, <2>15, TtSlaveIs, Slept
<1> QED BY <1>3, <1>12, <1>13, <1>14

LEMMA ptywriteKeeps ==
  ASSUME TtInv, NEW p \in TtSlaves, ptywrite(p) PROVE TtInv'
<1>1. UNCHANGED <<ttTimers, ttMode>> /\ UNCHANGED <<ttCycle, ttVtime>>
  BY DEF ptywrite, ttTimers
<1>2. tt \in TtStates
  BY DEF TtInv, TtTyped
<1>3. CASE \E k \in TtSizes : ttwrite0(p, k, FALSE, [tt EXCEPT !.ttwr = TRUE])
  <2>1. PICK k \in TtSizes : ttwrite0(p, k, FALSE, [tt EXCEPT !.ttwr = TRUE])
    BY <1>3
  <2>2. k \in Int
    BY TtAssumption
  <2>3. PICK t0 \in {tt, [tt EXCEPT !.ttwr = TRUE]} : t0 = [tt EXCEPT !.ttwr = TRUE]
    OBVIOUS
  <2>4. PICK held \in BOOLEAN : held = FALSE
    OBVIOUS
  <2>5. ttwrite0(p, k, held, t0)
    BY <2>1, <2>3, <2>4
  <2> QED BY <1>1, <2>2, <2>5, ttwrite0Keeps
<1>4. CASE Resumes(p, "write") /\ ttwrite0(p, ttArg[p].ioc, TRUE, tt)
  <2>1. SlaveHolds(p, tt, ttVtime, ttOp[p], ttArg[p], ttPc[p])
    BY DEF TtInv
  <2>2. ttArg[p].ioc \in Int
    BY <1>4, <2>1 DEF SlaveHolds, Resumes, Inside
  <2>3. PICK k \in Int : k = ttArg[p].ioc
    BY <2>2
  <2>4. PICK t0 \in {tt, [tt EXCEPT !.ttwr = TRUE]} : t0 = tt
    OBVIOUS
  <2>5. PICK held \in BOOLEAN : held = TRUE
    OBVIOUS
  <2>6. ttwrite0(p, k, held, t0)
    BY <1>4, <2>3, <2>4, <2>5
  <2> QED BY <1>1, <2>6, ttwrite0Keeps
<1>5. CASE TtReturns(p, [tt EXCEPT !.ttwr = FALSE])
  <2>1. PICK u : u = [tt EXCEPT !.ttwr = FALSE]
    OBVIOUS
  <2>2. /\ u \in TtStates /\ u.flags = tt.flags /\ u.iq = tt.iq /\ u.mopen = tt.mopen
        /\ u.asleep = tt.asleep /\ u.wake = tt.wake
    BY <1>2, <2>1 DEF TtStates
  <2>3. Serves(tt, u)
    BY <1>2, <2>2, BesidesServes
  <2>4. Around(p, u)
    BY <1>1, <2>2, <2>3 DEF Around, TtInv, TtTyped
  <2> QED BY <1>5, <2>1, <2>4, TtSlaveIs, Returned
<1> QED BY <1>3, <1>4, <1>5 DEF ptywrite

----------------------------------------------------------------------------
(* The mode, the drains and the flushes; open and close.                   *)

LEMMA Drained ==
  ASSUME TtInv, NEW p \in TtSlaves, NEW op \in {"drain", "close"}, NEW args, NEW t,
         Serves(tt, t), t.mopen = tt.mopen, Draining(p, op, args, t),
         UNCHANGED <<ttVtime, ttCycle>>, ttMode' \in TtModeSet
  PROVE  TtInv'
<1>1. PICK on \in SUBSET TtFlags : on = {"T_DRAIN"}
  BY DEF TtFlags
<1>2. PICK off \in SUBSET {"T_STOP"} : off = {}
  OBVIOUS
<1>3. PICK f : f = Flags(t, on, off)
  OBVIOUS
<1>4. t \in TtStates
  BY DEF Serves
<1>5. Serves(t, f)
  BY <1>3, <1>4, FlagsServes
<1>6. f \in TtStates /\ f.mopen = t.mopen /\ "T_DRAIN" \in f.flags
  BY <1>1, <1>2, <1>3, <1>4 DEF Flags, TtStates
<1>7. Serves(tt, f)
  BY <1>5, ServesOn
<1>8. Around(p, f)
  BY <1>6, <1>7 DEF Around, TtInv, TtTyped
<1>9. TtSleep(p, op, args, f)
  BY <1>1, <1>2, <1>3 DEF Draining
<1>10. ForDrain(tt')
  <2>1. tt' = [f EXCEPT !.wake = {}]
    BY <1>9 DEF TtSleep
  <2>2. tt'.flags = f.flags
    BY <1>6, <2>1 DEF TtStates
  <2> QED BY <1>6, <2>2 DEF ForDrain
<1>11. SlaveHolds(p, tt', ttVtime', op, args, "asleep")
  BY <1>10 DEF SlaveHolds
<1>12. PICK o \in TtOps : o = op
  BY DEF TtOps
<1> QED BY <1>8, <1>9, <1>11, <1>12, TtSlaveIs, Slept

LEMMA FlushedServes ==
  ASSUME NEW t \in TtStates, NEW queues PROVE Serves(t, Flushed(t, queues))
<1>1. PICK i : i = IF "in" \in queues THEN ttinflush(t) ELSE t
  OBVIOUS
<1>2. Serves(t, i) /\ i \in TtStates
  BY <1>1, ttinflushServes, ServesSame DEF Serves
<1>3. Serves(i, ttoutflush(i))
  BY <1>2, ttoutflushServes
<1>4. Serves(t, ttoutflush(i))
  BY <1>2, <1>3, ServesOn
<1>5. Flushed(t, queues) = ttoutflush(i) \/ Flushed(t, queues) = i
  BY <1>1 DEF Flushed
<1> QED BY <1>2, <1>4, <1>5

LEMMA FlushedMopen ==
  ASSUME NEW t \in TtStates, NEW queues PROVE Flushed(t, queues).mopen = t.mopen
<1>1. PICK i : i = IF "in" \in queues THEN ttinflush(t) ELSE t
  OBVIOUS
<1>2. i \in TtStates
  BY <1>1, ttinflushServes, ServesSame DEF Serves
<1>3. i.mopen = t.mopen
  BY <1>1 DEF ttinflush, Waking, TtStates
<1>4. ttoutflush(i).mopen = i.mopen
  BY <1>2 DEF ttoutflush, Waking, TtStates
<1>5. Flushed(t, queues) = ttoutflush(i) \/ Flushed(t, queues) = i
  BY <1>1 DEF Flushed
<1> QED BY <1>3, <1>4, <1>5

LEMMA ReturnsFlushed ==
  ASSUME TtInv, NEW p \in TtSlaves, NEW queues, TtReturns(p, Flushed(tt, queues)),
         UNCHANGED <<ttVtime, ttCycle>>, ttMode' \in TtModeSet
  PROVE  TtInv'
<1>1. PICK u : u = Flushed(tt, queues)
  OBVIOUS
<1>2. tt \in TtStates
  BY DEF TtInv, TtTyped
<1>3. Serves(tt, u) /\ u.mopen = tt.mopen
  BY <1>1, <1>2, FlushedServes, FlushedMopen
<1>4. Around(p, u)
  BY <1>3 DEF Around, TtInv
<1> QED BY <1>1, <1>4, TtSlaveIs, Returned

LEMMA ttdrainKeeps ==
  ASSUME TtInv, NEW p \in TtSlaves, NEW queues, ttdrain(p, queues),
         UNCHANGED <<ttVtime, ttCycle>>, ttMode' \in TtModeSet
  PROVE  TtInv'
<1>1. CASE TtReturns(p, Flushed(tt, queues))
  BY <1>1, ReturnsFlushed
<1>2. CASE Draining(p, "drain", [ioc |-> 0, queues |-> queues], tt)
  <2>1. PICK args : args = [ioc |-> 0, queues |-> queues]
    OBVIOUS
  <2>2. PICK op \in {"drain", "close"} : op = "drain"
    OBVIOUS
  <2>3. Draining(p, op, args, tt)
    BY <1>2, <2>1, <2>2
  <2>4. Serves(tt, tt)
    BY ServesSame DEF TtInv, TtTyped
  <2>5. PICK t : t = tt
    OBVIOUS
  <2>6. Serves(tt, t) /\ t.mopen = tt.mopen /\ Draining(p, op, args, t)
    BY <2>3, <2>4, <2>5
  <2> QED BY <2>6, Drained
<1> QED BY <1>1, <1>2 DEF ttdrain

LEMMA ttioctlKeeps ==
  ASSUME TtInv, NEW p \in TtSlaves, ttioctl(p) PROVE TtInv'
<1>1. UNCHANGED <<ttVtime, ttCycle>>
  BY DEF ttioctl, ttTimers
<1>2. tt \in TtStates /\ ttMode \in TtModeSet
  BY DEF TtInv, TtTyped
<1>3. CASE ttMode' = ttMode /\ \E queues : ttdrain(p, queues)
  BY <1>1, <1>2, <1>3, ttdrainKeeps
<1>4. CASE ttMode' = ttMode /\ \E queues : TtReturns(p, Flushed(tt, queues))
  BY <1>1, <1>2, <1>4, ReturnsFlushed
<1>5. CASE ttMode' \in TtModes /\ \E queues : ttdrain(p, queues)
  <2>1. ttMode' \in TtModeSet
    BY <1>5, TtAssumption
  <2> QED BY <1>1, <1>5, <2>1, ttdrainKeeps
<1>6. CASE /\ ttMode' \in TtModesNow
           /\ TtReturns(p, IF ttMode.canon /\ ~ttMode'.canon THEN ttrtp(tt) ELSE tt)
  <2>1. ttMode' \in TtModeSet
    BY <1>6, TtAssumption
  <2>2. CASE TtReturns(p, tt)
    <3>1. Around(p, tt)
      BY <1>1, <1>2, <2>1, ServesSame DEF Around, TtInv
    <3> QED BY <2>2, <3>1, TtSlaveIs, Returned
  <2>3. CASE ttMode.canon /\ ~ttMode'.canon /\ TtReturns(p, ttrtp(tt))
    <3>1. ~ TtStaysCanonical
      BY <1>6, <2>3 DEF TtStaysCanonical
    <3>2. PICK q : q = tt.iq \o tt.ib
      OBVIOUS
    <3>3. PICK b : b = << >>
      OBVIOUS
    <3>4. q \in Seq(TtChars) /\ b \in Seq(TtChars)
      BY <1>2, <3>2, <3>3 DEF TtStates
    <3>5. PICK u : u = ttrtp(tt)
      OBVIOUS
    <3>6. u = [tt EXCEPT !.iq = q, !.ib = b]
      BY <1>2, <3>2, <3>3, <3>5 DEF ttrtp, TtStates
    <3>7. /\ u \in TtStates /\ u.flags = tt.flags /\ u.mopen = tt.mopen
          /\ u.asleep = tt.asleep /\ u.wake = tt.wake
      BY <1>2, <3>4, <3>6 DEF TtStates
    <3>8. Serves(tt, u)
      BY <3>1, <3>7
         DEF Serves, ForReader, ForWriter, ForDrain, ForInput, ForOutput, ForCycle
    <3>9. Around(p, u)
      BY <1>1, <2>1, <3>7, <3>8 DEF Around, TtInv
    <3> QED BY <2>3, <3>5, <3>9, TtSlaveIs, Returned
  <2> QED BY <1>6, <2>2, <2>3
<1> QED BY <1>3, <1>4, <1>5, <1>6 DEF ttioctl

LEMMA ptyopenKeeps ==
  ASSUME TtInv, NEW p \in TtSlaves, ptyopen(p) PROVE TtInv'
<1>1. UNCHANGED <<ttVtime, ttCycle>>
  BY DEF ptyopen, ttTimers
<1>2. tt \in TtStates /\ ttMode \in TtModeSet
  BY DEF TtInv, TtTyped
<1>3. PICK f : f = Flags(tt, {"T_STOP"}, {})
  OBVIOUS
<1>4. PICK g : g = Flags(tt, {}, {"T_STOP"})
  OBVIOUS
<1>5. PICK c : c = Flags(tt, {"T_CARR"}, {"T_STOP"})
  OBVIOUS
<1>6. {"T_STOP"} \in SUBSET TtFlags /\ {} \in SUBSET TtFlags /\ {"T_CARR"} \in SUBSET TtFlags
      /\ {"T_STOP"} \in SUBSET {"T_STOP"} /\ {} \in SUBSET {"T_STOP"}
  BY DEF TtFlags
<1>7. Serves(tt, f) /\ Serves(tt, g) /\ Serves(tt, c)
  BY <1>2, <1>3, <1>4, <1>5, <1>6, FlagsServes
<1>8. f.mopen = tt.mopen /\ g.mopen = tt.mopen
  BY <1>2, <1>3, <1>4 DEF Flags, TtStates
<1>9. ASSUME NEW t \in {tt, f}, TtSleep(p, "open", NoArg, t), ttMode' = ttMode
      PROVE  TtInv'
  <2>1. PICK op \in TtOps : op = "open"
    BY DEF TtOps
  <2>2. SlaveHolds(p, tt', ttVtime', op, NoArg, "asleep")
    BY <2>1 DEF SlaveHolds
  <2>3. Serves(tt, t) /\ t.mopen = tt.mopen
    BY <1>2, <1>7, <1>8, ServesSame
  <2>4. Around(p, t)
    BY <1>1, <1>2, <1>9, <2>3 DEF Around, TtInv
  <2>5. TtSleep(p, op, NoArg, t)
    BY <1>9, <2>1
  <2> QED BY <2>2, <2>4, <2>5, TtSlaveIs, Slept
<1>10. CASE ttMode' = ttMode /\ TtEnds(p, "closed", g)
  <2>1. Around(p, g)
    BY <1>1, <1>2, <1>7, <1>8, <1>10 DEF Around, TtInv
  <2> QED BY <1>10, <2>1, Ended
<1>11. CASE tt.mopen # 0 /\ Opened(p)
  <2>1. PICK u : u = [c EXCEPT !.open = @ + 1, !.group = @ \/ p \in TtLeaders, !.mopen = 2]
    OBVIOUS
  <2>2. c \in TtStates
    BY <1>7 DEF Serves
  <2>3. PICK i \in Int : i = c.open + 1
    BY <2>2 DEF TtStates
  <2>4. PICK h \in BOOLEAN : h = (c.group \/ p \in TtLeaders)
    OBVIOUS
  <2>12. PICK n \in 0 .. 3 : n = 2
    OBVIOUS
  <2>5. u = [c EXCEPT !.open = i, !.group = h, !.mopen = n]
    BY <2>1, <2>3, <2>4, <2>12
  <2>6. /\ u \in TtStates /\ u.flags = c.flags /\ u.iq = c.iq /\ u.mopen = 2
        /\ u.asleep = c.asleep /\ u.wake = c.wake
    <3>1. PICK v : v = [c EXCEPT !.open = i]
      OBVIOUS
    <3>2. /\ v \in TtStates /\ v.flags = c.flags /\ v.iq = c.iq
          /\ v.asleep = c.asleep /\ v.wake = c.wake
      BY <2>2, <3>1 DEF TtStates
    <3>3. u = [v EXCEPT !.group = h, !.mopen = n]
      BY <2>2, <2>5, <3>1 DEF TtStates
    <3> QED BY <2>12, <3>2, <3>3 DEF TtStates
  <2>7. Serves(c, u)
    BY <2>6 DEF Serves, ForReader, ForWriter, ForDrain, ForInput, ForOutput, ForCycle
  <2>8. Serves(tt, u)
    BY <1>7, <2>7, ServesOn
  <2>9. ttMode' \in TtModeSet
    BY <1>11, TtAssumption DEF Opened, DefaultMode, TtModeSet
  <2>10. Around(p, u)
    BY <1>1, <1>11, <2>8, <2>9 DEF Around, TtInv
  <2>11. TtReturns(p, u)
    BY <1>5, <1>11, <2>1 DEF Opened
  <2> QED BY <2>10, <2>11, TtSlaveIs, Returned
<1>12. CASE ttMode' = ttMode /\ \E t \in {tt, f} : TtSleep(p, "open", NoArg, t)
  BY <1>9, <1>12
<1> QED BY <1>3, <1>4, <1>10, <1>11, <1>12 DEF ptyopen

\* What Closed makes of the terminal.
AfterClose(t) ==
  Waking([ttflush(t) EXCEPT !.flags = {}, !.group = FALSE,
                            !.mopen = IF @ = 2 THEN 3 ELSE @], {"p_mopen"})

LEMMA AfterCloseServes ==
  ASSUME NEW t \in TtStates
  PROVE  Serves(t, AfterClose(t)) /\ (t.mopen # 0 <=> AfterClose(t).mopen # 0)
<1>1. PICK f : f = ttflush(t)
  OBVIOUS
<1>2. /\ f \in TtStates /\ f.mopen = t.mopen /\ Serves(t, f)
      /\ ForReader(t) => "t_iq" \in f.wake
      /\ ForWriter(t) \/ ForDrain(t) => "t_oq" \in f.wake
  BY <1>1, ttflushServes, ttflushMopen DEF Serves
<1>3. PICK n \in 0 .. 3 : n = IF f.mopen = 2 THEN 3 ELSE f.mopen
  BY <1>2 DEF TtStates
<1>4. PICK v : v = [f EXCEPT !.flags = {}, !.group = FALSE, !.mopen = n]
  OBVIOUS
<1>5. v \in TtStates /\ v.wake = f.wake /\ v.mopen = n
  <2>1. PICK o : o = [f EXCEPT !.flags = {}]
    OBVIOUS
  <2>2. o \in TtStates /\ o.wake = f.wake
    BY <1>2, <2>1 DEF TtStates
  <2>3. v = [o EXCEPT !.group = FALSE, !.mopen = n]
    BY <1>2, <1>4, <2>1 DEF TtStates
  <2> QED BY <2>2, <2>3 DEF TtStates
<1>6. PICK w \in SUBSET TtWakes : w = {"p_mopen"}
  BY DEF TtWakes
<1>7. PICK u : u = Waking(v, w)
  OBVIOUS
<1>8. u \in TtStates /\ u.wake = f.wake \cup w /\ u.mopen = n
  BY <1>5, <1>7 DEF Waking, TtStates
<1>9. u = AfterClose(t)
  BY <1>1, <1>3, <1>4, <1>6, <1>7 DEF AfterClose
<1>10. t.mopen # 0 <=> u.mopen # 0
  BY <1>2, <1>3, <1>8
<1>11. Serves(t, u)
  BY <1>2, <1>6, <1>8, <1>10
     DEF Serves, ForReader, ForWriter, ForDrain, ForInput, ForOutput, ForCycle
<1> QED BY <1>9, <1>10, <1>11

LEMMA ptycloseKeeps ==
  ASSUME TtInv, NEW p \in TtSlaves, ptyclose(p) PROVE TtInv'
<1>1. UNCHANGED <<ttVtime, ttCycle, ttMode>>
  BY DEF ptyclose, ttTimers
<1>2. tt \in TtStates /\ ttMode \in TtModeSet
  BY DEF TtInv, TtTyped
<1>3. PICK o : o = [tt EXCEPT !.open = @ - 1]
  OBVIOUS
<1>4. /\ o \in TtStates /\ o.flags = tt.flags /\ o.iq = tt.iq /\ o.mopen = tt.mopen
      /\ o.asleep = tt.asleep /\ o.wake = tt.wake
  <2>1. PICK i \in Int : i = tt.open - 1
    BY <1>2 DEF TtStates
  <2>2. o = [tt EXCEPT !.open = i]
    BY <1>3, <2>1
  <2> QED BY <1>2, <2>2 DEF TtStates
<1>5. Serves(tt, o) /\ Serves(tt, tt)
  BY <1>2, <1>4, BesidesServes, ServesSame
<1>6. ASSUME NEW t \in {tt, o}, Closed(p, t) PROVE TtInv'
  <2>1. Serves(tt, t) /\ t \in TtStates /\ t.mopen = tt.mopen
    BY <1>2, <1>4, <1>5
  <2>2. PICK u : u = AfterClose(t)
    OBVIOUS
  <2>3. Serves(t, u) /\ (t.mopen # 0 <=> u.mopen # 0)
    BY <2>1, <2>2, AfterCloseServes
  <2>4. Serves(tt, u)
    BY <2>1, <2>3, ServesOn
  <2>5. Around(p, u)
    BY <1>1, <1>2, <2>1, <2>3, <2>4 DEF Around, TtInv
  <2>6. TtEnds(p, "closed", u)
    BY <1>6, <2>2 DEF Closed, AfterClose
  <2> QED BY <2>5, <2>6, Ended
<1>7. ASSUME NEW t \in {tt, o}, Draining(p, "close", NoArg, t) PROVE TtInv'
  <2>1. Serves(tt, t) /\ t.mopen = tt.mopen
    BY <1>4, <1>5
  <2>2. PICK op \in {"drain", "close"} : op = "close"
    OBVIOUS
  <2>3. Draining(p, op, NoArg, t) /\ ttMode' \in TtModeSet
    BY <1>1, <1>2, <1>7, <2>2
  <2> QED BY <1>1, <2>1, <2>3, Drained
<1>8. CASE TtEnds(p, "closed", o)
  <2>1. Around(p, o)
    BY <1>1, <1>2, <1>4, <1>5 DEF Around, TtInv
  <2> QED BY <1>8, <2>1, Ended
<1>9. \/ TtEnds(p, "closed", o)
      \/ \E t \in {tt, o} : Closed(p, t) \/ Draining(p, "close", NoArg, t)
  BY <1>3 DEF ptyclose, ttclose
<1> QED BY <1>6, <1>7, <1>8, <1>9

----------------------------------------------------------------------------
(* The masters.                                                            *)

LEMMA TtMasterIs == ASSUME NEW m \in TtMasters PROVE m \in TtProcs /\ m \notin TtSlaves
BY TtAssumption DEF TtProcs

LEMMA masterOpenKeeps ==
  ASSUME TtInv, NEW m \in TtMasters, masterOpen(m) PROVE TtInv'
<1>1. tt \in TtStates /\ ttMode \in TtModeSet /\ tt.mopen = 0
  BY DEF TtInv, TtTyped, masterOpen
<1>2. PICK n \in 0 .. 3 : n = IF tt.open > 0 THEN 2 ELSE 1
  OBVIOUS
<1>3. n # 3
  BY <1>2
<1>4. PICK v : v = [tt EXCEPT !.mopen = n]
  OBVIOUS
<1>5. /\ v \in TtStates /\ v.flags = tt.flags /\ v.iq = tt.iq /\ v.mopen = n
      /\ v.asleep = tt.asleep /\ v.wake = tt.wake
  BY <1>1, <1>4 DEF TtStates
<1>6. Serves(tt, v)
  BY <1>1, <1>3, <1>5
     DEF Serves, ForReader, ForWriter, ForDrain, ForInput, ForOutput, ForCycle
<1>7. PICK w \in SUBSET TtWakes : w = {"t_open"}
  BY DEF TtWakes
<1>8. PICK x : x = Waking(v, w)
  OBVIOUS
<1>9. Serves(v, x) /\ x \in TtStates
  BY <1>5, <1>8, WakingServes DEF Serves
<1>10. PICK z \in SUBSET TtWakes : z = {"p_mopen"}
  BY DEF TtWakes
<1>11. Serves(x, Waking(x, z)) /\ Serves(x, x)
  BY <1>9, WakingServes, ServesSame
<1>12. PICK u : u = ptycycle(x)
  OBVIOUS
<1>13. u = x \/ u = Waking(x, z)
  BY <1>10, <1>12 DEF ptycycle
<1>14. Serves(tt, u)
  BY <1>6, <1>9, <1>11, <1>13, ServesOn
<1>15. UNCHANGED <<ttVtime, ttMode>> /\ ttCycle' /\ TtReturns(m, u)
  BY <1>2, <1>4, <1>7, <1>8, <1>12 DEF masterOpen
<1>16. Around(m, u)
  BY <1>1, <1>14, <1>15 DEF Around
<1> QED BY <1>15, <1>16, TtMasterIs, Returned

LEMMA masterCloseKeeps ==
  ASSUME TtInv, NEW m \in TtMasters, masterClose(m) PROVE TtInv'
<1>1. tt \in TtStates /\ ttMode \in TtModeSet
  BY DEF TtInv, TtTyped
<1>2. \A n \in TtMasters : AtUser(n)
  BY DEF masterClose
<1>3. PICK x : x = Flags(tt, {}, {"T_CARR"})
  OBVIOUS
<1>4. x \in TtStates /\ x.flags = tt.flags \ {"T_CARR"} /\ x.asleep = tt.asleep
      /\ x.wake = tt.wake
  BY <1>1, <1>3 DEF Flags, TtStates
<1>5. PICK f : f = ttflush(x)
  OBVIOUS
<1>6. /\ Serves(x, f) /\ f \in TtStates /\ x.wake \subseteq f.wake
      /\ ForReader(x) \/ "T_INPUT" \in x.flags => "t_iq" \in f.wake
      /\ ForWriter(x) \/ ForDrain(x) => "t_oq" \in f.wake
  BY <1>4, <1>5, ttflushServes DEF Serves
<1>7. PICK s : s = ttsignal(f)
  OBVIOUS
<1>8. Serves(f, s) /\ s \in TtStates /\ f.wake \subseteq s.wake
  BY <1>6, <1>7, ttsignalServes DEF Serves
<1>9. Serves(x, s)
  BY <1>6, <1>8, ServesOn
<1>10. PICK n \in 0 .. 3 : n = 0
  OBVIOUS
<1>11. PICK u : u = [s EXCEPT !.mopen = n]
  OBVIOUS
<1>12. /\ u \in TtStates /\ u.flags = s.flags /\ u.wake = s.wake /\ u.asleep = s.asleep
       /\ u.mopen = 0
  BY <1>8, <1>10, <1>11 DEF TtStates
<1>13. ForReader(tt) => ForReader(u)
  <2>1. ForReader(tt) => "T_INPUT" \in x.flags \/ "t_iq" \in x.wake
    BY <1>4 DEF ForReader
  <2>2. ForReader(tt) => "t_iq" \in f.wake
    BY <1>6, <2>1
  <2> QED BY <1>8, <1>12, <2>2 DEF ForReader
<1>14. (ForWriter(tt) => ForWriter(u)) /\ (ForDrain(tt) => ForDrain(u))
  <2>1. ForWriter(tt) \/ ForDrain(tt) => ForWriter(x) \/ ForDrain(x)
    BY <1>4 DEF ForWriter, ForDrain
  <2>2. ForWriter(tt) \/ ForDrain(tt) => "t_oq" \in f.wake
    BY <1>6, <2>1
  <2> QED BY <1>8, <1>12, <2>2 DEF ForWriter, ForDrain
<1>15. (ForInput(tt) => ForInput(u)) /\ (ForCycle(tt) => ForCycle(u))
  <2>1. (ForInput(tt) => ForInput(x)) /\ (ForCycle(tt) => ForCycle(x))
    BY <1>4 DEF ForInput, ForCycle
  <2>2. (ForInput(x) => ForInput(s)) /\ (ForCycle(x) => ForCycle(s))
    BY <1>9 DEF Serves
  <2>3. (ForInput(s) => ForInput(u)) /\ (ForCycle(s) => ForCycle(u))
    BY <1>12 DEF ForInput, ForCycle
  <2> QED BY <2>1, <2>2, <2>3
<1>16. ForOutput(u)
  BY <1>12 DEF ForOutput
<1>17. Serves(tt, u)
  BY <1>2, <1>12, <1>13, <1>14, <1>15, <1>16 DEF Serves
<1>18. UNCHANGED <<ttVtime, ttMode, ttCycle>> /\ TtReturns(m, u)
  BY <1>3, <1>5, <1>7, <1>10, <1>11 DEF masterClose, ttTimers
<1>19. Around(m, u)
  BY <1>1, <1>12, <1>17, <1>18 DEF Around
<1> QED BY <1>18, <1>19, TtMasterIs, Returned

\* A master goes to sleep in op with t.
LEMMA MasterSlept ==
  ASSUME TtInv, NEW m \in TtMasters, tt.mopen # 0, NEW op \in {"read", "write"}, NEW args,
         NEW t, Serves(tt, t), t.mopen = tt.mopen, TtSleep(m, op, args, [t EXCEPT !.asleep = TRUE]),
         UNCHANGED <<ttVtime, ttMode, ttCycle>>,
         op = "read" => args.ioc \in Int /\ t.mopen # 3,
         op = "write" => args.s \in Seq(TtChars) /\ args.s # << >> /\ "T_ISTOP" \in t.flags
  PROVE  TtInv'
<1>1. t \in TtStates /\ ttMode \in TtModeSet
  BY DEF Serves, TtInv, TtTyped
<1>2. PICK u : u = [t EXCEPT !.asleep = TRUE]
  OBVIOUS
<1>3. /\ u \in TtStates /\ u.flags = t.flags /\ u.iq = t.iq /\ u.mopen = t.mopen
      /\ u.asleep = TRUE /\ u.wake = t.wake
  BY <1>1, <1>2 DEF TtStates
<1>4. Serves(t, u)
  BY <1>3 DEF Serves, ForReader, ForWriter, ForDrain, ForInput, ForOutput, ForCycle
<1>5. Serves(tt, u)
  BY <1>4, ServesOn
<1>6. Around(m, u)
  BY <1>1, <1>3, <1>5 DEF Around, TtInv
<1>7. TtSleep(m, op, args, u)
  BY <1>2
<1>8. tt'.flags = u.flags /\ tt'.mopen = u.mopen /\ tt'.asleep = TRUE
  <2>1. tt' = [u EXCEPT !.wake = {}]
    BY <1>7 DEF TtSleep
  <2> QED BY <1>3, <2>1 DEF TtStates
<1>9. ForCycle(tt')
  BY <1>8 DEF ForCycle
<1>10. op = "read" => ForOutput(tt')
  BY <1>3, <1>8 DEF ForOutput
<1>11. op = "write" => ForInput(tt')
  BY <1>3, <1>8 DEF ForInput
<1>12. tt'.mopen # 0
  BY <1>3, <1>8
<1>13. MasterHolds(tt', op, args, "asleep")
  BY <1>9, <1>10, <1>11, <1>12 DEF MasterHolds
<1>14. PICK o \in TtOps : o = op
  BY DEF TtOps
<1> QED BY <1>6, <1>7, <1>13, <1>14, TtMasterIs, Slept

LEMMA ttoutKeeps ==
  ASSUME TtInv, NEW m \in TtMasters, tt.mopen # 0, NEW k \in Int, ttout(m, k),
         UNCHANGED <<ttVtime, ttMode, ttCycle>>
  PROVE  TtInv'
<1>1. tt \in TtStates /\ ttMode \in TtModeSet /\ tt.oq \in Int
  BY DEF TtInv, TtTyped, TtStates
<1> DEFINE n == Min2(k, tt.oq)
           t == [tt EXCEPT !.oq = @ - n]
<1>2. \/ TtReturns(m, t) \/ TtReturns(m, ttstart(t))
      \/ tt.mopen # 3 /\ TtSleep(m, "read", [ioc |-> k], [ttstart(t) EXCEPT !.asleep = TRUE])
  BY DEF ttout
<1>3. n \in Int
  BY <1>1 DEF Min2
<1> HIDE DEF n
<1>4. /\ t \in TtStates /\ t.flags = tt.flags /\ t.iq = tt.iq /\ t.mopen = tt.mopen
      /\ t.asleep = tt.asleep /\ t.wake = tt.wake
  <2>1. PICK i \in Int : i = tt.oq - n
    BY <1>1, <1>3
  <2>2. t = [tt EXCEPT !.oq = i]
    BY <2>1
  <2> HIDE DEF t
  <2> QED BY <1>1, <2>2 DEF TtStates
<1> HIDE DEF t
<1>5. PICK s : s = ttstart(t)
  OBVIOUS
<1>6. Serves(tt, t)
  BY <1>1, <1>4, BesidesServes
<1>7. Serves(tt, s) /\ s.mopen = tt.mopen
  <2>1. Serves(t, s) /\ s.mopen = t.mopen
    BY <1>4, <1>5, ttstartServes, ttstartMopen
  <2> QED BY <1>4, <1>6, <2>1, ServesOn
<1>8. Around(m, t) /\ Around(m, s)
  BY <1>1, <1>4, <1>6, <1>7 DEF Around, TtInv
<1>9. CASE TtReturns(m, t)
  BY <1>8, <1>9, TtMasterIs, Returned
<1>10. CASE TtReturns(m, ttstart(t))
  <2>1. TtReturns(m, s)
    BY <1>5, <1>10
  <2> QED BY <1>8, <2>1, TtMasterIs, Returned
<1>11. CASE tt.mopen # 3 /\ TtSleep(m, "read", [ioc |-> k], [ttstart(t) EXCEPT !.asleep = TRUE])
  <2>1. PICK args : args = [ioc |-> k]
    OBVIOUS
  <2>2. PICK op \in {"read", "write"} : op = "read"
    OBVIOUS
  <2>3. args.ioc \in Int /\ s.mopen # 3
    BY <1>7, <1>11, <2>1
  <2>4. TtSleep(m, op, args, [s EXCEPT !.asleep = TRUE])
    BY <1>5, <1>11, <2>1, <2>2
  <2> QED BY <1>7, <2>2, <2>3, <2>4, MasterSlept
<1> QED BY <1>2, <1>9, <1>10, <1>11

LEMMA masterReadKeeps ==
  ASSUME TtInv, NEW m \in TtMasters, masterRead(m) PROVE TtInv'
<1>1. UNCHANGED <<ttVtime, ttMode, ttCycle>>
  BY DEF masterRead, ttTimers
<1>2. CASE tt.mopen # 0 /\ \E k \in TtSizes : ttout(m, k)
  <2>1. PICK k \in TtSizes : ttout(m, k)
    BY <1>2
  <2>2. k \in Int
    BY TtAssumption
  <2> QED BY <1>1, <1>2, <2>1, <2>2, ttoutKeeps
<1>3. CASE Resumes(m, "read") /\ ttout(m, ttArg[m].ioc)
  <2>1. MasterHolds(tt, ttOp[m], ttArg[m], ttPc[m])
    BY DEF TtInv
  <2>2. tt.mopen # 0 /\ ttArg[m].ioc \in Int
    BY <1>3, <2>1 DEF Resumes, MasterHolds, Inside
  <2>3. PICK k \in Int : k = ttArg[m].ioc
    BY <2>2
  <2>4. ttout(m, k)
    BY <1>3, <2>3
  <2> QED BY <1>1, <2>2, <2>4, ttoutKeeps
<1> QED BY <1>2, <1>3 DEF masterRead

LEMMA WritesKeeps ==
  ASSUME TtInv, NEW m \in TtMasters, tt.mopen # 0, NEW f, f \in FedStates, Serves(tt, f.t),
         f.t.mopen = tt.mopen, f.rest # << >> => "T_ISTOP" \in f.t.flags, Writes(m, f),
         UNCHANGED <<ttVtime, ttMode, ttCycle>>
  PROVE  TtInv'
<1>1. ttMode \in TtModeSet
  BY DEF TtInv, TtTyped
<1>2. PICK t : t = f.t
  OBVIOUS
<1>3. t \in TtStates /\ f.rest \in Seq(TtChars) /\ Serves(tt, t) /\ t.mopen = tt.mopen
  BY <1>2 DEF FedStates
<1>4. PICK w \in SUBSET TtWakes : w = {"p_mopen"}
  BY DEF TtWakes
<1>5. PICK u : u = Waking(t, w)
  OBVIOUS
<1>6. Serves(tt, u) /\ u.mopen = tt.mopen
  <2>1. Serves(t, u) /\ u = [t EXCEPT !.wake = @ \cup w]
    BY <1>3, <1>5, WakingServes
  <2>2. u.mopen = t.mopen
    BY <1>3, <2>1 DEF TtStates
  <2> QED BY <1>3, <2>1, <2>2, ServesOn
<1>7. Around(m, t) /\ Around(m, u)
  BY <1>1, <1>3, <1>6 DEF Around, TtInv
<1>8. CASE TtReturns(m, u)
  BY <1>7, <1>8, TtMasterIs, Returned
<1>9. CASE TtReturns(m, t)
  BY <1>7, <1>9, TtMasterIs, Returned
<1>10. CASE /\ f.rest # << >>
            /\ TtSleep(m, "write", [ioc |-> Len(f.rest), s |-> f.rest], [t EXCEPT !.asleep = TRUE])
  <2>1. PICK args : args = [ioc |-> Len(f.rest), s |-> f.rest]
    OBVIOUS
  <2>2. PICK op \in {"read", "write"} : op = "write"
    OBVIOUS
  <2>3. args.s \in Seq(TtChars) /\ args.s # << >> /\ "T_ISTOP" \in t.flags
    BY <1>2, <1>3, <1>10, <2>1
  <2>4. TtSleep(m, op, args, [t EXCEPT !.asleep = TRUE])
    BY <1>10, <2>1, <2>2
  <2> QED BY <1>3, <2>2, <2>3, <2>4, MasterSlept
<1> QED BY <1>2, <1>4, <1>5, <1>8, <1>9, <1>10 DEF Writes

LEMMA masterWriteKeeps ==
  ASSUME TtInv, NEW m \in TtMasters, masterWrite(m) PROVE TtInv'
<1>1. UNCHANGED <<ttVtime, ttMode, ttCycle>>
  BY DEF masterWrite, ttTimers
<1>2. tt \in TtStates
  BY DEF TtInv, TtTyped
<1>3. CASE tt.mopen # 0 /\ \E s \in TtInputs : Writes(m, Fed(tt, s))
  <2>1. PICK s \in TtInputs : Writes(m, Fed(tt, s))
    BY <1>3
  <2>2. s \in Seq(TtChars)
    BY TtAssumption
  <2>3. PICK f : f = Fed(tt, s)
    OBVIOUS
  <2>4. FedWell(tt, f)
    BY <1>2, <2>2, <2>3, FedServes
  <2> QED BY <1>1, <1>3, <2>1, <2>3, <2>4, WritesKeeps DEF FedWell
<1>4. CASE /\ Resumes(m, "write")
           /\ Writes(m, Fed(ttin(tt, Head(ttArg[m].s)), Tail(ttArg[m].s)))
  <2>1. MasterHolds(tt, ttOp[m], ttArg[m], ttPc[m])
    BY DEF TtInv
  <2>2. tt.mopen # 0 /\ ttArg[m].s \in Seq(TtChars) /\ ttArg[m].s # << >>
    BY <1>4, <2>1 DEF Resumes, MasterHolds, Inside
  <2>3. PICK s : s = ttArg[m].s
    OBVIOUS
  <2>4. PICK c : c = Head(s)
    OBVIOUS
  <2>5. PICK r : r = Tail(s)
    OBVIOUS
  <2>6. c \in TtChars /\ r \in Seq(TtChars)
    BY <2>2, <2>3, <2>4, <2>5
  <2>7. PICK i : i = ttin(tt, c)
    OBVIOUS
  <2>8. Serves(tt, i) /\ i \in TtStates /\ i.mopen = tt.mopen
    BY <1>2, <2>6, <2>7, ttinServes, ttinMopen DEF Serves
  <2>9. PICK f : f = Fed(i, r)
    OBVIOUS
  <2>10. FedWell(i, f)
    BY <2>6, <2>8, <2>9, FedServes
  <2>11. /\ f \in FedStates /\ Serves(i, f.t) /\ f.t.mopen = tt.mopen
         /\ f.rest # << >> => "T_ISTOP" \in f.t.flags
    BY <2>8, <2>10 DEF FedWell
  <2>12. Serves(tt, f.t)
    BY <2>8, <2>11, ServesOn
  <2>13. Writes(m, f)
    BY <1>4, <2>3, <2>4, <2>5, <2>7, <2>9
  <2> QED BY <1>1, <2>2, <2>11, <2>12, <2>13, WritesKeeps
<1> QED BY <1>3, <1>4 DEF masterWrite

LEMMA masterInterruptedKeeps ==
  ASSUME TtInv, NEW m \in TtMasters, masterInterrupted(m) PROVE TtInv'
<1>1. TtReturns(m, tt) /\ UNCHANGED <<ttVtime, ttMode, ttCycle>>
  BY DEF masterInterrupted, ttTimers
<1>2. Around(m, tt)
  BY <1>1, QuietSame
<1> QED BY <1>1, <1>2, TtMasterIs, Returned

LEMMA TtSignalKeeps ==
  ASSUME TtInv, NEW p \in TtProcs, TtSignal(p) PROVE TtInv'
<1>1. /\ Inside(ttPc[p]) /\ ttPc' = [ttPc EXCEPT ![p] = "signal"]
      /\ UNCHANGED <<tt, ttCycle, ttVtime, ttMode, ttOp, ttArg>>
  BY DEF TtSignal, Inside, ttTimers
<1>2. TtTyped
  BY DEF TtInv
<1>3. TtTyped'
  <2>1. ttPc' \in [TtProcs -> TtPcs]
    BY <1>1, <1>2 DEF TtTyped, TtPcs
  <2> QED BY <1>1, <1>2, <2>1 DEF TtTyped
<1>4. \A q \in TtProcs : ttPc'[q] = ttPc[q] \/ (q = p /\ ttPc'[q] = "signal")
  BY <1>1, <1>2 DEF TtTyped
<1>5. ASSUME NEW q \in TtSlaves
      PROVE  SlaveHolds(q, tt, ttVtime, ttOp[q], ttArg[q], ttPc'[q])
  <2>1. SlaveHolds(q, tt, ttVtime, ttOp[q], ttArg[q], ttPc[q])
    BY DEF TtInv
  <2>2. CASE ttPc'[q] = ttPc[q]
    BY <2>1, <2>2
  <2>3. CASE ttPc'[q] = "signal"
    BY <2>3 DEF SlaveHolds, Inside
  <2> QED BY <1>4, <2>2, <2>3 DEF TtProcs
<1>6. ASSUME NEW m \in TtMasters
      PROVE  MasterHolds(tt, ttOp[m], ttArg[m], ttPc'[m])
  <2>1. MasterHolds(tt, ttOp[m], ttArg[m], ttPc[m])
    BY DEF TtInv
  <2>2. CASE ttPc'[m] = ttPc[m]
    BY <2>1, <2>2
  <2>3. CASE m = p /\ ttPc'[m] = "signal"
    <3>1. tt.mopen # 0
      BY <1>1, <2>1, <2>3 DEF MasterHolds, Inside
    <3> QED BY <2>3, <3>1 DEF MasterHolds, Inside
  <2> QED BY <1>4, <2>2, <2>3 DEF TtProcs
<1>7. tt.mopen # 0 => ttCycle
  BY DEF TtInv
<1> QED BY <1>1, <1>3, <1>5, <1>6, <1>7 DEF TtInv

----------------------------------------------------------------------------
(* The theorems.                                                           *)

LEMMA TtInitInv == TtInit => TtInv
<1> SUFFICES ASSUME TtInit PROVE TtInv
  OBVIOUS
<1>1. PICK no : no = << >>
  OBVIOUS
<1>2. no \in Seq(TtChars)
  BY <1>1
<1>3. PICK nobody : nobody = {}
  OBVIOUS
<1>4. tt = [flags |-> nobody, iq |-> no, oq |-> 0, ib |-> no, open |-> 0,
            group |-> FALSE, mopen |-> 0, asleep |-> FALSE, ttwr |-> FALSE, wake |-> nobody]
  BY <1>1, <1>3 DEF TtInit
<1>5. nobody \in SUBSET TtFlags /\ nobody \in SUBSET TtWakes
  BY <1>3
<1>6. tt \in TtStates /\ tt.wake = {} /\ tt.mopen = 0
  BY <1>2, <1>3, <1>4, <1>5 DEF TtStates
<1>7. ttMode \in TtModeSet
  BY TtAssumption DEF TtInit, DefaultMode, TtModeSet
<1>8. ttOp \in [TtProcs -> TtOps] /\ ttPc \in [TtProcs -> TtPcs]
  BY DEF TtInit, TtOps, TtPcs
<1>9. DOMAIN ttArg = TtProcs /\ ttArg = [p \in TtProcs |-> ttArg[p]]
  BY DEF TtInit
<1>10. \A p \in TtProcs : ttPc[p] = "user"
  BY DEF TtInit
<1>11. \A m \in TtMasters : ttOp[m] = "none"
  BY TtAssumption DEF TtInit, TtProcs
<1>12. \A p \in TtSlaves : SlaveHolds(p, tt, ttVtime, ttOp[p], ttArg[p], ttPc[p])
  BY <1>10 DEF SlaveHolds, Inside, TtProcs
<1>13. \A m \in TtMasters : MasterHolds(tt, ttOp[m], ttArg[m], ttPc[m])
  BY <1>10, <1>11 DEF MasterHolds, Inside, TtProcs
<1> QED BY <1>6, <1>7, <1>8, <1>9, <1>12, <1>13 DEF TtInv, TtTyped

LEMMA TtStepKeeps == TtInv /\ [TtNext]_ttVars => TtInv'
<1> SUFFICES ASSUME TtInv, [TtNext]_ttVars PROVE TtInv'
  OBVIOUS
<1>1. ASSUME NEW p \in TtSlaves,
             \/ ptyread(p) \/ ptywrite(p) \/ ttioctl(p) \/ ptyopen(p)
             \/ ptyclose(p) \/ VtimeOver(p)
      PROVE  TtInv'
  BY <1>1, ptyreadKeeps, ptywriteKeeps, ttioctlKeeps, ptyopenKeeps, ptycloseKeeps, VtimeOverKeeps
<1>2. ASSUME NEW m \in TtMasters,
             \/ masterOpen(m) \/ masterClose(m) \/ masterRead(m)
             \/ masterWrite(m) \/ masterInterrupted(m)
      PROVE  TtInv'
  BY <1>2, masterOpenKeeps, masterCloseKeeps, masterReadKeeps, masterWriteKeeps, masterInterruptedKeeps
<1>3. CASE \E p \in TtProcs : TtSignal(p)
  BY <1>3, TtSignalKeeps
<1>4. CASE Cycle
  BY <1>4, CycleKeeps
<1>5. CASE UNCHANGED ttVars
  BY <1>5 DEF ttVars, ttTimers, ttCalls, TtInv, TtTyped
<1> QED BY <1>1, <1>2, <1>3, <1>4, <1>5 DEF TtNext

LEMMA TtAlways == TtSpec => []TtInv
<1> QED BY TtInitInv, TtStepKeeps, PTL DEF TtSpec

LEMMA TtInvWriters == TtInv => TtWriterServed
<1> SUFFICES ASSUME TtInv PROVE TtWriterServed
  OBVIOUS
<1>1. tt.wake = {}
  BY DEF TtInv, TtTyped
<1>2. ASSUME NEW p \in TtSlaves
      PROVE  /\ TtAsleep(p, "write") => "T_HILIM" \in tt.flags
             /\ TtAsleep(p, "drain") \/ TtAsleep(p, "close") => "T_DRAIN" \in tt.flags
  <2>1. SlaveHolds(p, tt, ttVtime, ttOp[p], ttArg[p], ttPc[p])
    BY DEF TtInv
  <2> QED BY <1>1, <2>1 DEF SlaveHolds, TtAsleep, ForWriter, ForDrain
<1> QED BY <1>2 DEF TtWriterServed

LEMMA TtInvMasters == TtInv => TtMasterServed
<1> SUFFICES ASSUME TtInv PROVE TtMasterServed
  OBVIOUS
<1>1. tt.wake = {} /\ (tt.mopen # 0 => ttCycle)
  BY DEF TtInv, TtTyped
<1>2. ASSUME NEW m \in TtMasters, ttPc[m] = "asleep"
      PROVE  /\ ttOp[m] = "write" => "T_ISTOP" \in tt.flags
             /\ ttOp[m] = "read" => tt.mopen # 3
             /\ ttCycle /\ tt.asleep
  <2>1. MasterHolds(tt, ttOp[m], ttArg[m], ttPc[m])
    BY DEF TtInv
  <2> QED BY <1>1, <1>2, <2>1 DEF MasterHolds, ForInput, ForOutput, ForCycle
<1> QED BY <1>2 DEF TtMasterServed, TtAsleep

LEMMA TtInvReaders == TtStaysCanonical /\ TtInv => TtReaderServed
<1> SUFFICES ASSUME TtStaysCanonical, TtInv PROVE TtReaderServed
  OBVIOUS
<1>1. tt.wake = {}
  BY DEF TtInv, TtTyped
<1>2. ASSUME NEW p \in TtSlaves, TtAsleep(p, "read")
      PROVE  /\ tt.iq = << >>
             /\ {"T_CARR", "T_INPUT"} \subseteq tt.flags
             /\ ttArg[p].timing /\ ~ ttArg[p].late => ttVtime = p \/ TtReaders # {p}
  <2>1. SlaveHolds(p, tt, ttVtime, ttOp[p], ttArg[p], ttPc[p])
    BY DEF TtInv
  <2> QED BY <1>1, <1>2, <2>1 DEF SlaveHolds, TtAsleep, ForReader, Inside
<1> QED BY <1>2 DEF TtReaderServed

\* No writer, drain, close or master of the pseudo terminal is left asleep
\* without what wakes it: T_HILIM and T_DRAIN (ttwrite0, ttdrain, ttclose; tested
\* by ttstart and ttoutflush), T_ISTOP, and the cycle that ptyopen starts, whatever
\* echo, flush, signal, hangup, change of mode, open or close comes between.
THEOREM TerminalWaits == TtSpec => [](TtWriterServed /\ TtMasterServed)
<1>1. TtInv => TtWriterServed /\ TtMasterServed
  BY TtInvWriters, TtInvMasters
<1> QED BY <1>1, TtAlways, PTL

\* The same for all, readers included: one that ttread0 puts to sleep has taken
\* all there was, the master is there, and T_INPUT is set for ttin and ttinflush
\* to wake it.  That needs TCSETA to leave canonical mode alone: ttrtp
\* (tty.c:535), which it calls otherwise, fills the input queue and wakes nobody.
THEOREM TerminalServed == ASSUME TtStaysCanonical PROVE TtSpec => []TtServed
<1>1. TtInv => TtServed
  BY TtInvWriters, TtInvMasters, TtInvReaders DEF TtServed
<1> QED BY <1>1, TtAlways, PTL
====
