---- MODULE ByteLocks ----
(***************************************************************************)
(* What record locking promises, byte by byte: a table of who holds which  *)
(* byte of which file for reading (0) or writing (1).  There are no list   *)
(* elements, no ends of file and no shortage here.  A call that finds the  *)
(* kernel short of lock structures may leave bytes locked it should have   *)
(* released or changed to the other type, but never releases others: "The *)
(* user is guaranteed no unwanted unlocks regardless of error" (rlock.c).  *)
(***************************************************************************)
EXTENDS Integers

CONSTANTS Procs, Files, Bytes

VARIABLE held   \* held[f]: the triples <<process, byte, type>>

LockType == {0, 1}
Interval(a, b) == {i \in Bytes : a <= i /\ i <= b}

\* Others may hold byte b of f when p locks it with type t.
Free(f, p, b, t) ==
  \A h \in held[f] : h[1] # p /\ h[2] = b => t = 0 /\ h[3] = 0

BytesInit == held = [f \in Files |-> {}]

\* Only the locks of p on f change, by adding new and by losing some of old.
Changes(p, f, new, old) ==
  /\ DOMAIN held' = Files
  /\ \A g \in Files \ {f} : held'[g] = held[g]
  /\ new \subseteq held'[f] /\ held'[f] \subseteq held[f] \cup new
  /\ held[f] \ held'[f] \subseteq old

\* p holds the bytes a to b with type t, and what it held of them with the
\* other type goes.
Lock(p, f, a, b, t) ==
  /\ \A i \in Interval(a, b) : Free(f, p, i, t)
  /\ Changes(p, f, {p} \X Interval(a, b) \X {t}, {p} \X Interval(a, b) \X {1 - t})

\* p releases the bytes a to b.
Unlock(p, f, a, b) == Changes(p, f, {}, {p} \X Interval(a, b) \X LockType)

BytesNext ==
  \E p \in Procs, f \in Files, a \in Bytes, b \in Bytes :
    \/ \E t \in LockType : Lock(p, f, a, b, t)
    \/ Unlock(p, f, a, b)

BytesSpec == BytesInit /\ [][BytesNext]_held
====
