---- MODULE HandOff ----
(***************************************************************************)
(* What a DDI/DKI sleep lock promises: one owner at a time, a lock that is *)
(* never free while somebody waits, and a release that passes the lock to  *)
(* a waiter of the highest priority before anybody else can take it.       *)
(***************************************************************************)
EXTENDS Naturals, FiniteSets

CONSTANTS
  Holders,    \* whoever may own the lock
  Priority,   \* Priority[h]: the priority h waits at
  Free        \* the lock has no owner

VARIABLES
  owner,      \* the owner of the lock, or Free
  waiting     \* the waiters

HandOffVars == <<owner, waiting>>

HandOffInit == owner = Free /\ waiting = {}

Take(h) ==
  /\ owner = Free
  /\ owner' = h
  /\ UNCHANGED waiting

Wait(h) ==
  /\ owner # Free
  /\ h \notin waiting \cup {owner}
  /\ waiting' = waiting \cup {h}
  /\ UNCHANGED owner

Abandon(h) ==
  /\ h \in waiting
  /\ waiting' = waiting \ {h}
  /\ UNCHANGED owner

Pass(h) ==
  /\ h \in waiting
  /\ \A w \in waiting : Priority[w] =< Priority[h]
  /\ owner' = h
  /\ waiting' = waiting \ {h}

Release ==
  /\ owner # Free
  /\ waiting = {}
  /\ owner' = Free
  /\ UNCHANGED waiting

HandOffNext ==
  \/ Release
  \/ \E h \in Holders : Take(h) \/ Wait(h) \/ Abandon(h) \/ Pass(h)

HandOffSpec == HandOffInit /\ [][HandOffNext]_HandOffVars
====
