---- MODULE MCIpc ----
(***************************************************************************)
(* The IPC facilities share no state, so a behaviour exercises one of them *)
(* and leaves the others as they are.                                      *)
(***************************************************************************)
EXTENDS Sem, Msg, Shm, RLock

CONSTANTS p1, p2, r1, r2, r3, f1, s1, s2, NULL

O(n, o, u, w) == [num |-> n, op |-> o, undo |-> u, nowait |-> w]
MCSemOps == {<<O(0, 1, TRUE, FALSE), O(1, -1, FALSE, FALSE)>>,
             <<O(0, -1, TRUE, FALSE), O(1, 1, FALSE, FALSE)>>,
             <<O(0, 0, FALSE, FALSE), O(1, 1, TRUE, TRUE)>>}

MCWants == {0, 1, -2}
MCRanges == {<<1, 1>>, <<0, -1>>}
MCSymmetry == Permutations({r1, r2, r3})

VARIABLE facility

vars == <<semVars, msgVars, shmVars, rlVars, facility>>

Init ==
  /\ SemInit /\ MsgInit /\ ShmInit /\ RlInit
  /\ facility \in {"sem", "msg", "shm", "rlock"}

Next ==
  \/ /\ facility = "sem" /\ SemNext
     /\ UNCHANGED <<facility, msgVars, shmVars, rlVars>>
  \/ /\ facility = "msg" /\ MsgNext
     /\ UNCHANGED <<facility, semVars, shmVars, rlVars>>
  \/ /\ facility = "shm" /\ ShmNext
     /\ UNCHANGED <<facility, semVars, msgVars, rlVars>>
  \/ /\ facility = "rlock" /\ RlNext
     /\ UNCHANGED <<facility, semVars, msgVars, shmVars>>

Spec == Init /\ [][Next]_vars
====
