---- MODULE MCKern ----
(***************************************************************************)
(* Processes, signals and ptrace; inodes; free blocks.  They share no state *)
(* here, so a behaviour exercises one of them and leaves the others as they *)
(* are.                                                                    *)
(***************************************************************************)
EXTENDS Process, Inode, FreeList, TLC

CONSTANTS p1, p2, p3, d1, d2, d3, d4, f1, f2, NULL,
          Facilities   \* those that a run exercises

\* Files of one directory.
MCDir == [n \in 1 .. 3 |-> 1]
MCOpens == {<<p1, 3>>, <<p3, 2>>}
MCOpensBoth == {<<p1, 3>>, <<p2, 3>>}
MCCreats == {<<p1, 1>>, <<p2, 2>>, <<p3, 3>>}
MCUnlinks == {<<p2, 1>>}
MCListed == <<1>>
MCSymmetry == Permutations({f1, f2})

VARIABLE facility

vars == <<prVars, inVars, flVars, facility>>

Init ==
  /\ PrInit /\ InInit /\ FlInit
  /\ facility \in Facilities

Next ==
  \/ /\ facility = "process" /\ PrNext
     /\ UNCHANGED <<facility, inVars, flVars>>
  \/ /\ facility = "inode" /\ InNext
     /\ UNCHANGED <<facility, prVars, flVars>>
  \/ /\ facility = "freelist" /\ FlNext
     /\ UNCHANGED <<facility, prVars, inVars>>

Spec == Init /\ [][Next]_vars
====
