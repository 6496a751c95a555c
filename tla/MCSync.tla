---- MODULE MCSync ----
(***************************************************************************)
(* Sleep locks and synchronisation variables, both kinds of timeouts,      *)
(* deferred functions, poll (), a stream and a terminal.  They share no    *)
(* state here, so a behaviour exercises one of them and leaves the others  *)
(* as they are.                                                            *)
(***************************************************************************)
EXTENDS Ksynch, DdiTime, Timeout, Defer, Poll, Stream, Tty

CONSTANTS p1, p2, p3, c1, c2, c3, u1, u2, r1, r2, w1, s1, s2, m1, NULL,
          Facilities   \* those that a run exercises

MCPri == [p \in {p1, p2, p3} |-> IF p = p3 THEN 2 ELSE 1]
MCSymmetry == Permutations({c2, c3}) \cup Permutations({u1, u2})
              \cup Permutations({r1, r2})

\* Modes of terminals: in the canonical one c_cc [VMIN] is the character EOF.
MCCanon == [canon |-> TRUE, echo |-> TRUE, vmin |-> 2, vtime |-> TRUE]
MCModes == {MCCanon, [canon |-> FALSE, echo |-> FALSE, vmin |-> 0, vtime |-> TRUE]}
MCModesNow == {MCCanon}
MCInputs == {<<"c", "nl">>, <<"c", "intr", "c">>}

VARIABLE facility

vars == <<ksVars, tdVars, tmVars, dfVars, plVars, smVars, ttVars,
          facility>>

Init ==
  /\ KsInit /\ TdInit /\ TmInit /\ DfInit /\ PlInit /\ SmInit /\ TtInit
  /\ facility \in Facilities

Next ==
  \/ /\ facility = "ksynch" /\ KsNext
     /\ UNCHANGED <<facility, tdVars, tmVars, dfVars, plVars, smVars, ttVars>>
  \/ /\ facility = "ddi_time" /\ TdNext
     /\ UNCHANGED <<facility, ksVars, tmVars, dfVars, plVars, smVars, ttVars>>
  \/ /\ facility = "timeout" /\ TmNext
     /\ UNCHANGED <<facility, ksVars, tdVars, dfVars, plVars, smVars, ttVars>>
  \/ /\ facility = "defer" /\ DfNext
     /\ UNCHANGED <<facility, ksVars, tdVars, tmVars, plVars, smVars, ttVars>>
  \/ /\ facility = "poll" /\ PlNext
     /\ UNCHANGED <<facility, ksVars, tdVars, tmVars, dfVars, smVars, ttVars>>
  \/ /\ facility = "stream" /\ SmNext
     /\ UNCHANGED <<facility, ksVars, tdVars, tmVars, dfVars, plVars, ttVars>>
  \/ /\ facility = "tty" /\ TtNext
     /\ UNCHANGED <<facility, ksVars, tdVars, tmVars, dfVars, plVars, smVars>>

Spec == Init /\ [][Next]_vars
====
