---------------------------- MODULE MC_SearchRuns ----------------------------
(***************************************************************************)
(* Instances of SearchRuns for TLC: one run, the command that starts it    *)
(* and two that continue it.                                               *)
(***************************************************************************)
EXTENDS SearchRuns, TLC

CONSTANTS w1, w2, c0, c1, c2

\* Workers are alike, and so are continuations.
Alike == Permutations({w1, w2}) \cup Permutations({c1, c2})
=============================================================================
